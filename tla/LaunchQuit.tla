------------------------------- MODULE LaunchQuit -------------------------------
(***************************************************************************)
(* The game sessions of one VidyaGod and what ends them: the set of live   *)
(* wrappers and the stop latch of src/src/containerwrapper.cpp, a launch's *)
(* thread (launchthread.cpp), the runtime "launch build" keeps up and the  *)
(* commands on the app's main thread (commands/cmd_launch.cpp), and the    *)
(* thread a quit signal wakes (quitsignals.cpp). A launch that does not    *)
(* get its session folder (SessionLock) is a choice here.                  *)
(***************************************************************************)
EXTENDS FiniteSets

CONSTANTS Games,      \* launches that play a game
          Builds,     \* "launch build" commands
          Inspects,   \* launches whose runtime the user wants to inspect
          NoOne

ASSUME QuitAssumption ==
  /\ Inspects \subseteq Games
  /\ Games \cap Builds = {} /\ NoOne \notin Games \cup Builds

Launches == Games \cup Builds

VARIABLES
  stopping,   \* g_Stopping
  live,       \* g_LiveWrappers
  pc,         \* where each launch's thread is
  process,    \* each launch's ActiveRunProcess: none, or the game's QProcess
  up,         \* the launches whose runtime is up
  built,      \* Built(): the launch that "launch build" keeps
  main,       \* what the app's main thread is in
  stop,       \* where each caller of StopAll is
  toKill      \* what StopAll, which holds the live set's lock, has left to kill

vars == <<stopping, live, pc, process, up, built, main, stop, toKill>>

Callers == {"signal", "command"}

Pcs == {"idle", "asked", "enter", "claim", "sources", "mount", "execute", "check", "start",
        "recheck", "wait", "inspect", "cleanup", "keep", "kept", "leave", "done"}

Goes(a, to) == pc' = [pc EXCEPT ![a] = to]

\* g_LiveMtx is only held across steps by the caller that kills.
LockFree == \A s \in Callers : stop[s] # "killing"

\* KillGame: nothing happens to a process that has no pid yet, or has ended.
Killed(a) == [process EXCEPT ![a] = IF @ = "running" THEN "ended" ELSE @]

--------------------------------------------------------------------------------
(* BuildContainerRuntime *)

\* mutant: a launch is not refused
EnterAnyway(a) ==
  /\ pc[a] = "enter" /\ LockFree
  /\ live' = live \cup {a} /\ Goes(a, "claim")
  /\ UNCHANGED <<stopping, process, up, built, main, stop, toKill>>

\* The latch is looked at, and the live set joined, under the live set's lock.
Enter(a) ==
  /\ pc[a] = "enter" /\ LockFree
  /\ IF stopping THEN Goes(a, "done") /\ UNCHANGED live
     ELSE live' = live \cup {a} /\ Goes(a, "claim")
  /\ UNCHANGED <<stopping, process, up, built, main, stop, toKill>>

\* mutant: a refused launch stays in the live set
ClaimForgets(a) ==
  /\ pc[a] = "claim"
  /\ Goes(a, "done") \/ Goes(a, "sources")
  /\ UNCHANGED <<stopping, live, process, up, built, main, stop, toKill>>

Claim(a) ==
  /\ pc[a] = "claim"
  /\ Goes(a, "leave") \/ Goes(a, "sources")
  /\ UNCHANGED <<stopping, live, process, up, built, main, stop, toKill>>

\* The content is fetched, which may fail; the latch is looked at again.
Sources(a) ==
  /\ pc[a] = "sources"
  /\ Goes(a, "cleanup") \/ (~stopping /\ Goes(a, "mount"))
  /\ UNCHANGED <<stopping, live, process, up, built, main, stop, toKill>>

\* A build that fails may have mounted something.
Mount(a) ==
  /\ pc[a] = "mount"
  /\ up' = up \cup {a}
  /\ Goes(a, "cleanup") \/ Goes(a, IF a \in Games THEN "execute" ELSE "keep")
  /\ UNCHANGED <<stopping, live, process, built, main, stop, toKill>>

--------------------------------------------------------------------------------
(* Execute *)

\* After the game: LaunchThread::run.
After(a) == IF a \in Inspects THEN "inspect" ELSE "cleanup"

\* Without a sandbox the game is not started; else KillGame can reach its process.
Execute(a) ==
  /\ pc[a] = "execute"
  /\ \/ Goes(a, After(a)) /\ UNCHANGED process
     \/ Goes(a, "check") /\ process' = [process EXCEPT ![a] = "unborn"]
  /\ UNCHANGED <<stopping, live, up, built, main, stop, toKill>>

\* mutant: the process that is not started stays registered
CheckKeeps(a) ==
  /\ pc[a] = "check"
  /\ Goes(a, IF stopping THEN After(a) ELSE "start")
  /\ UNCHANGED <<stopping, live, process, up, built, main, stop, toKill>>

Check(a) ==
  /\ pc[a] = "check"
  /\ IF stopping THEN Goes(a, After(a)) /\ process' = [process EXCEPT ![a] = "none"]
     ELSE Goes(a, "start") /\ UNCHANGED process
  /\ UNCHANGED <<stopping, live, up, built, main, stop, toKill>>

StartGame(a) ==
  /\ pc[a] = "start"
  /\ \E p \in {"running", "ended"} : process' = [process EXCEPT ![a] = p]
  /\ Goes(a, "recheck")
  /\ UNCHANGED <<stopping, live, up, built, main, stop, toKill>>

\* mutant: the latch is not looked at after the start
RecheckNothing(a) ==
  /\ pc[a] = "recheck"
  /\ Goes(a, "wait")
  /\ UNCHANGED <<stopping, live, process, up, built, main, stop, toKill>>

Recheck(a) ==
  /\ pc[a] = "recheck"
  /\ process' = IF stopping THEN Killed(a) ELSE process
  /\ Goes(a, "wait")
  /\ UNCHANGED <<stopping, live, up, built, main, stop, toKill>>

GameEnds(a) ==
  /\ process[a] = "running"
  /\ process' = [process EXCEPT ![a] = "ended"]
  /\ UNCHANGED <<stopping, live, pc, up, built, main, stop, toKill>>

Finished(a) ==
  /\ pc[a] = "wait" /\ process[a] = "ended"
  /\ process' = [process EXCEPT ![a] = "none"]
  /\ Goes(a, After(a))
  /\ UNCHANGED <<stopping, live, up, built, main, stop, toKill>>

\* The user closes "Inspect runtime": a dialog of the main thread.
CloseDialog(a) ==
  /\ pc[a] = "inspect" /\ main = "free"
  /\ Goes(a, "cleanup")
  /\ UNCHANGED <<stopping, live, process, up, built, main, stop, toKill>>

--------------------------------------------------------------------------------
(* Cleanup, and the wrapper's end *)

\* What the session kept is stored; its mounts are detached, busy or not.
Cleanup(a) ==
  /\ pc[a] = "cleanup"
  /\ up' = up \ {a}
  /\ Goes(a, "leave")
  /\ UNCHANGED <<stopping, live, process, built, main, stop, toKill>>

Leave(a) ==
  /\ pc[a] = "leave" /\ LockFree
  /\ live' = live \ {a}
  /\ Goes(a, "done")
  /\ UNCHANGED <<stopping, process, up, built, main, stop, toKill>>

--------------------------------------------------------------------------------
(* The commands "launch build" and "launch teardown" *)

\* One runtime is kept at a time.
Ask(a) ==
  /\ pc[a] = "asked"
  /\ Goes(a, IF built = NoOne THEN "enter" ELSE "done")
  /\ UNCHANGED <<stopping, live, process, up, built, main, stop, toKill>>

\* Built() is assigned: a wrapper it still had is destroyed, as it is.
Keep(a) ==
  /\ pc[a] = "keep" /\ (built # NoOne => LockFree)
  /\ built' = a
  /\ live' = live \ {built}
  /\ pc' = [pc EXCEPT ![a] = "kept", ![built] = "done"]
  /\ UNCHANGED <<stopping, process, up, main, stop, toKill>>

\* mutant: the wrapper goes without its Cleanup
TeardownDrops ==
  /\ main = "free" /\ built # NoOne
  /\ main' = "teardown" /\ Goes(built, "leave")
  /\ UNCHANGED <<stopping, live, process, up, built, stop, toKill>>

\* On the main thread: Cleanup, then the wrapper goes.
Teardown ==
  /\ main = "free" /\ built # NoOne
  /\ main' = "teardown" /\ Goes(built, "cleanup")
  /\ UNCHANGED <<stopping, live, process, up, built, stop, toKill>>

TornDown ==
  /\ main = "teardown" /\ pc[built] = "done"
  /\ main' = "free" /\ built' = NoOne
  /\ UNCHANGED <<stopping, live, pc, process, up, stop, toKill>>

--------------------------------------------------------------------------------
(* The user and the main thread *)

Launch(a) ==
  /\ main = "free" /\ pc[a] = "idle"
  /\ Goes(a, IF a \in Games THEN "enter" ELSE "asked")
  /\ UNCHANGED <<stopping, live, process, up, built, main, stop, toKill>>

\* LaunchThread::kill
UserStops(a) ==
  /\ main = "free" /\ process[a] # "none"
  /\ process' = Killed(a)
  /\ UNCHANGED <<stopping, live, pc, up, built, main, stop, toKill>>

\* The tray's Quit and a window that closes for good end the process at once.
CloseWindow ==
  /\ main = "free"
  /\ main' = "gone"
  /\ UNCHANGED <<stopping, live, pc, process, up, built, stop, toKill>>

\* What QuitGui posted.
Quit ==
  /\ main = "free" /\ stop["signal"] = "posted"
  /\ main' = "gone"
  /\ UNCHANGED <<stopping, live, pc, process, up, built, stop, toKill>>

--------------------------------------------------------------------------------
(* StopAll and WaitNoneLive: Handle of a quit signal, and "launch stop" *)

StopAt(s, to) == stop' = [stop EXCEPT ![s] = to]

\* "launch stop" runs on the main thread. Bound: it is asked for once; only the
\* first signal comes here (a second one ends the process).
Latch(s) ==
  /\ stop[s] = "idle"
  /\ IF s = "command" THEN main = "free" /\ main' = "stop" ELSE UNCHANGED main
  /\ stopping' = TRUE
  /\ StopAt(s, "latched")
  /\ UNCHANGED <<live, pc, process, up, built, toKill>>

Lock(s) ==
  /\ stop[s] = "latched" /\ LockFree
  /\ toKill' = live
  /\ StopAt(s, "killing")
  /\ UNCHANGED <<stopping, live, pc, process, up, built, main>>

Kill(s) ==
  /\ stop[s] = "killing"
  /\ \E a \in toKill : toKill' = toKill \ {a} /\ process' = Killed(a)
  /\ UNCHANGED <<stopping, live, pc, up, built, main, stop>>

Unlock(s) ==
  /\ stop[s] = "killing" /\ toKill = {}
  /\ StopAt(s, IF s = "signal" THEN "count" ELSE "waiting")
  /\ UNCHANGED <<stopping, live, pc, process, up, built, main, toKill>>

\* With no session the signal's thread quits at once.
Count ==
  /\ stop["signal"] = "count" /\ LockFree
  /\ StopAt("signal", IF live = {} THEN "posted" ELSE "waiting")
  /\ UNCHANGED <<stopping, live, pc, process, up, built, main, toKill>>

NoneLive(s) ==
  /\ stop[s] = "waiting" /\ LockFree /\ live = {}
  /\ IF s = "signal" THEN StopAt(s, "posted") /\ UNCHANGED main
     ELSE StopAt(s, "returned") /\ main' = "free"
  /\ UNCHANGED <<stopping, live, pc, process, up, built, toKill>>

--------------------------------------------------------------------------------
Init ==
  /\ stopping = FALSE /\ live = {} /\ up = {} /\ built = NoOne
  /\ pc = [a \in Launches |-> "idle"]
  /\ process = [a \in Launches |-> "none"]
  /\ main = "free"
  /\ stop = [s \in Callers |-> "idle"]
  /\ toKill = {}

ThreadStep(a) ==
  \/ Enter(a) \/ Claim(a) \/ Sources(a) \/ Mount(a)
  \/ Execute(a) \/ Check(a) \/ StartGame(a) \/ Recheck(a) \/ Finished(a)
  \/ Cleanup(a) \/ Leave(a)
  \/ Ask(a) \/ Keep(a)

CallerStep(s) == Lock(s) \/ Kill(s) \/ Unlock(s) \/ (s = "signal" /\ Count) \/ NoneLive(s)

UserStep ==
  \/ \E a \in Launches : Launch(a) \/ GameEnds(a) \/ UserStops(a) \/ CloseDialog(a)
  \/ Teardown \/ CloseWindow
  \/ \E s \in Callers : Latch(s)

Next ==
  /\ main # "gone"
  /\ \/ \E a \in Launches : ThreadStep(a)
     \/ \E s \in Callers : CallerStep(s)
     \/ UserStep \/ TornDown \/ Quit

Spec == Init /\ [][Next]_vars

\* Threads run, content fetches and captures end, and the event loop comes to
\* what was posted to it. The user and the games owe nothing.
FairSpec ==
  /\ Spec
  /\ \A a \in Launches : WF_vars(main # "gone" /\ ThreadStep(a))
  /\ \A s \in Callers : WF_vars(main # "gone" /\ CallerStep(s))
  /\ WF_vars(TornDown)
  /\ WF_vars(Quit)

--------------------------------------------------------------------------------
(* Correctness *)

\* Types, and the process that KillGame reaches is one that Execute waits for:
\* the pointer never outlives the QProcess (containerwrapper.h:118).
TypeOK ==
  /\ stopping \in BOOLEAN
  /\ live \subseteq Launches /\ up \subseteq Launches /\ toKill \subseteq Launches
  /\ pc \in [Launches -> Pcs]
  /\ process \in [Launches -> {"none", "unborn", "running", "ended"}]
  /\ built \in Builds \cup {NoOne}
  /\ main \in {"free", "stop", "teardown", "gone"}
  /\ stop \in [Callers -> {"idle", "latched", "killing", "count", "waiting", "posted",
                        "returned"}]
  /\ \A a \in Launches :
       process[a] # "none" => pc[a] \in {"check", "start", "recheck", "wait"}

\* A session is live "to the end of its Cleanup": no runtime is up that is not
\* in the live set, so that nothing is up once none is live.
UpIsLive == up \subseteq live

\* "For the rest of the process no game starts": past StopAll, a game that runs
\* is one whose thread is about to look at the latch again.
NoGameOutlivesStop ==
  stop["signal"] \in {"count", "waiting", "posted"} =>
    \A a \in Launches : process[a] = "running" => pc[a] = "recheck"

\* The app quits on a signal only once every session is stored and removed, and
\* no launch slips in between the count and the quit.
QuitLeavesNone == stop["signal"] = "posted" => live = {}

\* A quit on a signal leaves no game behind, at any of its steps.
QuitLeavesNoGame == NoGameOutlivesStop /\ QuitLeavesNone

\* What only the user ends: a kept runtime, a dialog.
HeldUp == built # NoOne \/ \E a \in Launches : pc[a] = "inspect"

\* A signal ends the app, whatever its launches are doing, unless the user
\* keeps a runtime up.
QuitEnds == <>[]~HeldUp => (stop["signal"] # "idle" ~> main = "gone")
================================================================================
