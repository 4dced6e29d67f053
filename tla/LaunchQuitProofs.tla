---------------------------- MODULE LaunchQuitProofs ----------------------------
(***************************************************************************)
(* Theorems about LaunchQuit, for every value of its constants.            *)
(***************************************************************************)
EXTENDS LaunchQuit, TLAPS

\* The steps of a launch in the live set, and those of a game's launch only.
SessionPcs == Pcs \ {"idle", "asked", "enter", "done"}
GamePcs == {"execute", "check", "start", "recheck", "wait", "inspect"}

\* Past StopAll; the latch is set from the start of it.
Past == {"count", "waiting", "posted"}

\* Which launch is at which step, and what the main thread is in.
Shape ==
  /\ \A b \in Builds : pc[b] \notin GamePcs
  /\ \A g \in Games : pc[g] \notin {"asked", "keep", "kept"}
  /\ built # NoOne => pc[built] \in {"kept", "cleanup", "leave", "done"}
  /\ built # NoOne /\ main \in {"free", "stop"} => pc[built] = "kept"
  /\ stop["command"] \in {"latched", "killing", "waiting"} => main = "stop"

Latched == \A s \in Callers : stop[s] # "idle" => stopping

\* A launch is in the live set from its entry to its leave.
Joined == \A a \in Launches : pc[a] \in SessionPcs => a \in live

OneKills == stop["signal"] = "killing" => stop["command"] # "killing"

\* While the signal's StopAll kills, a game that runs is yet to be killed, by it
\* or by its own thread.
Doomed ==
  /\ stop["signal"] = "killing" =>
       \A a \in Launches : process[a] = "running" => pc[a] = "recheck" \/ a \in toKill
  /\ NoGameOutlivesStop

Inv == TypeOK /\ Shape /\ Latched /\ Joined /\ OneKills /\ Doomed /\ QuitLeavesNone

LEMMA InvInit == Init => Inv
BY QuitAssumption DEF Init, Inv, TypeOK, Shape, Latched, Joined, OneKills, Doomed, QuitLeavesNone,
   NoGameOutlivesStop, Launches, Callers, Pcs, SessionPcs, GamePcs

LEMMA ThreadKeeps ==
  ASSUME Inv, NEW a \in Launches, ThreadStep(a)
  PROVE  Inv'
<1> USE QuitAssumption DEF Inv, Launches, Callers, Goes, StopAt, LockFree, Killed
<1>1. CASE Enter(a)
  <2>1. TypeOK'
    BY <1>1 DEF Enter, TypeOK, Pcs, Shape, GamePcs
  <2>2. Shape'
    BY <1>1 DEF Enter, TypeOK, Shape, GamePcs, Pcs
  <2>3. Latched' /\ OneKills'
    BY <1>1 DEF Enter, Latched, OneKills, TypeOK
  <2>4. Joined'
    BY <1>1 DEF Enter, Joined, SessionPcs, Pcs, TypeOK
  <2>5. Doomed'
    BY <1>1 DEF Enter, Doomed, NoGameOutlivesStop, TypeOK, Latched, Joined, SessionPcs, Pcs, OneKills
  <2>6. QuitLeavesNone'
    BY <1>1 DEF Enter, QuitLeavesNone, Latched, TypeOK
  <2> QED
    BY <2>1, <2>2, <2>3, <2>4, <2>5, <2>6
<1>2. CASE Claim(a)
  <2>1. TypeOK'
    BY <1>2 DEF Claim, TypeOK, Pcs, Shape, GamePcs
  <2>2. Shape'
    BY <1>2 DEF Claim, TypeOK, Shape, GamePcs, Pcs
  <2>3. Latched' /\ OneKills'
    BY <1>2 DEF Claim, Latched, OneKills, TypeOK
  <2>4. Joined'
    BY <1>2 DEF Claim, Joined, SessionPcs, Pcs, TypeOK
  <2>5. Doomed'
    BY <1>2 DEF Claim, Doomed, NoGameOutlivesStop, TypeOK, Latched, Joined, SessionPcs, Pcs, OneKills
  <2>6. QuitLeavesNone'
    BY <1>2 DEF Claim, QuitLeavesNone, Latched, TypeOK
  <2> QED
    BY <2>1, <2>2, <2>3, <2>4, <2>5, <2>6
<1>3. CASE Sources(a)
  <2>1. TypeOK'
    BY <1>3 DEF Sources, TypeOK, Pcs, Shape, GamePcs
  <2>2. Shape'
    BY <1>3 DEF Sources, TypeOK, Shape, GamePcs, Pcs
  <2>3. Latched' /\ OneKills'
    BY <1>3 DEF Sources, Latched, OneKills, TypeOK
  <2>4. Joined'
    BY <1>3 DEF Sources, Joined, SessionPcs, Pcs, TypeOK
  <2>5. Doomed'
    BY <1>3 DEF Sources, Doomed, NoGameOutlivesStop, TypeOK, Latched, Joined, SessionPcs, Pcs, OneKills
  <2>6. QuitLeavesNone'
    BY <1>3 DEF Sources, QuitLeavesNone, Latched, TypeOK
  <2> QED
    BY <2>1, <2>2, <2>3, <2>4, <2>5, <2>6
<1>4. CASE Mount(a)
  <2>1. TypeOK'
    BY <1>4 DEF Mount, TypeOK, Pcs, Shape, GamePcs
  <2>2. Shape'
    BY <1>4 DEF Mount, TypeOK, Shape, GamePcs, Pcs
  <2>3. Latched' /\ OneKills'
    BY <1>4 DEF Mount, Latched, OneKills, TypeOK
  <2>4. Joined'
    BY <1>4 DEF Mount, Joined, SessionPcs, Pcs, TypeOK
  <2>5. Doomed'
    BY <1>4 DEF Mount, Doomed, NoGameOutlivesStop, TypeOK, Latched, Joined, SessionPcs, Pcs, OneKills
  <2>6. QuitLeavesNone'
    BY <1>4 DEF Mount, QuitLeavesNone, Latched, TypeOK
  <2> QED
    BY <2>1, <2>2, <2>3, <2>4, <2>5, <2>6
<1>5. CASE Execute(a)
  <2>1. TypeOK'
    BY <1>5 DEF Execute, After, TypeOK, Pcs, Shape, GamePcs
  <2>2. Shape'
    BY <1>5 DEF Execute, After, TypeOK, Shape, GamePcs, Pcs
  <2>3. Latched' /\ OneKills'
    BY <1>5 DEF Execute, After, Latched, OneKills, TypeOK
  <2>4. Joined'
    BY <1>5 DEF Execute, After, Joined, SessionPcs, Pcs, TypeOK
  <2>5. Doomed'
    BY <1>5 DEF Execute, After, Doomed, NoGameOutlivesStop, TypeOK, Latched, Joined, SessionPcs, Pcs, OneKills
  <2>6. QuitLeavesNone'
    BY <1>5 DEF Execute, After, QuitLeavesNone, Latched, TypeOK
  <2> QED
    BY <2>1, <2>2, <2>3, <2>4, <2>5, <2>6
<1>6. CASE Check(a)
  <2>1. TypeOK'
    BY <1>6 DEF Check, After, TypeOK, Pcs, Shape, GamePcs
  <2>2. Shape'
    BY <1>6 DEF Check, After, TypeOK, Shape, GamePcs, Pcs
  <2>3. Latched' /\ OneKills'
    BY <1>6 DEF Check, After, Latched, OneKills, TypeOK
  <2>4. Joined'
    BY <1>6 DEF Check, After, Joined, SessionPcs, Pcs, TypeOK
  <2>5. Doomed'
    BY <1>6 DEF Check, After, Doomed, NoGameOutlivesStop, TypeOK, Latched, Joined, SessionPcs, Pcs, OneKills
  <2>6. QuitLeavesNone'
    BY <1>6 DEF Check, After, QuitLeavesNone, Latched, TypeOK
  <2> QED
    BY <2>1, <2>2, <2>3, <2>4, <2>5, <2>6
<1>7. CASE StartGame(a)
  <2>1. TypeOK'
    BY <1>7 DEF StartGame, TypeOK, Pcs, Shape, GamePcs
  <2>2. Shape'
    BY <1>7 DEF StartGame, TypeOK, Shape, GamePcs, Pcs
  <2>3. Latched' /\ OneKills'
    BY <1>7 DEF StartGame, Latched, OneKills, TypeOK
  <2>4. Joined'
    BY <1>7 DEF StartGame, Joined, SessionPcs, Pcs, TypeOK
  <2>5. Doomed'
    BY <1>7 DEF StartGame, Doomed, NoGameOutlivesStop, TypeOK, Latched, Joined, SessionPcs, Pcs, OneKills
  <2>6. QuitLeavesNone'
    BY <1>7 DEF StartGame, QuitLeavesNone, Latched, TypeOK
  <2> QED
    BY <2>1, <2>2, <2>3, <2>4, <2>5, <2>6
<1>8. CASE Recheck(a)
  <2>1. TypeOK'
    BY <1>8 DEF Recheck, TypeOK, Pcs, Shape, GamePcs
  <2>2. Shape'
    BY <1>8 DEF Recheck, TypeOK, Shape, GamePcs, Pcs
  <2>3. Latched' /\ OneKills'
    BY <1>8 DEF Recheck, Latched, OneKills, TypeOK
  <2>4. Joined'
    BY <1>8 DEF Recheck, Joined, SessionPcs, Pcs, TypeOK
  <2>5. Doomed'
    BY <1>8 DEF Recheck, Doomed, NoGameOutlivesStop, TypeOK, Latched, Joined, SessionPcs, Pcs, OneKills
  <2>6. QuitLeavesNone'
    BY <1>8 DEF Recheck, QuitLeavesNone, Latched, TypeOK
  <2> QED
    BY <2>1, <2>2, <2>3, <2>4, <2>5, <2>6
<1>9. CASE Finished(a)
  <2>1. TypeOK'
    BY <1>9 DEF Finished, After, TypeOK, Pcs, Shape, GamePcs
  <2>2. Shape'
    BY <1>9 DEF Finished, After, TypeOK, Shape, GamePcs, Pcs
  <2>3. Latched' /\ OneKills'
    BY <1>9 DEF Finished, After, Latched, OneKills, TypeOK
  <2>4. Joined'
    BY <1>9 DEF Finished, After, Joined, SessionPcs, Pcs, TypeOK
  <2>5. Doomed'
    BY <1>9 DEF Finished, After, Doomed, NoGameOutlivesStop, TypeOK, Latched, Joined, SessionPcs, Pcs, OneKills
  <2>6. QuitLeavesNone'
    BY <1>9 DEF Finished, After, QuitLeavesNone, Latched, TypeOK
  <2> QED
    BY <2>1, <2>2, <2>3, <2>4, <2>5, <2>6
<1>10. CASE Cleanup(a)
  <2>1. TypeOK'
    BY <1>10 DEF Cleanup, TypeOK, Pcs, Shape, GamePcs
  <2>2. Shape'
    BY <1>10 DEF Cleanup, TypeOK, Shape, GamePcs, Pcs
  <2>3. Latched' /\ OneKills'
    BY <1>10 DEF Cleanup, Latched, OneKills, TypeOK
  <2>4. Joined'
    BY <1>10 DEF Cleanup, Joined, SessionPcs, Pcs, TypeOK
  <2>5. Doomed'
    BY <1>10 DEF Cleanup, Doomed, NoGameOutlivesStop, TypeOK, Latched, Joined, SessionPcs, Pcs, OneKills
  <2>6. QuitLeavesNone'
    BY <1>10 DEF Cleanup, QuitLeavesNone, Latched, TypeOK
  <2> QED
    BY <2>1, <2>2, <2>3, <2>4, <2>5, <2>6
<1>11. CASE Leave(a)
  <2>1. TypeOK'
    BY <1>11 DEF Leave, TypeOK, Pcs, Shape, GamePcs
  <2>2. Shape'
    BY <1>11 DEF Leave, TypeOK, Shape, GamePcs, Pcs
  <2>3. Latched' /\ OneKills'
    BY <1>11 DEF Leave, Latched, OneKills, TypeOK
  <2>4. Joined'
    BY <1>11 DEF Leave, Joined, SessionPcs, Pcs, TypeOK
  <2>5. Doomed'
    BY <1>11 DEF Leave, Doomed, NoGameOutlivesStop, TypeOK, Latched, Joined, SessionPcs, Pcs, OneKills
  <2>6. QuitLeavesNone'
    BY <1>11 DEF Leave, QuitLeavesNone, Latched, TypeOK
  <2> QED
    BY <2>1, <2>2, <2>3, <2>4, <2>5, <2>6
<1>12. CASE Ask(a)
  <2>1. TypeOK'
    BY <1>12 DEF Ask, TypeOK, Pcs, Shape, GamePcs
  <2>2. Shape'
    BY <1>12 DEF Ask, TypeOK, Shape, GamePcs, Pcs
  <2>3. Latched' /\ OneKills'
    BY <1>12 DEF Ask, Latched, OneKills, TypeOK
  <2>4. Joined'
    BY <1>12 DEF Ask, Joined, SessionPcs, Pcs, TypeOK
  <2>5. Doomed'
    BY <1>12 DEF Ask, Doomed, NoGameOutlivesStop, TypeOK, Latched, Joined, SessionPcs, Pcs, OneKills
  <2>6. QuitLeavesNone'
    BY <1>12 DEF Ask, QuitLeavesNone, Latched, TypeOK
  <2> QED
    BY <2>1, <2>2, <2>3, <2>4, <2>5, <2>6
<1>13. CASE Keep(a)
  <2>1. TypeOK'
    <3>1. a \in Builds /\ process[a] = "none" /\ (built # NoOne => process[built] = "none")
      BY <1>13 DEF Keep, TypeOK, Shape, GamePcs
    <3>2. pc' \in [Launches -> Pcs]
      BY <1>13 DEF Keep, TypeOK, Pcs
    <3>3. \A b \in Launches : process[b] # "none" => pc'[b] = pc[b]
      BY <1>13, <3>1 DEF Keep, TypeOK
    <3> QED
      BY <1>13, <3>1, <3>2, <3>3 DEF Keep, TypeOK
  <2>2. Shape'
    BY <1>13 DEF Keep, TypeOK, Shape, GamePcs, Pcs
  <2>3. Latched' /\ OneKills'
    BY <1>13 DEF Keep, Latched, OneKills, TypeOK
  <2>4. Joined'
    BY <1>13 DEF Keep, Joined, SessionPcs, Pcs, TypeOK
  <2>5. Doomed'
    <3>1. \A b \in Launches : process[b] = "running" => pc'[b] = pc[b]
      BY <1>13 DEF Keep, TypeOK, Shape
    <3> QED
      BY <1>13, <3>1 DEF Keep, Doomed, NoGameOutlivesStop, TypeOK
  <2>6. QuitLeavesNone'
    BY <1>13 DEF Keep, QuitLeavesNone, Latched, TypeOK
  <2> QED
    BY <2>1, <2>2, <2>3, <2>4, <2>5, <2>6
<1> QED
  BY <1>1, <1>2, <1>3, <1>4, <1>5, <1>6, <1>7, <1>8, <1>9, <1>10, <1>11, <1>12, <1>13 DEF ThreadStep

LEMMA CallerKeeps ==
  ASSUME Inv, NEW s \in Callers, CallerStep(s)
  PROVE  Inv'
<1> USE QuitAssumption DEF Inv, Launches, Callers, Goes, StopAt, LockFree, Killed
<1>1. CASE Lock(s)
  <2>1. TypeOK'
    BY <1>1 DEF Lock, TypeOK, Pcs, Shape, GamePcs
  <2>2. Shape'
    BY <1>1 DEF Lock, TypeOK, Shape, GamePcs, Pcs
  <2>3. Latched' /\ OneKills'
    BY <1>1 DEF Lock, Latched, OneKills, TypeOK
  <2>4. Joined'
    BY <1>1 DEF Lock, Joined, SessionPcs, Pcs, TypeOK
  <2>5. Doomed'
    BY <1>1 DEF Lock, Doomed, NoGameOutlivesStop, TypeOK, Latched, Joined, SessionPcs, Pcs, OneKills
  <2>6. QuitLeavesNone'
    BY <1>1 DEF Lock, QuitLeavesNone, Latched, TypeOK
  <2> QED
    BY <2>1, <2>2, <2>3, <2>4, <2>5, <2>6
<1>2. CASE Kill(s)
  <2>1. TypeOK'
    BY <1>2 DEF Kill, TypeOK, Pcs, Shape, GamePcs
  <2>2. Shape'
    BY <1>2 DEF Kill, TypeOK, Shape, GamePcs, Pcs
  <2>3. Latched' /\ OneKills'
    BY <1>2 DEF Kill, Latched, OneKills, TypeOK
  <2>4. Joined'
    BY <1>2 DEF Kill, Joined, SessionPcs, Pcs, TypeOK
  <2>5. Doomed'
    BY <1>2 DEF Kill, Doomed, NoGameOutlivesStop, TypeOK, Latched, Joined, SessionPcs, Pcs, OneKills
  <2>6. QuitLeavesNone'
    BY <1>2 DEF Kill, QuitLeavesNone, Latched, TypeOK
  <2> QED
    BY <2>1, <2>2, <2>3, <2>4, <2>5, <2>6
<1>3. CASE Unlock(s)
  <2>1. TypeOK'
    BY <1>3 DEF Unlock, TypeOK, Pcs, Shape, GamePcs
  <2>2. Shape'
    BY <1>3 DEF Unlock, TypeOK, Shape, GamePcs, Pcs
  <2>3. Latched' /\ OneKills'
    BY <1>3 DEF Unlock, Latched, OneKills, TypeOK
  <2>4. Joined'
    BY <1>3 DEF Unlock, Joined, SessionPcs, Pcs, TypeOK
  <2>5. Doomed'
    BY <1>3 DEF Unlock, Doomed, NoGameOutlivesStop, TypeOK, Latched, Joined, SessionPcs, Pcs, OneKills
  <2>6. QuitLeavesNone'
    BY <1>3 DEF Unlock, QuitLeavesNone, Latched, TypeOK
  <2> QED
    BY <2>1, <2>2, <2>3, <2>4, <2>5, <2>6
<1>4. CASE Count
  <2>1. TypeOK'
    BY <1>4 DEF Count, TypeOK, Pcs, Shape, GamePcs
  <2>2. Shape'
    BY <1>4 DEF Count, TypeOK, Shape, GamePcs, Pcs
  <2>3. Latched' /\ OneKills'
    BY <1>4 DEF Count, Latched, OneKills, TypeOK
  <2>4. Joined'
    BY <1>4 DEF Count, Joined, SessionPcs, Pcs, TypeOK
  <2>5. Doomed'
    BY <1>4 DEF Count, Doomed, NoGameOutlivesStop, TypeOK, Latched, Joined, SessionPcs, Pcs, OneKills
  <2>6. QuitLeavesNone'
    BY <1>4 DEF Count, QuitLeavesNone, Latched, TypeOK
  <2> QED
    BY <2>1, <2>2, <2>3, <2>4, <2>5, <2>6
<1>5. CASE NoneLive(s)
  <2>1. TypeOK'
    BY <1>5 DEF NoneLive, TypeOK, Pcs, Shape, GamePcs
  <2>2. Shape'
    BY <1>5 DEF NoneLive, TypeOK, Shape, GamePcs, Pcs
  <2>3. Latched' /\ OneKills'
    BY <1>5 DEF NoneLive, Latched, OneKills, TypeOK
  <2>4. Joined'
    BY <1>5 DEF NoneLive, Joined, SessionPcs, Pcs, TypeOK
  <2>5. Doomed'
    BY <1>5 DEF NoneLive, Doomed, NoGameOutlivesStop, TypeOK, Latched, Joined, SessionPcs, Pcs, OneKills
  <2>6. QuitLeavesNone'
    BY <1>5 DEF NoneLive, QuitLeavesNone, Latched, TypeOK
  <2> QED
    BY <2>1, <2>2, <2>3, <2>4, <2>5, <2>6
<1> QED
  BY <1>1, <1>2, <1>3, <1>4, <1>5 DEF CallerStep

LEMMA LaunchUserKeeps ==
  ASSUME Inv, NEW a \in Launches, Launch(a) \/ GameEnds(a) \/ UserStops(a) \/ CloseDialog(a)
  PROVE  Inv'
<1> USE QuitAssumption DEF Inv, Launches, Callers, Goes, StopAt, LockFree, Killed
<1>1. CASE Launch(a)
  <2>1. TypeOK'
    BY <1>1 DEF Launch, TypeOK, Pcs, Shape, GamePcs
  <2>2. Shape'
    BY <1>1 DEF Launch, TypeOK, Shape, GamePcs, Pcs
  <2>3. Latched' /\ OneKills'
    BY <1>1 DEF Launch, Latched, OneKills, TypeOK
  <2>4. Joined'
    BY <1>1 DEF Launch, Joined, SessionPcs, Pcs, TypeOK
  <2>5. Doomed'
    BY <1>1 DEF Launch, Doomed, NoGameOutlivesStop, TypeOK, Latched, Joined, SessionPcs, Pcs, OneKills
  <2>6. QuitLeavesNone'
    BY <1>1 DEF Launch, QuitLeavesNone, Latched, TypeOK
  <2> QED
    BY <2>1, <2>2, <2>3, <2>4, <2>5, <2>6
<1>2. CASE GameEnds(a)
  <2>1. TypeOK'
    BY <1>2 DEF GameEnds, TypeOK, Pcs, Shape, GamePcs
  <2>2. Shape'
    BY <1>2 DEF GameEnds, TypeOK, Shape, GamePcs, Pcs
  <2>3. Latched' /\ OneKills'
    BY <1>2 DEF GameEnds, Latched, OneKills, TypeOK
  <2>4. Joined'
    BY <1>2 DEF GameEnds, Joined, SessionPcs, Pcs, TypeOK
  <2>5. Doomed'
    BY <1>2 DEF GameEnds, Doomed, NoGameOutlivesStop, TypeOK, Latched, Joined, SessionPcs, Pcs, OneKills
  <2>6. QuitLeavesNone'
    BY <1>2 DEF GameEnds, QuitLeavesNone, Latched, TypeOK
  <2> QED
    BY <2>1, <2>2, <2>3, <2>4, <2>5, <2>6
<1>3. CASE UserStops(a)
  <2>1. TypeOK'
    BY <1>3 DEF UserStops, TypeOK, Pcs, Shape, GamePcs
  <2>2. Shape'
    BY <1>3 DEF UserStops, TypeOK, Shape, GamePcs, Pcs
  <2>3. Latched' /\ OneKills'
    BY <1>3 DEF UserStops, Latched, OneKills, TypeOK
  <2>4. Joined'
    BY <1>3 DEF UserStops, Joined, SessionPcs, Pcs, TypeOK
  <2>5. Doomed'
    BY <1>3 DEF UserStops, Doomed, NoGameOutlivesStop, TypeOK, Latched, Joined, SessionPcs, Pcs, OneKills
  <2>6. QuitLeavesNone'
    BY <1>3 DEF UserStops, QuitLeavesNone, Latched, TypeOK
  <2> QED
    BY <2>1, <2>2, <2>3, <2>4, <2>5, <2>6
<1>4. CASE CloseDialog(a)
  <2>1. TypeOK'
    BY <1>4 DEF CloseDialog, TypeOK, Pcs, Shape, GamePcs
  <2>2. Shape'
    BY <1>4 DEF CloseDialog, TypeOK, Shape, GamePcs, Pcs
  <2>3. Latched' /\ OneKills'
    BY <1>4 DEF CloseDialog, Latched, OneKills, TypeOK
  <2>4. Joined'
    BY <1>4 DEF CloseDialog, Joined, SessionPcs, Pcs, TypeOK
  <2>5. Doomed'
    BY <1>4 DEF CloseDialog, Doomed, NoGameOutlivesStop, TypeOK, Latched, Joined, SessionPcs, Pcs, OneKills
  <2>6. QuitLeavesNone'
    BY <1>4 DEF CloseDialog, QuitLeavesNone, Latched, TypeOK
  <2> QED
    BY <2>1, <2>2, <2>3, <2>4, <2>5, <2>6
<1> QED
  BY <1>1, <1>2, <1>3, <1>4 DEF Launch

LEMMA MainKeeps ==
  ASSUME Inv, NEW s \in Callers, Latch(s) \/ Teardown \/ CloseWindow \/ TornDown \/ Quit
  PROVE  Inv'
<1> USE QuitAssumption DEF Inv, Launches, Callers, Goes, StopAt, LockFree, Killed
<1>1. CASE Latch(s)
  <2>1. TypeOK'
    BY <1>1 DEF Latch, TypeOK, Pcs, Shape, GamePcs
  <2>2. Shape'
    BY <1>1 DEF Latch, TypeOK, Shape, GamePcs, Pcs
  <2>3. Latched' /\ OneKills'
    BY <1>1 DEF Latch, Latched, OneKills, TypeOK
  <2>4. Joined'
    BY <1>1 DEF Latch, Joined, SessionPcs, Pcs, TypeOK
  <2>5. Doomed'
    BY <1>1 DEF Latch, Doomed, NoGameOutlivesStop, TypeOK, Latched, Joined, SessionPcs, Pcs, OneKills
  <2>6. QuitLeavesNone'
    BY <1>1 DEF Latch, QuitLeavesNone, Latched, TypeOK
  <2> QED
    BY <2>1, <2>2, <2>3, <2>4, <2>5, <2>6
<1>2. CASE Teardown
  <2>1. TypeOK'
    BY <1>2 DEF Teardown, TypeOK, Pcs, Shape, GamePcs
  <2>2. Shape'
    BY <1>2 DEF Teardown, TypeOK, Shape, GamePcs, Pcs
  <2>3. Latched' /\ OneKills'
    BY <1>2 DEF Teardown, Latched, OneKills, TypeOK
  <2>4. Joined'
    BY <1>2 DEF Teardown, Joined, SessionPcs, Pcs, TypeOK, Shape
  <2>5. Doomed'
    BY <1>2 DEF Teardown, Doomed, NoGameOutlivesStop, TypeOK, Shape
  <2>6. QuitLeavesNone'
    BY <1>2 DEF Teardown, QuitLeavesNone, Latched, TypeOK
  <2> QED
    BY <2>1, <2>2, <2>3, <2>4, <2>5, <2>6
<1>3. CASE CloseWindow
  <2>1. TypeOK'
    BY <1>3 DEF CloseWindow, TypeOK, Pcs, Shape, GamePcs
  <2>2. Shape'
    BY <1>3 DEF CloseWindow, TypeOK, Shape, GamePcs, Pcs
  <2>3. Latched' /\ OneKills'
    BY <1>3 DEF CloseWindow, Latched, OneKills, TypeOK
  <2>4. Joined'
    BY <1>3 DEF CloseWindow, Joined, SessionPcs, Pcs, TypeOK
  <2>5. Doomed'
    BY <1>3 DEF CloseWindow, Doomed, NoGameOutlivesStop, TypeOK, Latched, Joined, SessionPcs, Pcs, OneKills
  <2>6. QuitLeavesNone'
    BY <1>3 DEF CloseWindow, QuitLeavesNone, Latched, TypeOK
  <2> QED
    BY <2>1, <2>2, <2>3, <2>4, <2>5, <2>6
<1>4. CASE TornDown
  <2>1. TypeOK'
    BY <1>4 DEF TornDown, TypeOK, Pcs, Shape, GamePcs
  <2>2. Shape'
    BY <1>4 DEF TornDown, TypeOK, Shape, GamePcs, Pcs
  <2>3. Latched' /\ OneKills'
    BY <1>4 DEF TornDown, Latched, OneKills, TypeOK
  <2>4. Joined'
    BY <1>4 DEF TornDown, Joined, SessionPcs, Pcs, TypeOK
  <2>5. Doomed'
    BY <1>4 DEF TornDown, Doomed, NoGameOutlivesStop, TypeOK, Latched, Joined, SessionPcs, Pcs, OneKills
  <2>6. QuitLeavesNone'
    BY <1>4 DEF TornDown, QuitLeavesNone, Latched, TypeOK
  <2> QED
    BY <2>1, <2>2, <2>3, <2>4, <2>5, <2>6
<1>5. CASE Quit
  <2>1. TypeOK'
    BY <1>5 DEF Quit, TypeOK, Pcs, Shape, GamePcs
  <2>2. Shape'
    BY <1>5 DEF Quit, TypeOK, Shape, GamePcs, Pcs
  <2>3. Latched' /\ OneKills'
    BY <1>5 DEF Quit, Latched, OneKills, TypeOK
  <2>4. Joined'
    BY <1>5 DEF Quit, Joined, SessionPcs, Pcs, TypeOK
  <2>5. Doomed'
    BY <1>5 DEF Quit, Doomed, NoGameOutlivesStop, TypeOK, Latched, Joined, SessionPcs, Pcs, OneKills
  <2>6. QuitLeavesNone'
    BY <1>5 DEF Quit, QuitLeavesNone, Latched, TypeOK
  <2> QED
    BY <2>1, <2>2, <2>3, <2>4, <2>5, <2>6
<1> QED
  BY <1>1, <1>2, <1>3, <1>4, <1>5 DEF Latch

LEMMA Inductive == Inv /\ [Next]_vars => Inv'
<1> SUFFICES ASSUME Inv, [Next]_vars PROVE Inv'
  OBVIOUS
<1>1. CASE \E a \in Launches : ThreadStep(a)
  BY <1>1, ThreadKeeps
<1>2. CASE \E s \in Callers : CallerStep(s)
  BY <1>2, CallerKeeps
<1>3. CASE \E a \in Launches : Launch(a) \/ GameEnds(a) \/ UserStops(a) \/ CloseDialog(a)
  BY <1>3, LaunchUserKeeps
<1>4. CASE Teardown \/ CloseWindow \/ TornDown \/ Quit \/ \E s \in Callers : Latch(s)
  BY <1>4, MainKeeps DEF Callers
<1>5. CASE UNCHANGED vars
  BY <1>5 DEF vars, Inv, TypeOK, Shape, Latched, Joined, OneKills, Doomed, NoGameOutlivesStop, QuitLeavesNone
<1> QED
  BY <1>1, <1>2, <1>3, <1>4, <1>5 DEF Next, UserStep

\* The strengthening the theorems below rest on: every launch is at a step its
\* part allows, is in the live set as long as it has one (containerwrapper.h:49),
\* and a game that runs during StopAll has somebody to kill it.
THEOREM Invariant == Spec => []Inv
BY InvInit, Inductive, PTL DEF Spec

\* Types, and KillGame's pointer never outlives the process it points to
\* (containerwrapper.h:117), for any launches.
THEOREM TypeCorrect == Spec => []TypeOK
BY Invariant, PTL DEF Inv

\* Past StopAll no game runs that nobody will kill (containerwrapper.h:46), and the
\* signal ends the app with no session left to cut off: no launch enters the live
\* set after the count (containerwrapper.cpp:177).
THEOREM QuitCutsOffNothing == Spec => []QuitLeavesNoGame
<1>1. Inv => QuitLeavesNoGame
  BY DEF Inv, Doomed, QuitLeavesNoGame
<1> QED
  BY <1>1, Invariant, PTL

--------------------------------------------------------------------------------
(* With one "launch build" at a time, what is up is live *)

UpPcs == SessionPcs \ {"claim", "sources", "mount", "leave"}
Runtimes == \A a \in up : pc[a] \in UpPcs

LEMMA RuntimesNext ==
  ASSUME \A a, b \in Builds : a = b, Inv, Runtimes, [Next]_vars
  PROVE  Runtimes'
<1> USE QuitAssumption DEF Inv, Runtimes, Launches, Callers, Goes, UpPcs, SessionPcs, Pcs, TypeOK
<1>1. CASE \E a \in Launches : Keep(a)
  <2>1. PICK a \in Launches : Keep(a)
    BY <1>1
  <2>2. built = NoOne
    BY <2>1 DEF Keep, Shape
  <2> QED
    BY <2>1, <2>2 DEF Keep
<1>2. CASE \E a \in Launches : Mount(a) \/ Cleanup(a) \/ Leave(a)
  BY <1>2 DEF Mount, Cleanup, Leave
<1>3. CASE \E a \in Launches : Enter(a) \/ Claim(a) \/ Sources(a) \/ Ask(a)
  BY <1>3 DEF Enter, Claim, Sources, Ask
<1>4. CASE \E a \in Launches : Execute(a) \/ Check(a) \/ StartGame(a) \/ Recheck(a) \/ Finished(a)
  BY <1>4 DEF Execute, Check, StartGame, Recheck, Finished, After
<1>5. CASE \E s \in Callers : CallerStep(s)
  BY <1>5 DEF CallerStep, Lock, Kill, Unlock, Count, NoneLive
<1>6. CASE \E a \in Launches : Launch(a) \/ GameEnds(a) \/ UserStops(a) \/ CloseDialog(a)
  BY <1>6 DEF Launch, GameEnds, UserStops, CloseDialog
<1>7. CASE CloseWindow \/ TornDown \/ Quit \/ (\E s \in Callers : Latch(s)) \/ UNCHANGED vars
  BY <1>7 DEF CloseWindow, TornDown, Quit, Latch, vars
<1>8. CASE Teardown
  BY <1>8 DEF Teardown
<1> QED
  BY <1>1, <1>2, <1>3, <1>4, <1>5, <1>6, <1>7, <1>8 DEF Next, ThreadStep, UserStep

\* No runtime is up that is not in the live set (containerwrapper.h:49), if
\* one "launch build" runs at a time.
THEOREM UpStaysLive ==
  ASSUME \A a, b \in Builds : a = b
  PROVE  Spec => []UpIsLive
<1>1. Init => Runtimes
  BY DEF Init, Runtimes
<1>2. Inv /\ Runtimes => UpIsLive
  BY DEF Inv, TypeOK, Joined, Runtimes, UpPcs, UpIsLive
<1>3. Inv /\ Runtimes /\ [Next]_vars => Runtimes'
  BY RuntimesNext
<1> QED
  BY <1>1, <1>2, <1>3, Invariant, PTL DEF Spec
================================================================================
