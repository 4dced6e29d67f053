----------------------------- MODULE DownloadManager -----------------------------
(***************************************************************************)
(* The downloads the user asks for (src/src/downloadmanager.cpp): a card's *)
(* download is recorded, its worker thread checks it, installs the         *)
(* received packages it needs and fetches their content as one batch, and  *)
(* its end is handled on the GUI thread; a cancel, an exit, a crash and a  *)
(* restart that resumes what was recorded. The queue is FetchQueue.        *)
(*                                                                         *)
(* A handler of the GUI thread is one action. Two keys may be one game's   *)
(* card and the runner that game needs.                                    *)
(***************************************************************************)
EXTENDS FetchQueue, Naturals

CONSTANTS Keys,         \* download keys: the cards' GameKeys, "runner:<id>"
          Content,      \* the CIDs a key's own nodes name
          Chain,        \* the CIDs of the runner chain its game resolves to
          Paths,
          PathOf,       \* PathOf[k][c]: where the package k asks it for has its file of CID c
          Packages,
          Needs,        \* the packages a key's closures and chain reach
          MaxRuns       \* bound: processes in a behaviour

ASSUME ManagerAssumption ==
  /\ Content \in [Keys -> SUBSET Cids] /\ Chain \in [Keys -> SUBSET Cids]
  /\ PathOf \in [Keys -> [Cids -> Paths]]
  /\ Needs \in [Keys -> SUBSET Packages]
  /\ MaxRuns \in Nat

VARIABLES
  app,          \* "starting" until the node is up and downloads resume; "up"; "closing"; "gone"
  runs,         \* processes so far
  inFlight,     \* DownloadingUids
  cancelling,   \* CancellingUids
  aborted,      \* CancelledCids
  cidsOf,       \* DownloadUidCids
  needers,      \* DownloadCidToUid
  worker,       \* each key's thread, to the posting of its result
  purging,      \* CIDs that detached threads are about to drop from the cache
  dests,        \* the destinations of each CID's job
  copied,       \* the destinations a fetch copied when it started: those it will write
  record,       \* Settings.ActiveDownloads, on disk
  installed,    \* the packages that are in the library
  landed        \* the paths whose files are on disk

cardVars == <<inFlight, cancelling, aborted, cidsOf, needers>>
queueVars == <<jobVars, dests, copied>>
diskVars == <<record, installed, landed>>
vars == <<queueVars, app, runs, cardVars, worker, purging, diskVars>>

Idle == [pc |-> "idle", todo |-> {}, late |-> {}, batch |-> {}]

Becomes(k, w) == worker' = [worker EXCEPT ![k] = w]
Goes(k, to) == Becomes(k, [worker[k] EXCEPT !.pc = to])
Posts(k) == Becomes(k, [Idle EXCEPT !.pc = "posted"])

\* Nothing outlives a process but what is on disk.
Fresh ==
  /\ job' = [c \in Cids |-> "none"] /\ at' = [w \in Fetches |-> Nothing]
  /\ doomed' = {} /\ flag' = {} /\ closed' = FALSE
  /\ dests' = [c \in Cids |-> {}] /\ copied' = [w \in Fetches |-> {}]
  /\ inFlight' = {} /\ cancelling' = {} /\ purging' = {}
  /\ aborted' = [k \in Keys |-> {}] /\ cidsOf' = [k \in Keys |-> {}]
  /\ needers' = [c \in Cids |-> {}]
  /\ worker' = [k \in Keys |-> Idle]

Running == app \in {"starting", "up"}

--------------------------------------------------------------------------------
(* The GUI thread *)

\* beginDownload, of every key of ks that is not in flight yet.
Begun(ks) ==
  LET fresh == ks \ inFlight
  IN /\ inFlight' = inFlight \cup fresh
     /\ record' = record \cup fresh
     /\ cidsOf' = [k \in Keys |-> IF k \in fresh THEN Content[k] ELSE cidsOf[k]]
     /\ needers' = [c \in Cids |-> needers[c] \cup {k \in fresh : c \in Content[k]}]
     /\ worker' = [k \in Keys |-> IF k \in fresh THEN [Idle EXCEPT !.pc = "check"] ELSE worker[k]]

\* The dialog of startDownload was accepted: never for a key in flight, nor when
\* a package it needs has not arrived as the dialog saw it.
StartDownload(k) ==
  /\ Running /\ k \notin inFlight
  /\ Begun({k})
  /\ UNCHANGED <<queueVars, app, runs, cancelling, aborted, purging, installed, landed>>

ResumeAll ==
  /\ app = "starting"
  /\ app' = "up"
  /\ Begun(record)
  /\ UNCHANGED <<queueVars, runs, cancelling, aborted, purging, installed, landed>>

\* mutant: a CID another card needs is aborted too
CancellableAll(k) == cidsOf[k]

CancellableCids(k) == {c \in cidsOf[k] : needers[c] = {k}}

CancelKey(k) ==
  /\ Running /\ k \in inFlight
  /\ cancelling' = cancelling \cup {k}
  /\ aborted' = [aborted EXCEPT ![k] = CancellableCids(k)]
  /\ flag' = flag \cup CancellableCids(k)
  /\ UNCHANGED <<job, at, doomed, closed, dests, copied, app, runs, inFlight, cidsOf, needers,
                 worker, purging, diskVars>>

\* mutant: what was nobody else's when the cancel came
PurgeAborted(k) == {c \in aborted[k] : Unfinished(c)}

PurgeOnCancel(k) == {c \in aborted[k] : Unfinished(c) /\ needers[c] \ {k} = {}}

\* mutant: a card that ends clears its CIDs' flags whoever needs them
ForgetsAll(k) ==
  /\ needers' = [c \in Cids |-> IF c \in cidsOf[k] THEN {} ELSE needers[c]]
  /\ flag' = flag \ cidsOf[k]

\* The flags of the CIDs that no card needs any more are cleared.
Forgets(k) ==
  /\ needers' = [c \in Cids |-> IF c \in cidsOf[k] THEN needers[c] \ {k} ELSE needers[c]]
  /\ flag' = flag \ {c \in cidsOf[k] : needers[c] \subseteq {k}}

\* mutant: a cancelled download keeps its mark and its record
EndedKeepsRecord(k) ==
  /\ Running /\ worker[k].pc = "posted"
  /\ inFlight' = inFlight \ {k} /\ UNCHANGED cancelling
  /\ purging' = IF k \in cancelling THEN purging \cup PurgeOnCancel(k) ELSE purging
  /\ aborted' = [aborted EXCEPT ![k] = {}]
  /\ Forgets(k)
  /\ cidsOf' = [cidsOf EXCEPT ![k] = {}]
  /\ record' = IF k \in cancelling THEN record ELSE record \ {k}
  /\ worker' = [worker EXCEPT ![k] = Idle]
  /\ UNCHANGED <<job, at, doomed, closed, dests, copied, app, runs, installed, landed>>

\* What a worker posted as its last act.
Ended(k) ==
  /\ Running /\ worker[k].pc = "posted"
  /\ inFlight' = inFlight \ {k} /\ cancelling' = cancelling \ {k}
  /\ purging' = IF k \in cancelling THEN purging \cup PurgeOnCancel(k) ELSE purging
  /\ aborted' = [aborted EXCEPT ![k] = {}]
  /\ Forgets(k)
  /\ cidsOf' = [cidsOf EXCEPT ![k] = {}]
  /\ record' = record \ {k}
  /\ worker' = [worker EXCEPT ![k] = Idle]
  /\ UNCHANGED <<job, at, doomed, closed, dests, copied, app, runs, installed, landed>>

\* mutant: the workers are joined with the queue open
CloseManagerOnly ==
  /\ Running
  /\ app' = "closing"
  /\ UNCHANGED <<queueVars, runs, cardVars, worker, purging, diskVars>>

\* The destructor: the queue is closed, then every worker joined.
CloseManager ==
  /\ Running
  /\ app' = "closing"
  /\ Close
  /\ UNCHANGED <<dests, copied, runs, cardVars, worker, purging, diskVars>>

Joined ==
  /\ app = "closing" /\ \A k \in Keys : worker[k].pc \in {"idle", "posted"}
  /\ app' = "gone"
  /\ Fresh
  /\ UNCHANGED <<runs, diskVars>>

--------------------------------------------------------------------------------
(* The worker of a download *)

\* The closure gate and the dry run may fail: nothing has moved then.
Check(k) ==
  /\ worker[k].pc = "check"
  /\ Posts(k) \/ Goes(k, "adopt")
  /\ UNCHANGED <<queueVars, app, runs, cardVars, purging, diskVars>>

\* One package at a time, by one thread at a time; another download may have
\* installed it meanwhile.
Adopt(k) ==
  /\ worker[k].pc = "adopt"
  /\ \E p \in Needs[k] \ installed :
       \/ installed' = installed \cup {p} /\ UNCHANGED worker
       \/ Posts(k) /\ UNCHANGED installed
  /\ UNCHANGED <<queueVars, app, runs, cardVars, purging, record, landed>>

\* Whatever the CID, what counts is whether the file is at its own path.
Here(k, c) == PathOf[k][c] \in landed

\* From the index as it is now: the content that is not here yet, and the runner
\* chain's, as one batch.
Collect(k) ==
  /\ worker[k].pc = "adopt" /\ Needs[k] \subseteq installed
  /\ LET missing == {c \in Content[k] \cup Chain[k] : ~Here(k, c)}
     IN \/ Posts(k)
        \/ Becomes(k, [worker[k] EXCEPT !.pc = "ask", !.todo = missing, !.batch = missing])
  /\ UNCHANGED <<queueVars, app, runs, cardVars, purging, diskVars>>

\* A job that is done is fetched again when none of its files is there to place the
\* new one from; otherwise it stays done, and the new one is placed once all are asked.
AskNext(k) ==
  /\ worker[k].pc = "ask"
  /\ \E c \in worker[k].todo :
       LET source == dests[c] \cap landed # {}
           late == ~closed /\ job[c] = "done" /\ ~Here(k, c) /\ source
       IN /\ Ask(c)
          /\ ~closed /\ job[c] = "done" => (job'[c] = "done" <=> Here(k, c) \/ source)
          /\ ~closed /\ job[c] = "none" /\ job'[c] = "done" => Here(k, c)
          /\ dests' = IF closed THEN dests ELSE [dests EXCEPT ![c] = @ \cup {PathOf[k][c]}]
          /\ Becomes(k, [worker[k] EXCEPT !.todo = @ \ {c},
                                          !.late = IF late THEN @ \cup {c} ELSE @])
  /\ UNCHANGED <<copied, app, runs, cardVars, purging, diskVars>>

\* One of the placements a request left for after its lock.
PlaceLate(k) ==
  /\ worker[k].pc = "ask" /\ worker[k].todo = {}
  /\ \E c \in worker[k].late :
       /\ \/ landed' = landed \cup {PathOf[k][c]} /\ UNCHANGED jobVars
          \/ Spoil(c) /\ UNCHANGED landed
       /\ Becomes(k, [worker[k] EXCEPT !.late = @ \ {c}])
  /\ UNCHANGED <<dests, copied, app, runs, cardVars, purging, record, installed>>

\* WaitBatch: at the first required target that failed, or when all are done.
FetchEnds(k) ==
  /\ worker[k].pc = "ask" /\ worker[k].todo = {} /\ worker[k].late = {}
  /\ \/ \E c \in worker[k].batch : job[c] = "failed"
     \/ \A c \in worker[k].batch : job[c] = "done"
  /\ Posts(k)
  /\ UNCHANGED <<queueVars, app, runs, cardVars, purging, diskVars>>

WorkerStep(k) ==
  Check(k) \/ Adopt(k) \/ Collect(k) \/ AskNext(k) \/ PlaceLate(k) \/ FetchEnds(k)

--------------------------------------------------------------------------------
(* The queue, the cache and the process *)

\* A destination asked for from here on is not written by this fetch.
StartFetch(c, w) ==
  /\ Start(c, w)
  /\ copied' = [copied EXCEPT ![w] = dests[c]]
  /\ UNCHANGED <<dests, app, runs, cardVars, worker, purging, diskVars>>

\* A fetch that succeeds has written all its destinations; one that does not, any of
\* them but the last, unless it is failed for a cancel after all went well.
EndFetch(c, w) ==
  /\ Settle(c, w)
  /\ \E ps \in SUBSET copied[w] :
       /\ IF job'[c] = "done" THEN ps = copied[w] ELSE c \in doomed \/ ps # copied[w]
       /\ landed' = landed \cup ps
  /\ copied' = [copied EXCEPT ![w] = {}]
  /\ UNCHANGED <<dests, app, runs, cardVars, worker, purging, record, installed>>

\* DropCached, on a detached thread.
Drop(c) ==
  /\ c \in purging
  /\ purging' = purging \ {c}
  /\ UNCHANGED <<queueVars, app, runs, cardVars, worker, diskVars>>

Crash ==
  /\ app # "gone"
  /\ app' = "gone"
  /\ Fresh
  /\ UNCHANGED <<runs, diskVars>>

\* A new process, its queue opened by the manager's constructor.
Restart ==
  /\ app = "gone" /\ runs < MaxRuns
  /\ app' = "starting" /\ runs' = runs + 1
  /\ UNCHANGED <<queueVars, cardVars, worker, purging, diskVars>>

Init ==
  /\ app = "starting" /\ runs = 1
  /\ NoJobs
  /\ inFlight = {} /\ cancelling = {} /\ purging = {}
  /\ aborted = [k \in Keys |-> {}] /\ cidsOf = [k \in Keys |-> {}]
  /\ needers = [c \in Cids |-> {}]
  /\ worker = [k \in Keys |-> Idle]
  /\ dests = [c \in Cids |-> {}] /\ copied = [w \in Fetches |-> {}]
  /\ record = {} /\ installed = {} /\ landed = {}

Next ==
  \/ \E k \in Keys : /\ app # "gone"
                     /\ StartDownload(k) \/ CancelKey(k) \/ Ended(k) \/ WorkerStep(k)
  \/ \E c \in Cids : app # "gone" /\ Drop(c)
  \/ \E c \in Cids, w \in Fetches : app # "gone" /\ (StartFetch(c, w) \/ EndFetch(c, w))
  \/ ResumeAll \/ CloseManager \/ Joined \/ Crash \/ Restart

Spec == Init /\ [][Next]_vars

\* Threads run, and the queue keeps its promise to a caller once it is closed. A
\* fetch in an open queue owes nothing: nobody may provide its CID.
FairSpec ==
  /\ Spec
  /\ \A k \in Keys : WF_vars(app = "closing" /\ WorkerStep(k))
  /\ \A c \in Cids, w \in Fetches : WF_vars(app = "closing" /\ closed /\ EndFetch(c, w))
  /\ WF_vars(Joined)

--------------------------------------------------------------------------------
(* Correctness *)

Worker == [pc : {"idle", "check", "adopt", "ask", "posted"}, todo : SUBSET Cids,
           late : SUBSET Cids, batch : SUBSET Cids]

\* Type correctness; and only a download in flight has a thread, or is cancelled.
TypeOK ==
  /\ job \in [Cids -> JobStates] /\ at \in [Fetches -> Cids \cup {Nothing}]
  /\ doomed \subseteq Cids /\ flag \subseteq Cids /\ closed \in BOOLEAN
  /\ dests \in [Cids -> SUBSET Paths] /\ copied \in [Fetches -> SUBSET Paths]
  /\ app \in {"starting", "up", "closing", "gone"} /\ runs \in Nat
  /\ inFlight \subseteq Keys /\ cancelling \subseteq inFlight
  /\ aborted \in [Keys -> SUBSET Cids] /\ cidsOf \in [Keys -> SUBSET Cids]
  /\ needers \in [Cids -> SUBSET Keys]
  /\ worker \in [Keys -> Worker]
  /\ purging \subseteq Cids /\ record \subseteq Keys
  /\ installed \subseteq Packages /\ landed \subseteq Paths
  /\ \A k \in Keys : k \in inFlight <=> worker[k].pc # "idle"

\* Progress and cancels go by two maps, filled and emptied as downloads overlap:
\* a CID is needed by exactly the downloads in flight that name it.
MapsAgree ==
  /\ \A c \in Cids : needers[c] = {k \in inFlight : c \in cidsOf[k]}
  /\ \A k \in inFlight : cidsOf[k] = Content[k]

\* "only a genuinely interrupted one is left to resume": across crashes, exits and
\* restarts, what is in flight is on record, and nothing else is once the record
\* has been resumed.
RecordKept ==
  /\ inFlight \subseteq record
  /\ app = "up" => record = inFlight

\* What the manager keeps of a download agrees with the downloads in flight.
KeptTogether == MapsAgree /\ RecordKept

\* "shared with another card: leave it running": whatever cards are cancelled, and
\* in whichever order they began, the content a download waits for is not aborted.
CancelSparesOthers ==
  ~closed => \A k \in inFlight \ cancelling :
     worker[k].pc = "ask" => flag \cap Content[k] \cap (worker[k].batch \ worker[k].todo) = {}

\* "and so is what another card needs now": whatever began or ended since the cancel,
\* no card still in flight has what the end of a cancelled one purges for its content.
PurgeSparesOthers ==
  [][\A c \in purging' \ purging : \A k \in inFlight' : c \notin Content[k]]_vars

\* "quitting with an unprovidable fetch in flight hung the exit on join() for good".
ExitEnds == app = "closing" ~> app = "gone"
================================================================================
