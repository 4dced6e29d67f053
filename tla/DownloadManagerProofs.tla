-------------------------- MODULE DownloadManagerProofs --------------------------
(***************************************************************************)
(* Proofs about DownloadManager, for every set of keys, CIDs, paths and    *)
(* packages and however their contents overlap. The properties together    *)
(* are inductive.                                                          *)
(***************************************************************************)
EXTENDS DownloadManager, TLAPS

IInv == TypeOK /\ MapsAgree /\ RecordKept /\ CancelSparesOthers

LEMMA InitInv == Init => IInv
<1> SUFFICES ASSUME Init PROVE IInv
  OBVIOUS
<1>1. Idle \in Worker /\ Idle.pc = "idle"
  BY DEF Idle, Worker
<1>2. worker \in [Keys -> Worker] /\ \A k \in Keys : worker[k].pc = "idle"
  BY <1>1 DEF Init
<1>3. /\ job \in [Cids -> JobStates] /\ at \in [Fetches -> Cids \cup {Nothing}]
      /\ doomed \subseteq Cids /\ flag \subseteq Cids /\ closed \in BOOLEAN
      /\ dests \in [Cids -> SUBSET Paths] /\ copied \in [Fetches -> SUBSET Paths]
  BY DEF Init, NoJobs, JobStates
<1>4. /\ aborted \in [Keys -> SUBSET Cids] /\ cidsOf \in [Keys -> SUBSET Cids]
      /\ needers \in [Cids -> SUBSET Keys]
  BY DEF Init
<1>5. TypeOK
  BY <1>2, <1>3, <1>4 DEF Init, TypeOK
<1>6. MapsAgree /\ RecordKept /\ CancelSparesOthers
  BY DEF Init, MapsAgree, RecordKept, CancelSparesOthers
<1>q. QED
  BY <1>5, <1>6 DEF IInv

LEMMA BegunKeeps ==
  ASSUME IInv, NEW ks \in SUBSET Keys, Begun(ks),
         UNCHANGED <<queueVars, runs, cancelling, aborted, purging, installed, landed>>,
         \/ Running /\ app' = app
         \/ app = "starting" /\ app' = "up" /\ ks = record
  PROVE  IInv'
<1> DEFINE fresh == ks \ inFlight
           started == [Idle EXCEPT !.pc = "check"]
<1>1. started \in Worker /\ started.pc = "check" /\ started.todo = {} /\ started.batch = {}
  BY DEF Idle, Worker
<1>2. \A k \in Keys : worker'[k] = IF k \in fresh THEN started ELSE worker[k]
  BY DEF Begun
<1>3. worker' \in [Keys -> Worker]
  BY <1>1 DEF Begun, IInv, TypeOK
<1>4. \A k \in Keys : k \in inFlight' <=> worker'[k].pc # "idle"
  BY <1>1, <1>2 DEF Begun, IInv, TypeOK
<1>5. /\ cidsOf' \in [Keys -> SUBSET Cids] /\ needers' \in [Cids -> SUBSET Keys]
      /\ inFlight' \subseteq Keys /\ record' \subseteq Keys /\ cancelling' \subseteq inFlight'
  BY ManagerAssumption DEF ManagerAssumption, Begun, IInv, TypeOK
<1>6. TypeOK'
  BY <1>3, <1>4, <1>5 DEF IInv, TypeOK, queueVars, jobVars, Running
<1>7. MapsAgree'
  <2>1. \A k \in inFlight' : cidsOf'[k] = Content[k]
    BY DEF IInv, TypeOK, MapsAgree, Begun
  <2>2. ASSUME NEW c \in Cids
        PROVE  needers'[c] = {k \in inFlight' : c \in cidsOf'[k]}
    BY DEF IInv, TypeOK, MapsAgree, Begun
  <2>q. QED
    BY <2>1, <2>2 DEF MapsAgree
<1>8. RecordKept'
  BY DEF IInv, TypeOK, RecordKept, Begun, Running
<1>9. CancelSparesOthers'
  BY <1>1, <1>2 DEF IInv, TypeOK, CancelSparesOthers, Begun, queueVars, jobVars
<1>q. QED
  BY <1>6, <1>7, <1>8, <1>9 DEF IInv

LEMMA CancelKeeps ==
  ASSUME IInv, NEW k \in Keys, CancelKey(k)
  PROVE  IInv'
<1>1. TypeOK'
  BY DEF IInv, TypeOK, CancelKey, CancellableCids, diskVars
<1>2. MapsAgree' /\ RecordKept'
  BY DEF IInv, MapsAgree, RecordKept, CancelKey, diskVars
<1>3. ASSUME NEW o \in inFlight \ cancelling', NEW c \in Content[o]
      PROVE  c \notin CancellableCids(k)
  <2>1. o # k /\ o \in inFlight /\ o \in Keys
    BY <1>3 DEF CancelKey, IInv, TypeOK
  <2>2. CASE c \in Cids
    BY <2>1, <2>2 DEF IInv, MapsAgree, CancellableCids
  <2>3. CASE c \notin Cids
    BY <2>3 DEF IInv, TypeOK, CancellableCids
  <2>q. QED
    BY <2>2, <2>3
<1>4. CancelSparesOthers'
  BY <1>3 DEF IInv, TypeOK, CancelSparesOthers, CancelKey
<1>q. QED
  BY <1>1, <1>2, <1>4 DEF IInv

LEMMA EndedKeeps ==
  ASSUME IInv, NEW k \in Keys, Ended(k)
  PROVE  IInv'
<1>1. Idle \in Worker /\ Idle.pc = "idle"
  BY DEF Idle, Worker
<1>2. worker' \in [Keys -> Worker]
  BY <1>1 DEF IInv, TypeOK, Ended
<1>3. \A o \in Keys : o \in inFlight' <=> worker'[o].pc # "idle"
  BY <1>1 DEF IInv, TypeOK, Ended
<1>4. /\ cidsOf' \in [Keys -> SUBSET Cids] /\ needers' \in [Cids -> SUBSET Keys]
      /\ aborted' \in [Keys -> SUBSET Cids] /\ flag' \subseteq Cids
  BY DEF IInv, TypeOK, Ended, Forgets
<1>5. purging' \subseteq Cids
  BY DEF IInv, TypeOK, Ended, PurgeOnCancel
<1>6. TypeOK'
  BY <1>2, <1>3, <1>4, <1>5 DEF IInv, TypeOK, Ended
<1>7. MapsAgree'
  <2>1. \A o \in inFlight' : cidsOf'[o] = Content[o]
    BY DEF IInv, TypeOK, MapsAgree, Ended
  <2>2. ASSUME NEW c \in Cids
        PROVE  needers'[c] = {o \in inFlight' : c \in cidsOf'[o]}
    BY DEF IInv, TypeOK, MapsAgree, Ended, Forgets
  <2>q. QED
    BY <2>1, <2>2 DEF MapsAgree
<1>8. RecordKept'
  BY DEF IInv, TypeOK, RecordKept, Ended
<1>9. CancelSparesOthers'
  BY <1>1 DEF IInv, TypeOK, CancelSparesOthers, Ended, Forgets
<1>q. QED
  BY <1>6, <1>7, <1>8, <1>9 DEF IInv

LEMMA CloseKeeps ==
  ASSUME IInv, CloseManager
  PROVE  IInv'
<1>1. /\ job' \in [Cids -> JobStates] /\ at' = at /\ doomed' \subseteq Cids
      /\ flag' \subseteq Cids /\ closed'
  BY DEF IInv, TypeOK, CloseManager, Close, Active, JobStates
<1>2. TypeOK'
  BY <1>1 DEF IInv, TypeOK, CloseManager, cardVars, diskVars
<1>q. QED
  BY <1>1, <1>2 DEF IInv, MapsAgree, RecordKept, CancelSparesOthers, CloseManager, cardVars, diskVars

\* A step of a worker leaves what the cards know alone.
LEMMA WorkerStepKeeps ==
  ASSUME IInv, NEW k \in Keys, worker[k].pc # "idle",
         NEW v \in Worker, v.pc # "idle",
         worker' = [worker EXCEPT ![k] = v],
         v.pc = "ask" => \/ v.batch \ v.todo = {}
                         \/ closed'
                         \/ worker[k].pc = "ask" /\ v.batch = worker[k].batch
                            /\ (v.batch \ v.todo) \cap flag' = (v.batch \ worker[k].todo) \cap flag',
         job' \in [Cids -> JobStates], flag' \subseteq flag,
         dests' \in [Cids -> SUBSET Paths],
         installed' \subseteq Packages, landed' \subseteq Paths,
         UNCHANGED <<at, doomed, closed, copied, app, runs, cardVars, purging, record>>
  PROVE  IInv'
<1>1. worker' \in [Keys -> Worker] /\ \A o \in Keys : o \in inFlight' <=> worker'[o].pc # "idle"
  BY DEF IInv, TypeOK, cardVars
<1>2. TypeOK'
  BY <1>1 DEF IInv, TypeOK, cardVars
<1>3. MapsAgree' /\ RecordKept'
  BY DEF IInv, MapsAgree, RecordKept, cardVars
<1>4. ASSUME ~closed, NEW o \in inFlight \ cancelling, worker'[o].pc = "ask"
      PROVE  flag' \cap Content[o] \cap (worker'[o].batch \ worker'[o].todo) = {}
  <2>1. o \in Keys
    BY <1>4 DEF IInv, TypeOK
  <2>2. CASE o # k
    BY <1>4, <2>1, <2>2 DEF IInv, TypeOK, CancelSparesOthers
  <2>3. CASE o = k
    BY <1>4, <2>1, <2>3 DEF IInv, TypeOK, CancelSparesOthers
  <2>q. QED
    BY <2>2, <2>3
<1>5. CancelSparesOthers'
  BY <1>4 DEF CancelSparesOthers, cardVars
<1>q. QED
  BY <1>2, <1>3, <1>5 DEF IInv

\* A step of a worker that leaves the queue alone: it goes on, or ends.
LEMMA WorkerOnlyKeeps ==
  ASSUME IInv, NEW k \in Keys, worker[k].pc # "idle",
         NEW v \in Worker, v.pc # "idle", v.pc = "ask" => v.batch \ v.todo = {},
         worker' = [worker EXCEPT ![k] = v],
         installed' \subseteq Packages,
         UNCHANGED <<queueVars, app, runs, cardVars, purging, record, landed>>
  PROVE  IInv'
<1>1. /\ job' \in [Cids -> JobStates] /\ flag' \subseteq flag
      /\ dests' \in [Cids -> SUBSET Paths] /\ landed' \subseteq Paths
      /\ UNCHANGED <<at, doomed, closed, copied>>
  BY DEF IInv, TypeOK, queueVars, jobVars
<1>q. QED
  BY <1>1, WorkerStepKeeps

\* What a request does to the queue.
LEMMA AskKeeps ==
  ASSUME TypeOK, NEW c \in Cids, Ask(c)
  PROVE  /\ job' \in [Cids -> JobStates] /\ flag' \subseteq flag
         /\ UNCHANGED <<at, doomed, closed>>
         /\ ~closed => c \notin flag'
BY DEF TypeOK, Ask, Asked, JobStates

LEMMA PostsKeeps ==
  ASSUME IInv, NEW k \in Keys, worker[k].pc # "idle", Posts(k),
         UNCHANGED <<queueVars, app, runs, cardVars, purging, diskVars>>
  PROVE  IInv'
<1> DEFINE v == [Idle EXCEPT !.pc = "posted"]
<1>1. v \in Worker /\ v.pc = "posted"
  BY DEF Idle, Worker
<1>2. worker' = [worker EXCEPT ![k] = v]
  BY DEF Posts, Becomes
<1>3. installed' \subseteq Packages
  BY DEF IInv, TypeOK, diskVars
<1> HIDE DEF v
<1>q. QED
  BY <1>1, <1>2, <1>3, WorkerOnlyKeeps DEF diskVars

LEMMA GoesKeeps ==
  ASSUME IInv, NEW k \in Keys, worker[k].pc # "idle", Goes(k, "adopt"),
         UNCHANGED <<queueVars, app, runs, cardVars, purging, diskVars>>
  PROVE  IInv'
<1> DEFINE v == [worker[k] EXCEPT !.pc = "adopt"]
<1>1. worker[k] \in Worker
  BY DEF IInv, TypeOK
<1>2. v \in Worker /\ v.pc = "adopt"
  BY <1>1 DEF Worker
<1>3. worker' = [worker EXCEPT ![k] = v]
  BY DEF Goes, Becomes
<1>4. installed' \subseteq Packages
  BY DEF IInv, TypeOK, diskVars
<1> HIDE DEF v
<1>q. QED
  BY <1>2, <1>3, <1>4, WorkerOnlyKeeps DEF diskVars

LEMMA CheckKeeps ==
  ASSUME IInv, NEW k \in Keys, Check(k)
  PROVE  IInv'
BY PostsKeeps, GoesKeeps DEF Check

LEMMA AdoptKeeps ==
  ASSUME IInv, NEW k \in Keys, Adopt(k)
  PROVE  IInv'
<1>1. PICK p \in Needs[k] \ installed :
         \/ installed' = installed \cup {p} /\ UNCHANGED worker
         \/ Posts(k) /\ UNCHANGED installed
  BY DEF Adopt
<1>2. CASE installed' = installed \cup {p} /\ UNCHANGED worker
  <2>1. p \in Packages
    BY ManagerAssumption, <1>1 DEF ManagerAssumption
  <2>q. QED
    BY <1>2, <2>1 DEF Adopt, IInv, TypeOK, MapsAgree, RecordKept, CancelSparesOthers,
       queueVars, jobVars, cardVars
<1>3. CASE Posts(k) /\ UNCHANGED installed
  BY <1>3, PostsKeeps DEF Adopt, diskVars
<1>q. QED
  BY <1>1, <1>2, <1>3

LEMMA CollectKeeps ==
  ASSUME IInv, NEW k \in Keys, Collect(k)
  PROVE  IInv'
<1> DEFINE missing == {c \in Content[k] \cup Chain[k] : ~Here(k, c)}
           v == [worker[k] EXCEPT !.pc = "ask", !.todo = missing, !.batch = missing]
<1>1. worker[k] \in Worker /\ missing \in SUBSET Cids
  BY ManagerAssumption DEF ManagerAssumption, IInv, TypeOK
<1> HIDE DEF missing
<1>2. v \in Worker /\ v.pc = "ask" /\ v.todo = missing /\ v.batch = missing
  BY <1>1 DEF Worker
<1>3. CASE Posts(k)
  BY <1>3, PostsKeeps DEF Collect
<1>4. CASE Becomes(k, v)
  <2>1. worker' = [worker EXCEPT ![k] = v]
    BY <1>4 DEF Becomes
  <2>2. v.batch \ v.todo = {}
    BY <1>2
  <2>3. installed' \subseteq Packages
    BY DEF Collect, IInv, TypeOK, diskVars
  <2> HIDE DEF v
  <2>q. QED
    BY <1>2, <2>1, <2>2, <2>3, WorkerOnlyKeeps DEF Collect, diskVars
<1>q. QED
  BY <1>3, <1>4 DEF Collect, missing

LEMMA AskNextKeeps ==
  ASSUME IInv, NEW k \in Keys, AskNext(k)
  PROVE  IInv'
<1>1. PICK c \in worker[k].todo :
         /\ Ask(c)
         /\ dests' = IF closed THEN dests ELSE [dests EXCEPT ![c] = @ \cup {PathOf[k][c]}]
         /\ \E ls \in SUBSET (worker[k].late \cup {c}) :
              Becomes(k, [worker[k] EXCEPT !.todo = worker[k].todo \ {c}, !.late = ls])
  BY DEF AskNext
<1>2. PICK ls \in SUBSET (worker[k].late \cup {c}) :
         Becomes(k, [worker[k] EXCEPT !.todo = worker[k].todo \ {c}, !.late = ls])
  BY <1>1
<1> DEFINE v == [worker[k] EXCEPT !.todo = worker[k].todo \ {c}, !.late = ls]
<1>3. worker[k] \in Worker /\ c \in Cids /\ worker[k].todo \ {c} \in SUBSET Cids /\ ls \in SUBSET Cids
  BY <1>1, <1>2 DEF IInv, TypeOK, Worker
<1>4. v \in Worker /\ v.pc = "ask" /\ v.todo = worker[k].todo \ {c} /\ v.batch = worker[k].batch
  BY <1>3 DEF AskNext, Worker
<1>5. worker' = [worker EXCEPT ![k] = v]
  BY <1>2 DEF Becomes
<1>6. /\ job' \in [Cids -> JobStates] /\ flag' \subseteq flag
      /\ UNCHANGED <<at, doomed, closed>>
      /\ ~closed => c \notin flag'
  BY <1>1, <1>3, AskKeeps DEF IInv
<1>7. dests' \in [Cids -> SUBSET Paths]
  BY <1>1, <1>3, ManagerAssumption DEF ManagerAssumption, IInv, TypeOK
<1> HIDE DEF v
<1>8. closed' \/ (v.batch \ v.todo) \cap flag' = (v.batch \ worker[k].todo) \cap flag'
  BY <1>4, <1>6
<1>9. installed' \subseteq Packages /\ landed' \subseteq Paths
  BY DEF AskNext, IInv, TypeOK, diskVars
<1>q. QED
  BY <1>4, <1>5, <1>6, <1>7, <1>8, <1>9, WorkerStepKeeps DEF AskNext, diskVars

LEMMA PlaceLateKeeps ==
  ASSUME IInv, NEW k \in Keys, PlaceLate(k)
  PROVE  IInv'
<1>1. PICK c \in worker[k].late :
         /\ \/ landed' = landed \cup {PathOf[k][c]} /\ UNCHANGED jobVars
            \/ Spoil(c) /\ UNCHANGED landed
         /\ Becomes(k, [worker[k] EXCEPT !.late = worker[k].late \ {c}])
  BY DEF PlaceLate
<1> DEFINE v == [worker[k] EXCEPT !.late = worker[k].late \ {c}]
<1>2. worker[k] \in Worker /\ c \in Cids /\ worker[k].late \ {c} \in SUBSET Cids
  BY <1>1 DEF IInv, TypeOK, Worker
<1>3. v \in Worker /\ v.pc = "ask" /\ v.todo = worker[k].todo /\ v.batch = worker[k].batch
  BY <1>2 DEF PlaceLate, Worker
<1>4. worker' = [worker EXCEPT ![k] = v]
  BY <1>1 DEF Becomes
<1>5. /\ job' \in [Cids -> JobStates] /\ landed' \subseteq Paths
      /\ UNCHANGED <<at, doomed, flag, closed>>
  <2>1. PathOf[k][c] \in Paths
    BY <1>2, ManagerAssumption DEF ManagerAssumption
  <2>2. CASE landed' = landed \cup {PathOf[k][c]} /\ UNCHANGED jobVars
    BY <2>1, <2>2 DEF IInv, TypeOK, jobVars
  <2>3. CASE Spoil(c) /\ UNCHANGED landed
    BY <2>3 DEF IInv, TypeOK, Spoil, JobStates
  <2>q. QED
    BY <1>1, <2>2, <2>3
<1>6. dests' \in [Cids -> SUBSET Paths] /\ installed' \subseteq Packages
  BY DEF PlaceLate, IInv, TypeOK
<1> HIDE DEF v
<1>q. QED
  BY <1>3, <1>4, <1>5, <1>6, WorkerStepKeeps DEF PlaceLate

LEMMA FetchEndsKeeps ==
  ASSUME IInv, NEW k \in Keys, FetchEnds(k)
  PROVE  IInv'
BY PostsKeeps DEF FetchEnds

\* A step of the queue or the cache raises no flag.
LEMMA QueueStepKeeps ==
  ASSUME IInv, job' \in [Cids -> JobStates], at' \in [Fetches -> Cids \cup {Nothing}],
         doomed' \subseteq Cids, flag' \subseteq flag,
         copied' \in [Fetches -> SUBSET Paths], landed' \subseteq Paths,
         UNCHANGED <<closed, dests, app, runs, cardVars, worker, record, installed>>,
         purging' \subseteq purging
  PROVE  IInv'
BY DEF IInv, TypeOK, MapsAgree, RecordKept, CancelSparesOthers, cardVars

LEMMA StartFetchKeeps ==
  ASSUME IInv, NEW c \in Cids, NEW w \in Fetches, StartFetch(c, w)
  PROVE  IInv'
<1>1. /\ job' \in [Cids -> JobStates] /\ at' \in [Fetches -> Cids \cup {Nothing}]
      /\ doomed' \subseteq Cids /\ flag' = flag
      /\ copied' \in [Fetches -> SUBSET Paths] /\ landed' \subseteq Paths
  BY DEF StartFetch, Start, IInv, TypeOK, JobStates, diskVars
<1>q. QED
  BY <1>1, QueueStepKeeps DEF StartFetch, Start, diskVars

LEMMA EndFetchKeeps ==
  ASSUME IInv, NEW c \in Cids, NEW w \in Fetches, EndFetch(c, w)
  PROVE  IInv'
<1>1. /\ job' \in [Cids -> JobStates] /\ at' \in [Fetches -> Cids \cup {Nothing}]
      /\ doomed' \subseteq Cids /\ flag' \subseteq flag /\ closed' = closed
  BY DEF EndFetch, Settle, IInv, TypeOK, JobStates
<1>2. copied' \in [Fetches -> SUBSET Paths] /\ landed' \subseteq Paths
  BY DEF EndFetch, IInv, TypeOK
<1>q. QED
  BY <1>1, <1>2, QueueStepKeeps DEF EndFetch

\* The process is gone: nothing is in flight.
LEMMA FreshKeeps ==
  ASSUME IInv, Fresh, app' = "gone", UNCHANGED <<runs, diskVars>>
  PROVE  IInv'
<1>1. Idle \in Worker /\ Idle.pc = "idle"
  BY DEF Idle, Worker
<1>2. worker' \in [Keys -> Worker] /\ \A k \in Keys : worker'[k].pc = "idle"
  BY <1>1 DEF Fresh
<1>3. /\ job' \in [Cids -> JobStates] /\ at' \in [Fetches -> Cids \cup {Nothing}]
      /\ dests' \in [Cids -> SUBSET Paths] /\ copied' \in [Fetches -> SUBSET Paths]
  BY DEF Fresh, JobStates
<1>4. /\ aborted' \in [Keys -> SUBSET Cids] /\ cidsOf' \in [Keys -> SUBSET Cids]
      /\ needers' \in [Cids -> SUBSET Keys]
  BY DEF Fresh
<1>5. TypeOK'
  <2>1. /\ runs' \in Nat /\ inFlight' = {} /\ cancelling' = {} /\ doomed' = {} /\ flag' = {}
        /\ closed' = FALSE /\ purging' = {}
        /\ record' \subseteq Keys /\ installed' \subseteq Packages /\ landed' \subseteq Paths
    BY DEF IInv, TypeOK, Fresh, diskVars
  <2>q. QED
    BY <1>2, <1>3, <1>4, <2>1 DEF TypeOK
<1>q. QED
  BY <1>5 DEF IInv, Fresh, MapsAgree, RecordKept, CancelSparesOthers

LEMMA RestartKeeps ==
  ASSUME IInv, Restart
  PROVE  IInv'
<1>1. TypeOK'
  BY DEF IInv, TypeOK, Restart, queueVars, jobVars, cardVars, diskVars
<1>q. QED
  BY <1>1 DEF IInv, Restart, MapsAgree, RecordKept, CancelSparesOthers, queueVars, jobVars,
     cardVars, diskVars

LEMMA NextKeeps == IInv /\ [Next]_vars => IInv'
<1> SUFFICES ASSUME IInv, [Next]_vars PROVE IInv'
  OBVIOUS
<1>1. ASSUME NEW k \in Keys, StartDownload(k) PROVE IInv'
  <2>1. {k} \in SUBSET Keys
    OBVIOUS
  <2>q. QED
    BY <1>1, <2>1, BegunKeeps DEF StartDownload
<1>2. CASE ResumeAll
  <2>1. record \in SUBSET Keys
    BY DEF IInv, TypeOK
  <2>q. QED
    BY <1>2, <2>1, BegunKeeps DEF ResumeAll
<1>3. ASSUME NEW k \in Keys, WorkerStep(k) PROVE IInv'
  BY <1>3, CheckKeeps, AdoptKeeps, CollectKeeps, AskNextKeeps, PlaceLateKeeps, FetchEndsKeeps
     DEF WorkerStep
<1>4. ASSUME NEW c \in Cids, Drop(c) PROVE IInv'
  <2>1. /\ job' \in [Cids -> JobStates] /\ at' \in [Fetches -> Cids \cup {Nothing}]
        /\ doomed' \subseteq Cids /\ copied' \in [Fetches -> SUBSET Paths] /\ landed' \subseteq Paths
    BY <1>4 DEF Drop, IInv, TypeOK, queueVars, jobVars, diskVars
  <2>q. QED
    BY <1>4, <2>1, QueueStepKeeps DEF Drop, queueVars, jobVars, diskVars
<1>5. CASE Joined \/ Crash
  BY <1>5, FreshKeeps DEF Joined, Crash
<1>6. CASE UNCHANGED vars
  BY <1>6 DEF vars, IInv, TypeOK, MapsAgree, RecordKept, CancelSparesOthers,
     queueVars, jobVars, cardVars, diskVars
<1>q. QED
  BY <1>1, <1>2, <1>3, <1>4, <1>5, <1>6, CancelKeeps, EndedKeeps, CloseKeeps,
     StartFetchKeeps, EndFetchKeeps, RestartKeeps DEF Next

\* The core fact: the invariant holds in every state of every behaviour.
THEOREM Invariance == Spec => []IInv
  BY InitInv, NextKeeps, PTL DEF Spec

\* The thread, the card and what is kept about it are of one mind (downloadmanager.cpp).
THEOREM TypeCorrect == Spec => []TypeOK
<1>1. IInv => TypeOK
  BY DEF IInv
<1>q. QED
  BY <1>1, Invariance, PTL

\* The two maps by which overlapping downloads are cancelled agree, and what is in
\* flight is on record across crashes, exits and restarts, whatever overlaps.
THEOREM KeptCorrect == Spec => []KeptTogether
<1>1. IInv => KeptTogether
  BY DEF IInv, KeptTogether
<1>q. QED
  BY <1>1, Invariance, PTL

\* Cancelling cards never aborts what another card's download waits for.
THEOREM CancelCorrect == Spec => []CancelSparesOthers
<1>1. IInv => CancelSparesOthers
  BY DEF IInv
<1>q. QED
  BY <1>1, Invariance, PTL

\* What a step purges, no card that is in flight after it has among its content.
LEMMA PurgeStep ==
  IInv /\ [Next]_vars =>
    [\A c \in purging' \ purging : \A k \in inFlight' : c \notin Content[k]]_vars
<1> SUFFICES ASSUME IInv, Next, NEW c \in purging' \ purging, NEW o \in inFlight'
             PROVE  c \notin Content[o]
  BY DEF vars
<1>1. ASSUME NEW k \in Keys, Ended(k)
      PROVE  c \notin Content[o]
  <2>1. c \in PurgeOnCancel(k) /\ c \in Cids
    BY <1>1 DEF Ended, PurgeOnCancel, IInv, TypeOK
  <2>2. needers[c] \subseteq {k} /\ o \in inFlight /\ o # k
    BY <1>1, <2>1 DEF Ended, PurgeOnCancel
  <2>q. QED
    BY <2>1, <2>2 DEF IInv, MapsAgree
<1>2. \/ purging' \subseteq purging
      \/ \E k \in Keys : Ended(k)
  BY DEF Next, StartDownload, ResumeAll, CancelKey, WorkerStep, Check, Adopt, Collect, AskNext,
     PlaceLate, FetchEnds, StartFetch, EndFetch, Drop, CloseManager, Joined, Crash, Restart, Fresh
<1>q. QED
  BY <1>1, <1>2

\* The end of a cancelled download purges nothing that a card still in flight has among
\* its content, whichever downloads began and ended since the cancel.
THEOREM PurgeCorrect == Spec => PurgeSparesOthers
  BY Invariance, PurgeStep, PTL DEF Spec, PurgeSparesOthers
================================================================================
