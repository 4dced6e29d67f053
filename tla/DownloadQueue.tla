----------------------------- MODULE DownloadQueue -----------------------------
(***************************************************************************)
(* The CID-addressed download queue (src/src/downloadqueue.cpp): callers   *)
(* enqueue batches and wait for them, one dispatcher thread hands ready    *)
(* jobs to detached workers bounded by the download slots, and the user    *)
(* cancels, prioritizes, moves and drops folders, and closes the queue.    *)
(*                                                                         *)
(* One action is one critical section of Q().Mu, or one step outside it.   *)
(* EnqueueBatch holds Mu from its first target to its last while other     *)
(* threads change the disk it reads, so "mu" names the caller inside it.   *)
(***************************************************************************)
EXTENDS DestFiles, Naturals

CONSTANTS Callers,     \* threads that enqueue a batch and wait for it
          Slots,       \* download slots: at most one worker each
          Folders,     \* the folders destinations lie in
          FolderOf,    \* the folder of each path
          MovedTo,     \* MovedTo[f][p]: where path p is when its folder is moved to f
          Batches,     \* the batches a caller may enqueue
          MaxBatches,  \* bound: EnqueueBatch calls in a behaviour
          MaxBumps,    \* bound: priority bumps in a behaviour
          StartFiles,  \* bound: what the paths may hold when the program starts
          Calls,       \* the control calls made: <<name, argument>>
          NoPath, NoOne

Target == [cid : Cids, path : Paths, optional : BOOLEAN, dir : BOOLEAN, verify : BOOLEAN]

ASSUME QueueAssumption ==
  /\ NoFile \notin Cids /\ Torn \notin Cids /\ NoFile # Torn
  /\ NoPath \notin Paths /\ NoOne \notin Callers /\ IsFiniteSet(Slots)
  /\ FolderOf \in [Paths -> Folders]
  /\ MovedTo \in [Folders -> [Paths -> Paths]]
  /\ Batches \subseteq [targets : SUBSET Target, bounded : BOOLEAN, bump : BOOLEAN]
  /\ \A b \in Batches : b.bump => b.targets # {}
  /\ MaxBatches \in Nat /\ MaxBumps \in Nat
  /\ StartFiles \subseteq Contents

VARIABLES
  jobs,          \* Q().Jobs, "none" where the map has no entry
  before,        \* the order of Seq: <<a, b>> when a's is smaller
  topPriority, preempting, userCancelled, closed,
  moved,         \* Q().Moved, the identity where no move is registered
  cancelFlag,    \* the node's per-CID cancel flags (RequestCancel, ClearCancel)
  limit,         \* MaxConcurrentDownloads
  mu,            \* the caller holding Mu across its targets, or NoOne
  call,          \* each caller's EnqueueBatch + WaitBatch
  issued,        \* EnqueueBatch calls so far
  dispatcher,    \* the dispatcher thread
  work,          \* each slot's worker
  asleep,        \* callers asleep on Q().Cv
  disk, part     \* the files, and the paths with a "<dest>.part" beside them

queueVars == <<jobs, before, topPriority, preempting, userCancelled, closed, moved>>
nodeVars  == <<cancelFlag, limit>>
vars == <<queueVars, nodeVars, mu, call, issued, dispatcher, work, asleep, disk, part>>

States == {"none", "queued", "active", "done", "failed"}

Job == [state : States, dests : SUBSET Paths, optional : BOOLEAN, dir : BOOLEAN,
        verify : BOOLEAN, priority : 0..MaxBumps,
        tried : BOOLEAN,              \* Attempts # 0
        ready : BOOLEAN,              \* ReadyAt has come
        forgotten : SUBSET Paths]

NoJob == [state |-> "none", dests |-> {}, optional |-> TRUE, dir |-> FALSE, verify |-> FALSE,
          priority |-> 0, tried |-> FALSE, ready |-> TRUE, forgotten |-> {}]

Item == [cid : Cids, optional : BOOLEAN]
Late == [cid : Cids, src : Paths, dest : Paths, dir : BOOLEAN]

Call == [pc : {"idle", "targets", "late", "notify", "bump", "wait", "ok", "failed", "timeout"},
         todo : SUBSET Target, asked : SUBSET Target, items : SUBSET Item,
         late : SUBSET Late, wake : BOOLEAN, bounded : BOOLEAN, bump : BOOLEAN]

NoCall == [pc |-> "idle", todo |-> {}, asked |-> {}, items |-> {}, late |-> {},
           wake |-> FALSE, bounded |-> FALSE, bump |-> FALSE]

Worker == [pc : {"free", "start", "fetch", "place", "notify"}, cid : Cids \cup {NoOne},
           dests : SUBSET Paths, dir : BOOLEAN, verify : BOOLEAN,
           primary : Paths \cup {NoPath}, rc : 0..2, todo : SUBSET Paths, bad : BOOLEAN]

NoWork == [pc |-> "free", cid |-> NoOne, dests |-> {}, dir |-> FALSE, verify |-> FALSE,
           primary |-> NoPath, rc |-> 0, todo |-> {}, bad |-> FALSE]

Dispatcher == [pc : {"check", "asleep", "acquire", "pick"}, alarm : SUBSET Cids]

\* A worker between its dispatch and the end of RunJob's critical section.
Running(w) == work[w].pc \in {"start", "fetch", "place"}
Runs(w, c) == Running(w) /\ work[w].cid = c

MuFree == mu = NoOne

--------------------------------------------------------------------------------
(* Helpers of the queue *)

Ready(c) == jobs[c].state = "queued" /\ jobs[c].ready

\* mutant: no first-in tiebreak
PickReadyNoOrder(c) ==
  Ready(c) /\ \A b \in Cids : Ready(b) => jobs[b].priority <= jobs[c].priority

\* PickReady: highest priority, first in within a priority.
PickReady(c) ==
  /\ Ready(c)
  /\ \A b \in Cids \ {c} : Ready(b) =>
       \/ jobs[b].priority < jobs[c].priority
       \/ jobs[b].priority = jobs[c].priority /\ <<b, c>> \notin before

\* J.Seq = ++Q().Seq
ToBack(order, c) ==
  {ab \in order : ab[1] # c /\ ab[2] # c} \cup {<<b, c>> : b \in Cids \ {c}}

\* mutant: notify_one
NotifyOne ==
  \/ \E k \in asleep : asleep' = asleep \ {k} /\ UNCHANGED dispatcher
  \/ dispatcher.pc = "asleep" /\ dispatcher' = [pc |-> "check", alarm |-> {}] /\ UNCHANGED asleep
  \/ asleep = {} /\ dispatcher.pc # "asleep" /\ UNCHANGED <<asleep, dispatcher>>

\* Cv.notify_all: every sleeper runs its predicate again.
NotifyAll ==
  /\ asleep' = {}
  /\ dispatcher' = IF dispatcher.pc = "asleep" THEN [pc |-> "check", alarm |-> {}] ELSE dispatcher

Asleep == UNCHANGED <<asleep, dispatcher>>

\* RedirectedLocked: where a path is now.
Redirected(p) ==
  IF moved[FolderOf[p]] = FolderOf[p] THEN p ELSE MovedTo[moved[FolderOf[p]]][p]

\* mutant: the old owner keeps the path
ClaimNothing(js, c, p) == js

\* ClaimDest: the path leaves every other job.
ClaimDest(js, c, p) ==
  [b \in Cids |-> IF b = c THEN js[b] ELSE [js[b] EXCEPT !.dests = @ \ {p}]]

Requeued(j, p) == [j EXCEPT !.state = "queued", !.dests = @ \cup {p}]

--------------------------------------------------------------------------------
(* EnqueueBatch *)

EnqueueBegin(k, b) ==
  /\ MuFree /\ call[k].pc = "idle" /\ issued < MaxBatches
  /\ mu' = k
  /\ issued' = issued + 1
  /\ call' = [call EXCEPT ![k] = [NoCall EXCEPT !.pc = "targets", !.todo = b.targets,
                                     !.bounded = b.bounded, !.bump = b.bump]]
  /\ UNCHANGED <<queueVars, nodeVars, dispatcher, work, asleep, disk, part>>

\* What a target does to an entry j of its CID that exists already: the new
\* entry, whether it was queued afresh, and from where to place it later.
Join(j, p, t) ==
  LET m == [j EXCEPT !.optional = @ /\ t.optional, !.verify = @ \/ t.verify]
      add == [m EXCEPT !.dests = @ \cup {p}]
      here == {d \in m.dests : Exists(disk, d)}
      as(entry, fresh, from) == [job |-> entry, fresh |-> fresh, from |-> from]
  IN CASE j.state \in {"queued", "active"} -> {as(add, FALSE, NoPath)}
       [] j.state = "done" ->
            IF Exists(disk, p) /\ p \in m.dests THEN {as(m, FALSE, NoPath)}
            ELSE IF ~t.verify /\ Exists(disk, p) THEN {as(add, FALSE, NoPath)}
            ELSE IF here # {} THEN {as(add, FALSE, d) : d \in here}
            ELSE {as(Requeued(m, p), TRUE, NoPath)}
       [] j.state = "failed" ->
            {as([Requeued(m, p) EXCEPT !.priority = 0, !.tried = FALSE, !.ready = TRUE], TRUE, NoPath)}

\* The node's HasLocal answer is either one.
FirstEntry(p, t) ==
  LET new(s) == [NoJob EXCEPT !.state = s, !.dests = {p}, !.optional = t.optional,
                              !.dir = t.dir, !.verify = t.verify]
  IN {[job |-> new("queued"), fresh |-> TRUE, from |-> NoPath]} \cup
     (IF ~t.verify /\ Exists(disk, p)
      THEN {[job |-> new("done"), fresh |-> FALSE, from |-> NoPath]} ELSE {})

EnqueueTarget(k) ==
  /\ mu = k /\ call[k].pc = "targets"
  /\ \E t \in call[k].todo :
       LET c == t.cid
           p == IF t.dir THEN t.path ELSE Redirected(t.path)
           seen == [call[k] EXCEPT !.todo = @ \ {t}, !.asked = @ \cup {[t EXCEPT !.path = p]},
                                   !.items = @ \cup {[cid |-> c, optional |-> t.optional]}]
       IN \/ /\ closed
             /\ jobs' = [jobs EXCEPT ![c].state = IF @ = "done" THEN @ ELSE "failed"]
             /\ call' = [call EXCEPT ![k] = seen]
             /\ UNCHANGED <<before, cancelFlag>>
          \/ /\ ~closed
             /\ cancelFlag' = cancelFlag \ {c}
             /\ \E e \in (IF jobs[c].state = "none" THEN FirstEntry(p, t)
                                                     ELSE Join(jobs[c], p, t)) :
                  /\ jobs' = [ClaimDest(jobs, c, p) EXCEPT ![c] = e.job]
                  /\ before' = IF e.fresh THEN ToBack(before, c) ELSE before
                  /\ call' = [call EXCEPT ![k] =
                       [seen EXCEPT !.wake = @ \/ e.fresh,
                                    !.late = IF e.from = NoPath THEN @
                                             ELSE @ \cup {[cid |-> c, src |-> e.from, dest |-> p,
                                                           dir |-> e.job.dir]}]]
  /\ UNCHANGED <<topPriority, preempting, userCancelled, closed, moved, limit, mu, issued,
                 dispatcher, work, asleep, disk, part>>

\* The end of the critical section: Mu is released.
EnqueueEnd(k) ==
  /\ mu = k /\ call[k].pc = "targets" /\ call[k].todo = {}
  /\ mu' = NoOne
  /\ call' = [call EXCEPT ![k].pc = IF call[k].late # {} THEN "late" ELSE "notify",
                          ![k].wake = @ \/ call[k].late # {}]
  /\ UNCHANGED <<queueVars, nodeVars, issued, dispatcher, work, asleep, disk, part>>

\* A Done-join is placed outside the lock; a failure fails the job, whatever it
\* has become meanwhile.
LatePlace(k) ==
  /\ call[k].pc = "late"
  /\ \E l \in call[k].late :
       \E o \in Materialize(disk, l.src, l.dest, l.dir) :
         /\ o.ok \/ MuFree
         /\ disk' = o.disk
         /\ jobs' = IF o.ok THEN jobs ELSE [jobs EXCEPT ![l.cid].state = "failed"]
         /\ call' = [call EXCEPT ![k].late = @ \ {l},
                                 ![k].pc = IF call[k].late = {l} THEN "notify" ELSE @]
  /\ UNCHANGED <<before, topPriority, preempting, userCancelled, closed, moved, nodeVars, mu,
                 issued, dispatcher, work, asleep, part>>

EnqueueNotify(k) ==
  /\ call[k].pc = "notify"
  /\ IF call[k].wake THEN NotifyAll ELSE Asleep
  /\ call' = [call EXCEPT ![k].pc = IF call[k].bump THEN "bump" ELSE "wait", ![k].wake = FALSE]
  /\ UNCHANGED <<queueVars, nodeVars, mu, issued, work, disk, part>>

--------------------------------------------------------------------------------
(* WaitBatch *)

BatchFailed(k) == \E i \in call[k].items : ~i.optional /\ jobs[i.cid].state = "failed"
BatchDone(k)   == \A i \in call[k].items : jobs[i.cid].state \in {"none", "done", "failed"}
Decided(k)     == BatchFailed(k) \/ BatchDone(k)

Return(k, how) ==
  /\ call' = [call EXCEPT ![k].pc = how]
  /\ asleep' = asleep \ {k}
  /\ UNCHANGED <<queueVars, nodeVars, mu, issued, dispatcher, work, disk, part>>

WaitCheck(k) ==
  /\ call[k].pc = "wait" /\ k \notin asleep /\ MuFree
  /\ \/ BatchFailed(k) /\ Return(k, "failed")
     \/ ~BatchFailed(k) /\ BatchDone(k) /\ Return(k, "ok")
     \/ /\ ~Decided(k)
        /\ asleep' = asleep \cup {k}
        /\ UNCHANGED <<queueVars, nodeVars, mu, call, issued, dispatcher, work, disk, part>>

\* The bounded wait of a launch: the jobs stay in the queue.
WaitTimesOut(k) ==
  /\ call[k].pc = "wait" /\ call[k].bounded /\ k \in asleep /\ MuFree
  /\ Return(k, "timeout")

\* The caller uses the result; it may then ask again.
Reuse(k) ==
  /\ call[k].pc \in {"ok", "failed", "timeout"}
  /\ call' = [call EXCEPT ![k] = NoCall]
  /\ UNCHANGED <<queueVars, nodeVars, mu, issued, dispatcher, work, asleep, disk, part>>

--------------------------------------------------------------------------------
(* The dispatcher *)

Busy == {w \in Slots : work[w].pc # "free"}

\* wait, or wait_until the earliest backoff of the jobs queued now
DispatcherCheck ==
  /\ dispatcher.pc = "check" /\ MuFree
  /\ dispatcher' = IF \E c \in Cids : Ready(c) THEN [pc |-> "acquire", alarm |-> {}]
                   ELSE [pc |-> "asleep", alarm |-> {c \in Cids : jobs[c].state = "queued"}]
  /\ UNCHANGED <<queueVars, nodeVars, mu, call, issued, work, asleep, disk, part>>

\* DownloadSlot Slot: blocks until a slot is free, without Mu.
AcquireSlot ==
  /\ dispatcher.pc = "acquire" /\ Cardinality(Busy) < limit
  /\ dispatcher' = [pc |-> "pick", alarm |-> {}]
  /\ UNCHANGED <<queueVars, nodeVars, mu, call, issued, work, asleep, disk, part>>

\* The job may be gone by now; otherwise it is handed to a worker that keeps
\* its own copy of the destinations.
Dispatch(w, c) ==
  /\ dispatcher.pc = "pick" /\ MuFree /\ work[w].pc = "free" /\ PickReady(c)
  /\ jobs' = [jobs EXCEPT ![c].state = "active"]
  /\ work' = [work EXCEPT ![w] = [NoWork EXCEPT !.pc = "start", !.cid = c, !.dests = jobs[c].dests,
                                                !.dir = jobs[c].dir, !.verify = jobs[c].verify]]
  /\ dispatcher' = [pc |-> "check", alarm |-> {}]
  /\ UNCHANGED <<before, topPriority, preempting, userCancelled, closed, moved, nodeVars, mu,
                 call, issued, asleep, disk, part>>

NothingReady ==
  /\ dispatcher.pc = "pick" /\ MuFree /\ ~\E c \in Cids : Ready(c)
  /\ dispatcher' = [pc |-> "check", alarm |-> {}]
  /\ UNCHANGED <<queueVars, nodeVars, mu, call, issued, work, asleep, disk, part>>

\* ReadyAt comes: the job is eligible, and a dispatcher that set its alarm by
\* the queued jobs wakes.
BackoffElapses(c) ==
  /\ jobs[c].state = "queued" /\ ~jobs[c].ready
  /\ jobs' = [jobs EXCEPT ![c].ready = TRUE]
  /\ dispatcher' = IF dispatcher.pc = "asleep" /\ c \in dispatcher.alarm
                   THEN [pc |-> "check", alarm |-> {}] ELSE dispatcher
  /\ UNCHANGED <<before, topPriority, preempting, userCancelled, closed, moved, nodeVars, mu,
                 call, issued, work, asleep, disk, part>>

--------------------------------------------------------------------------------
(* A worker: RunJob over its copy of the destinations *)

Unplaced(p) == ~Exists(disk, p) \/ p \in part

\* FetchOnce: a plain file that is there with no .part counts as fetched; never
\* a folder, never at a destination that is to be verified.
Shortcut(j, p) == ~j.dir /\ ~j.verify /\ ~Unplaced(p)

\* Primary: a destination that still needs the node, else any.
StartFetch(w) ==
  /\ work[w].pc = "start"
  /\ LET job  == work[w]
         need == {p \in job.dests : Unplaced(p)}
     IN \E p \in (IF need # {} THEN need ELSE IF job.dests # {} THEN job.dests ELSE {NoPath}) :
          work' = [work EXCEPT ![w] =
            IF p = NoPath THEN [job EXCEPT !.pc = "place", !.rc = 2]
            ELSE IF Shortcut(job, p)
                 THEN [job EXCEPT !.pc = "place", !.primary = p, !.todo = job.dests \ {p}]
                 ELSE [job EXCEPT !.pc = "fetch", !.primary = p]]
  /\ UNCHANGED <<queueVars, nodeVars, mu, call, issued, dispatcher, asleep, disk, part>>

\* The node's answer: landed (an out-of-band file that matches is adopted, another
\* one overwritten), retryable, or terminal; never retryable once cancelled.
FetchReturns(w) ==
  /\ work[w].pc = "fetch"
  /\ LET p == work[w].primary
         c == work[w].cid
     IN \/ /\ disk' = IF disk[p].cid = c THEN disk ELSE Replace(disk, p, c)
           /\ part' = part \ {p}
           /\ work' = [work EXCEPT ![w].pc = "place", ![w].todo = work[w].dests \ {p}]
        \/ \E rc \in {1, 2} :
             /\ rc = 1 => c \notin cancelFlag
             /\ work' = [work EXCEPT ![w].pc = "place", ![w].rc = rc]
             /\ UNCHANGED <<disk, part>>
  /\ UNCHANGED <<queueVars, nodeVars, mu, call, issued, dispatcher, asleep>>

\* One further destination: placed over what is there, or left as it is.
PlaceNext(w) ==
  /\ work[w].pc = "place"
  /\ \E p \in work[w].todo :
       \E o \in (IF work[w].verify \/ ~Exists(disk, p)
                 THEN Materialize(disk, work[w].primary, p, work[w].dir)
                 ELSE {Outcome(TRUE, disk)}) :
         /\ disk' = o.disk
         /\ work' = [work EXCEPT ![w].todo = @ \ {p}, ![w].bad = @ \/ ~o.ok]
  /\ UNCHANGED <<queueVars, nodeVars, mu, call, issued, dispatcher, asleep, part>>

\* mutants: demoted by one instead of reset; left active
RotatedBelow(j, penalty) ==
  [j EXCEPT !.state = "queued", !.priority = @ - 1, !.ready = ~penalty, !.tried = @ \/ penalty]
RotatedActive(j, penalty) ==
  [j EXCEPT !.priority = 0, !.ready = ~penalty, !.tried = @ \/ penalty]

Rotated(j, penalty) ==
  [j EXCEPT !.state = "queued", !.priority = 0, !.ready = ~penalty, !.tried = @ \/ penalty]

\* mutants of the order below
SettledPreemptFirst(j, w) ==
  LET c == work[w].cid
  IN IF work[w].rc = 0 /\ ~work[w].bad THEN [j EXCEPT !.state = "done"]
     ELSE IF c \in preempting THEN Rotated(j, FALSE)
     ELSE IF c \in userCancelled \/ work[w].rc = 2 \/ work[w].bad THEN [j EXCEPT !.state = "failed"]
     ELSE Rotated(j, TRUE)
SettledTerminalFirst(j, w) ==
  LET c == work[w].cid
  IN IF c \in userCancelled THEN [j EXCEPT !.state = "failed"]
     ELSE IF work[w].rc = 0 /\ ~work[w].bad THEN [j EXCEPT !.state = "done"]
     ELSE IF work[w].rc = 2 \/ work[w].bad THEN [j EXCEPT !.state = "failed"]
     ELSE Rotated(j, c \notin preempting)
SettledLogged(j, w) ==
  LET c == work[w].cid
  IN IF c \in userCancelled THEN [j EXCEPT !.state = "failed"]
     ELSE IF work[w].rc = 0 THEN [j EXCEPT !.state = "done"]
     ELSE IF c \in preempting THEN Rotated(j, FALSE)
     ELSE IF work[w].rc = 2 THEN [j EXCEPT !.state = "failed"]
     ELSE Rotated(j, TRUE)

\* What becomes of the job: a user cancel wins over everything, then success,
\* then a preemption (no penalty), then failure, else rotation with backoff.
Settled(j, w) ==
  LET c == work[w].cid
  IN IF c \in userCancelled THEN [j EXCEPT !.state = "failed"]
     ELSE IF work[w].rc = 0 /\ ~work[w].bad THEN [j EXCEPT !.state = "done"]
     ELSE IF c \in preempting THEN Rotated(j, FALSE)
     ELSE IF work[w].rc = 2 \/ work[w].bad THEN [j EXCEPT !.state = "failed"]
     ELSE Rotated(j, TRUE)

\* mutant: what is wanted again is undone too
UndoneAll(c) == jobs[c].forgotten

\* The late landings RunJob removes: dropped meanwhile, and not wanted again.
Undone(c) == jobs[c].forgotten \ jobs[c].dests

Finish(w) ==
  /\ work[w].pc = "place" /\ work[w].todo = {} /\ MuFree
  /\ LET c == work[w].cid
         j == [jobs[c] EXCEPT !.forgotten = {}]
         settled == Settled(j, w)
     IN /\ jobs' = [jobs EXCEPT ![c] = settled]
        /\ before' = IF settled.state = "queued" THEN ToBack(before, c) ELSE before
        /\ disk' = Removed(disk, Undone(c))
        /\ cancelFlag' = IF c \in userCancelled \/ (settled.state = "queued" /\ c \in preempting)
                         THEN cancelFlag \ {c} ELSE cancelFlag
        /\ preempting' = preempting \ {c}
        /\ userCancelled' = userCancelled \ {c}
        /\ work' = [work EXCEPT ![w] = [NoWork EXCEPT !.pc = "notify"]]
  /\ UNCHANGED <<topPriority, closed, moved, limit, mu, call, issued, dispatcher, asleep, part>>

\* notify_all, then the thread ends and its slot is free.
Retire(w) ==
  /\ work[w].pc = "notify"
  /\ NotifyAll
  /\ work' = [work EXCEPT ![w] = NoWork]
  /\ UNCHANGED <<queueVars, nodeVars, mu, call, issued, disk, part>>

--------------------------------------------------------------------------------
(* Control calls, each one critical section *)

Active == {c \in Cids : jobs[c].state = "active"}

\* mutant: whatever the job's state, it is marked
CancelMarksAll(c) ==
  /\ MuFree /\ <<"cancel", c>> \in Calls
  /\ jobs' = IF jobs[c].state = "queued" THEN [jobs EXCEPT ![c].state = "failed"] ELSE jobs
  /\ userCancelled' = userCancelled \cup {c}
  /\ cancelFlag' = cancelFlag \cup {c}
  /\ NotifyAll
  /\ UNCHANGED <<before, topPriority, preempting, closed, moved, limit, mu, call, issued, work,
                 disk, part>>

\* mutant: an active job is failed at once
CancelFailsActive(c) ==
  /\ MuFree /\ <<"cancel", c>> \in Calls
  /\ jobs' = IF jobs[c].state \in {"queued", "active"} THEN [jobs EXCEPT ![c].state = "failed"] ELSE jobs
  /\ cancelFlag' = cancelFlag \cup {c}
  /\ NotifyAll
  /\ UNCHANGED <<before, topPriority, preempting, userCancelled, closed, moved, limit, mu, call,
                 issued, work, disk, part>>

CancelDownload(c) ==
  /\ MuFree /\ <<"cancel", c>> \in Calls
  /\ jobs' = IF jobs[c].state = "queued" THEN [jobs EXCEPT ![c].state = "failed"] ELSE jobs
  /\ userCancelled' = IF jobs[c].state = "active" THEN userCancelled \cup {c} ELSE userCancelled
  /\ cancelFlag' = cancelFlag \cup {c}
  /\ NotifyAll
  /\ UNCHANGED <<before, topPriority, preempting, closed, moved, limit, mu, call, issued, work,
                 disk, part>>

\* An active job of the lowest priority, when all slots are busy and c outranks it.
Victims(top) ==
  IF Cardinality(Active) < limit THEN {}
  ELSE {v \in Active : /\ \A a \in Active : jobs[v].priority <= jobs[a].priority
                       /\ jobs[v].priority < top}

Prioritize(c) ==
  IF jobs[c].state # "queued" \/ (jobs[c].optional /\ jobs[c].tried)
  THEN UNCHANGED <<jobs, topPriority, preempting, cancelFlag, asleep, dispatcher>>
  ELSE LET top == topPriority + 1
           evict == IF jobs[c].optional THEN {} ELSE Victims(top)
       IN /\ topPriority < MaxBumps
          /\ topPriority' = top
          /\ jobs' = [jobs EXCEPT ![c].priority = top, ![c].ready = TRUE]
          /\ NotifyAll
          /\ IF evict = {} THEN UNCHANGED <<preempting, cancelFlag>>
             ELSE \E v \in evict : /\ preempting' = preempting \cup {v}
                                   /\ cancelFlag' = cancelFlag \cup {v}

PrioritizeDownload(c) ==
  /\ MuFree /\ <<"prioritize", c>> \in Calls
  /\ topPriority + MaxBatches < MaxBumps    \* what is left is for the batches' own bumps
  /\ Prioritize(c)
  /\ UNCHANGED <<before, userCancelled, closed, moved, limit, mu, call, issued, work, disk, part>>

\* FetchToPath of a launch: the batch's one target is prioritized before the wait.
Bump(k) ==
  /\ call[k].pc = "bump" /\ MuFree
  /\ \E i \in call[k].items : Prioritize(i.cid)
  /\ call' = [call EXCEPT ![k].pc = "wait"]
  /\ UNCHANGED <<before, userCancelled, closed, moved, limit, mu, issued, work, disk, part>>

CloseQueue ==
  /\ MuFree /\ <<"close">> \in Calls /\ ~closed
  /\ closed' = TRUE
  /\ jobs' = [c \in Cids |-> IF jobs[c].state = "queued" THEN [jobs[c] EXCEPT !.state = "failed"]
                                                         ELSE jobs[c]]
  /\ userCancelled' = userCancelled \cup Active
  /\ cancelFlag' = cancelFlag \cup Active
  /\ NotifyAll
  /\ UNCHANGED <<before, topPriority, preempting, moved, limit, mu, call, issued, work, disk, part>>

OpenQueue ==
  /\ MuFree /\ <<"open">> \in Calls /\ closed
  /\ closed' = FALSE
  /\ UNCHANGED <<jobs, before, topPriority, preempting, userCancelled, moved, nodeVars, mu, call,
                 issued, dispatcher, work, asleep, disk, part>>

Under(f) == {p \in Paths : FolderOf[p] = f}

RedirectDestsUnder(f, g) ==
  /\ MuFree /\ <<"move", f, g>> \in Calls
  /\ moved' = [moved EXCEPT ![f] = g]
  /\ UNCHANGED <<jobs, before, topPriority, preempting, userCancelled, closed, nodeVars, mu, call,
                 issued, dispatcher, work, asleep, disk, part>>

\* Only a move whose destination folder is gone is forgotten.
DropRedirectsUnder(f) ==
  /\ MuFree /\ <<"unmove", f>> \in Calls
  /\ ~\E p \in Under(moved[f]) : Exists(disk, p)
  /\ moved' = [moved EXCEPT ![f] = f]
  /\ UNCHANGED <<jobs, before, topPriority, preempting, userCancelled, closed, nodeVars, mu, call,
                 issued, dispatcher, work, asleep, disk, part>>

\* mutant: a worker's late landing is not marked
ForgetDestsOnly(f) ==
  /\ MuFree /\ <<"forget", f>> \in Calls
  /\ jobs' = [c \in Cids |-> [jobs[c] EXCEPT !.dests = @ \ Under(f)]]
  /\ UNCHANGED <<before, topPriority, preempting, userCancelled, closed, moved, nodeVars, mu,
                 call, issued, dispatcher, work, asleep, disk, part>>

\* A job in flight remembers what it must undo: its worker has its own copy.
ForgetDestsUnder(f) ==
  /\ MuFree /\ <<"forget", f>> \in Calls
  /\ jobs' = [c \in Cids |->
       [jobs[c] EXCEPT !.dests = @ \ Under(f),
                       !.forgotten = IF jobs[c].state = "active"
                                     THEN @ \cup (jobs[c].dests \cap Under(f)) ELSE @]]
  /\ UNCHANGED <<before, topPriority, preempting, userCancelled, closed, moved, nodeVars, mu,
                 call, issued, dispatcher, work, asleep, disk, part>>

SetMaxConcurrentDownloads(n) ==
  /\ <<"limit", n>> \in Calls
  /\ limit' = n
  /\ UNCHANGED <<queueVars, cancelFlag, mu, call, issued, dispatcher, work, asleep, disk, part>>

\* The rest of the program, without the queue: a folder is removed from disk,
\* the node's cancel flag of a CID is raised and cleared (by a card, not CancelDownload).
RemoveFolder(f) ==
  /\ <<"remove", f>> \in Calls
  /\ disk' = Removed(disk, Under(f))
  /\ part' = part \ Under(f)
  /\ UNCHANGED <<queueVars, nodeVars, mu, call, issued, dispatcher, work, asleep>>

RequestCancel(c) ==
  /\ <<"flag", c>> \in Calls
  /\ cancelFlag' = cancelFlag \cup {c}
  /\ UNCHANGED <<queueVars, limit, mu, call, issued, dispatcher, work, asleep, disk, part>>

ClearCancel(c) ==
  /\ <<"unflag", c>> \in Calls
  /\ cancelFlag' = cancelFlag \ {c}
  /\ UNCHANGED <<queueVars, limit, mu, call, issued, dispatcher, work, asleep, disk, part>>

--------------------------------------------------------------------------------
\* A fresh process: nothing in memory, on disk whatever an earlier run left.
Init ==
  /\ jobs = [c \in Cids |-> NoJob]
  /\ before = {}
  /\ topPriority = 0
  /\ preempting = {} /\ userCancelled = {} /\ cancelFlag = {}
  /\ closed = FALSE
  /\ moved = [f \in Folders |-> f]
  /\ limit = Cardinality(Slots)
  /\ mu = NoOne
  /\ call = [k \in Callers |-> NoCall]
  /\ issued = 0
  /\ dispatcher = [pc |-> "check", alarm |-> {}]
  /\ work = [w \in Slots |-> NoWork]
  /\ asleep = {}
  /\ \E content \in [Paths -> StartFiles] :
       /\ disk = [p \in Paths |-> Fresh(p, content[p])]
       /\ part \in SUBSET {p \in Paths : content[p] # NoFile}

CallerStep(k) ==
  \/ \E b \in Batches : EnqueueBegin(k, b)
  \/ EnqueueTarget(k) \/ EnqueueEnd(k) \/ LatePlace(k) \/ EnqueueNotify(k)
  \/ Bump(k) \/ WaitCheck(k) \/ WaitTimesOut(k) \/ Reuse(k)

DispatcherStep ==
  \/ DispatcherCheck \/ AcquireSlot \/ NothingReady
  \/ \E w \in Slots, c \in Cids : Dispatch(w, c)

WorkerStep(w) == StartFetch(w) \/ FetchReturns(w) \/ PlaceNext(w) \/ Finish(w) \/ Retire(w)

Control ==
  \/ \E c \in Cids : CancelDownload(c) \/ PrioritizeDownload(c) \/ RequestCancel(c)
                      \/ ClearCancel(c)
  \/ CloseQueue \/ OpenQueue
  \/ \E f \in Folders : \/ DropRedirectsUnder(f) \/ ForgetDestsUnder(f) \/ RemoveFolder(f)
                        \/ \E g \in Folders : RedirectDestsUnder(f, g)
  \/ \E n \in 1..Cardinality(Slots) : SetMaxConcurrentDownloads(n)

Next ==
  \/ \E k \in Callers : CallerStep(k)
  \/ DispatcherStep
  \/ \E w \in Slots : WorkerStep(w)
  \/ \E c \in Cids : BackoffElapses(c)
  \/ Control

Spec == Init /\ [][Next]_vars

--------------------------------------------------------------------------------
(* Safety *)

Types ==
  /\ jobs \in [Cids -> Job]
  /\ before \subseteq Cids \X Cids
  /\ topPriority \in 0..MaxBumps
  /\ preempting \subseteq Cids /\ userCancelled \subseteq Cids /\ cancelFlag \subseteq Cids
  /\ closed \in BOOLEAN
  /\ moved \in [Folders -> Folders]
  /\ limit \in 0..Cardinality(Slots)
  /\ mu \in Callers \cup {NoOne}
  /\ call \in [Callers -> Call]
  /\ issued \in 0..MaxBatches
  /\ dispatcher \in Dispatcher
  /\ work \in [Slots -> Worker]
  /\ asleep \subseteq Callers
  /\ disk \in Files
  /\ part \subseteq Paths

\* A worker in flight has a CID, and one that writes, its primary destination.
Aimed ==
  \A w \in Slots : /\ Running(w) => work[w].cid \in Cids
                   /\ work[w].pc = "fetch" \/ work[w].todo # {} => work[w].primary \in Paths

\* Type correctness of the queue, its callers, dispatcher, workers and files.
TypeOK == Types /\ Aimed

\* No job is stranded: an active job has a worker that will settle it.
ActiveHasWorker ==
  \A c \in Cids : jobs[c].state = "active" => \E w \in Slots : Runs(w, c)

\* A preemption or cancel mark never outlives the fetch it was made for: left
\* behind, it would rotate or fail the CID's next attempt, which nobody cancelled.
MarksHaveWorker ==
  \A c \in preempting \cup userCancelled : \E w \in Slots : Runs(w, c)

\* What is in flight, and what is marked to end, has a worker that will settle it.
JobsHaveWorkers == ActiveHasWorker /\ MarksHaveWorker

\* A path is wanted by one CID: "A dest belongs to exactly ONE CID".
PathHasOneOwner ==
  \A a, b \in Cids : a # b => jobs[a].dests \cap jobs[b].dests = {}

\* A waiter that sleeps has something to wait for, or a notify on its way: a
\* worker that has settled but not yet notified, or a caller about to notify.
NotifyPending ==
  \/ \E w \in Slots : work[w].pc = "notify"
  \/ \E k \in Callers : call[k].wake

NoLostWakeup ==
  \A k \in asleep : Decided(k) =>
     \/ NotifyPending
     \/ \E i \in call[k].items, w \in Slots : Runs(w, i.cid)

\* The dispatcher never sleeps past a ready job.
DispatcherAwake ==
  dispatcher.pc = "asleep" /\ (\E c \in Cids : Ready(c)) => NotifyPending

\* The one condition variable serves both kinds of sleeper: neither a waiter nor
\* the dispatcher sleeps past what it waits for.
NobodyOversleeps == NoLostWakeup /\ DispatcherAwake

--------------------------------------------------------------------------------
(* Action properties *)

\* An active fetch the user cancelled ends Failed; a preemption or a retryable
\* answer in the same moment never puts it back in the queue.
CancelSticks ==
  [][\A c \in Cids : jobs[c].state = "active" /\ c \in userCancelled
        => jobs'[c].state \in {"active", "failed"}]_vars

\* Being pushed aside for a launch is not a failure: a fetch that was preempted,
\* and not cancelled by the user, is never failed by its own cancel flag.
PreemptedNotFailed ==
  [][\A w \in Slots : LET c == work[w].cid IN
        Running(w) /\ c \in preempting /\ c \notin userCancelled /\ ~work[w].bad /\ ~Running(w)'
        => jobs'[c].state # "failed"]_vars

Wanted(p) == \E c \in Cids : p \in jobs[c].dests

\* A worker lands a file only where a job wants it, or is marked to undo it. (A
\* caller's late placement is not marked: dropped meanwhile, its file still comes.)
LandsOnlyWhereWanted ==
  \A p \in Paths : ~Exists(disk, p) /\ Exists(disk', p)
     => \/ Wanted(p)
        \/ \E c \in Cids : p \in jobs[c].forgotten
        \/ \E k \in Callers : call[k].pc = "late" /\ \E l \in call[k].late : l.dest = p

\* Undoing a late landing never takes away a file some job wants at its path.
WantedFileStays ==
  \A w \in Slots, p \in Paths :
     Running(w) /\ ~Running(w)' /\ Exists(disk, p) /\ Wanted(p) => Exists(disk', p)

\* Files come and go as jobs want them, while their folder is dropped, moved, and
\* wanted again under the workers.
FilesFollowJobs == [][LandsOnlyWhereWanted /\ WantedFileStays]_vars

\* A batch that succeeds has its required files where it asked for them.
Succeeds(k) == call[k].pc # "ok" /\ call'[k].pc = "ok"

SuccessMeansLanded ==
  [][\A k \in Callers : Succeeds(k) =>
       \A t \in call[k].asked : t.optional \/ disk[t.path].cid = t.cid]_vars

--------------------------------------------------------------------------------
(* Refinement *)

Queue == INSTANCE FetchQueue WITH
  Fetches <- Slots, Nothing <- NoOne,
  job <- [c \in Cids |-> jobs[c].state],
  at <- [w \in Slots |-> IF Running(w) THEN work[w].cid ELSE NoOne],
  doomed <- userCancelled, flag <- cancelFlag

\* The queue keeps what FetchQueue promises those who use it: an active job is left
\* to its own fetch by every other request and control call, save that a request to a
\* closed queue, or a late placement that failed, fails it; a fetch cancelled in flight
\* fails its job, and one whose job was failed meanwhile still settles it, once.
KeepsPromise == Queue!Promise

--------------------------------------------------------------------------------
(* Liveness *)

Fairness ==
  /\ WF_vars(DispatcherStep)
  /\ \A w \in Slots : WF_vars(WorkerStep(w))
  /\ \A c \in Cids : WF_vars(BackoffElapses(c))
  /\ \A k \in Callers :
       /\ WF_vars(EnqueueTarget(k) \/ EnqueueEnd(k) \/ LatePlace(k) \/ EnqueueNotify(k))
       /\ WF_vars(Bump(k) \/ WaitCheck(k))

FairSpec == Spec /\ Fairness

\* CloseQueue: "every WaitBatch returns, however its fetches were doing".
CloseReleasesWaiters ==
  \A k \in Callers : (closed /\ call[k].pc = "wait") ~> (call[k].pc # "wait" \/ ~closed)

\* A queued job gets its turn, however often others rotate or are prioritized.
QueuedGetsTurn ==
  \A c \in Cids : (jobs[c].state = "queued") ~> (jobs[c].state # "queued")
================================================================================
