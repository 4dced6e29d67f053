-------------------------- MODULE DownloadQueueProofs --------------------------
(***************************************************************************)
(* Theorems about DownloadQueue, for every value of its constants.         *)
(***************************************************************************)
EXTENDS DownloadQueue, FiniteSetTheorems, TLAPS

--------------------------------------------------------------------------------
(* The destination files *)

LEMMA FreshType ==
  ASSUME NEW p \in Paths, NEW v \in Contents
  PROVE  Fresh(p, v) \in [cid : Contents, twins : SUBSET Paths]
BY DEF Fresh

LEMMA ReplaceType ==
  ASSUME NEW d \in Files, NEW p \in Paths, NEW v \in Contents
  PROVE  Replace(d, p, v) \in Files
BY FreshType DEF Replace, Files

LEMMA RemovedType ==
  ASSUME NEW d \in Files, NEW gone \in SUBSET Paths
  PROVE  Removed(d, gone) \in Files
<1>1. NoFile \in Contents
  BY DEF Contents
<1> QED
  BY <1>1, FreshType DEF Removed, Files

LEMMA RewriteType ==
  ASSUME NEW d \in Files, NEW p \in Paths, NEW v \in Contents
  PROVE  Rewrite(d, p, v) \in Files
BY DEF Rewrite, Files

LEMMA LinkType ==
  ASSUME NEW d \in Files, NEW from \in Paths, NEW to \in Paths
  PROVE  Link(d, from, to) \in Files
BY DEF Link, Files

\* Whatever placing a file or a tree does, it leaves a well-formed disk.
LEMMA MaterializeType ==
  ASSUME NEW d \in Files, NEW from \in Paths, NEW to \in Paths, NEW dir \in BOOLEAN,
         NEW o \in Materialize(d, from, to, dir)
  PROVE  o.disk \in Files /\ o.ok \in BOOLEAN
<1>1. NoFile \in Contents /\ Torn \in Contents /\ d[from].cid \in Contents
  BY DEF Contents, Files
<1>2. /\ Replace(d, to, d[from].cid) \in Files
      /\ Replace(d, to, NoFile) \in Files
      /\ Replace(d, to, Torn) \in Files
      /\ Rewrite(d, to, d[from].cid) \in Files
      /\ Rewrite(d, to, Torn) \in Files
      /\ Link(d, from, to) \in Files
  BY <1>1, ReplaceType, RewriteType, LinkType
<1> DEFINE Good == {[ok |-> ok, disk |-> e] : ok \in BOOLEAN, e \in Files}
<1>3. \A ok \in BOOLEAN, e \in Files : Outcome(ok, e) \in Good
  BY DEF Outcome
<1> HIDE DEF Good
<1>4. PlaceTree(d, from, to) \subseteq Good
  BY <1>2, <1>3 DEF PlaceTree
<1>5. PlaceFile(d, from, to) \subseteq Good
  <2>1. CASE ~Exists(d, from)
    BY <1>3, <2>1 DEF PlaceFile
  <2>2. CASE Exists(d, from) /\ Exists(d, to)
    BY <1>2, <1>3, <2>2 DEF PlaceFile
  <2>3. CASE Exists(d, from) /\ ~Exists(d, to)
    BY <1>2, <1>3, <2>3 DEF PlaceFile
  <2> QED
    BY <2>1, <2>2, <2>3
<1>6. o \in Good
  BY <1>4, <1>5 DEF Materialize
<1> QED
  BY <1>6 DEF Good

--------------------------------------------------------------------------------
(* Type correctness *)

LEMMA InitType == Init => Types
<1> SUFFICES ASSUME Init PROVE Types
  OBVIOUS
<1>1. limit \in 0..Cardinality(Slots)
  BY QueueAssumption, FS_CardinalityType DEF Init
<1>2. disk \in Files /\ part \subseteq Paths
  <2>1. PICK content \in [Paths -> StartFiles] :
          /\ disk = [p \in Paths |-> Fresh(p, content[p])]
          /\ part \in SUBSET {p \in Paths : content[p] # NoFile}
    BY DEF Init
  <2>2. \A p \in Paths : content[p] \in Contents
    BY QueueAssumption
  <2> QED
    BY <2>1, <2>2, FreshType DEF Files
<1>3. jobs \in [Cids -> Job]
  BY QueueAssumption DEF Init, NoJob, Job, States
<1>4. call \in [Callers -> Call] /\ work \in [Slots -> Worker] /\ dispatcher \in Dispatcher
  BY DEF Init, NoCall, Call, NoWork, Worker, Dispatcher
<1>5. topPriority \in 0..MaxBumps /\ issued \in 0..MaxBatches
  BY QueueAssumption DEF Init
<1>6. moved \in [Folders -> Folders] /\ mu \in Callers \cup {NoOne} /\ closed \in BOOLEAN
  BY DEF Init
<1>7. /\ before \subseteq Cids \X Cids /\ preempting \subseteq Cids /\ userCancelled \subseteq Cids
      /\ cancelFlag \subseteq Cids /\ asleep \subseteq Callers
  BY DEF Init
<1> QED
  BY <1>1, <1>2, <1>3, <1>4, <1>5, <1>6, <1>7 DEF Types

\* A caller's fields, one step on.
LEMMA CallType ==
  ASSUME Types, NEW k \in Callers
  PROVE  /\ call[k] \in Call
         /\ \A x \in Call : [call EXCEPT ![k] = x] \in [Callers -> Call]
         /\ \A pc \in {"idle", "targets", "late", "notify", "bump", "wait", "ok", "failed", "timeout"} :
              [call EXCEPT ![k].pc = pc] \in [Callers -> Call]
<1>1. call \in [Callers -> Call]
  BY DEF Types
<1>2. \A x \in Call : [call EXCEPT ![k] = x] \in [Callers -> Call]
  BY <1>1
<1>3. ASSUME NEW pc \in {"idle", "targets", "late", "notify", "bump", "wait", "ok", "failed", "timeout"}
      PROVE  [call EXCEPT ![k].pc = pc] \in [Callers -> Call]
  <2>1. [call[k] EXCEPT !.pc = pc] \in Call
    BY <1>1 DEF Call
  <2>2. [call EXCEPT ![k].pc = pc] = [call EXCEPT ![k] = [call[k] EXCEPT !.pc = pc]]
    BY <1>1
  <2> QED
    BY <1>2, <2>1, <2>2
<1> QED
  BY <1>1, <1>2, <1>3

LEMMA WorkType ==
  ASSUME Types, NEW w \in Slots
  PROVE  /\ work[w] \in Worker
         /\ \A x \in Worker : [work EXCEPT ![w] = x] \in [Slots -> Worker]
BY DEF Types

LEMMA JobType ==
  ASSUME Types, NEW c \in Cids
  PROVE  /\ jobs[c] \in Job
         /\ \A j \in Job : [jobs EXCEPT ![c] = j] \in [Cids -> Job]
         /\ \A s \in States : [jobs EXCEPT ![c].state = s] \in [Cids -> Job]
BY DEF Types, Job

LEMMA NotifyType ==
  ASSUME Types, NotifyAll
  PROVE  asleep' \subseteq Callers /\ dispatcher' \in Dispatcher
BY DEF Types, NotifyAll, Dispatcher

LEMMA ToBackType ==
  ASSUME Types, NEW c \in Cids
  PROVE  ToBack(before, c) \subseteq Cids \X Cids
BY DEF Types, ToBack

LEMMA RedirectedType ==
  ASSUME Types, NEW p \in Paths
  PROVE  Redirected(p) \in Paths
<1>1. FolderOf[p] \in Folders
  BY QueueAssumption
<1>2. moved[FolderOf[p]] \in Folders
  BY <1>1 DEF Types
<1>3. MovedTo[moved[FolderOf[p]]][p] \in Paths
  BY <1>2, QueueAssumption
<1> QED
  BY <1>3 DEF Redirected

LEMMA RequeuedType ==
  ASSUME NEW j \in Job, NEW p \in Paths
  PROVE  Requeued(j, p) \in Job
<1>1. j.dests \cup {p} \in SUBSET Paths
  BY DEF Job
<1>2. "queued" \in States
  BY DEF States
<1> QED
  BY <1>1, <1>2 DEF Requeued, Job

\* What a target makes of an entry is an entry, and a source is one of its paths.
LEMMA JoinType ==
  ASSUME Types, NEW c \in Cids, NEW p \in Paths, NEW t \in Target, jobs[c].state # "none",
         NEW e \in Join(jobs[c], p, t)
  PROVE  e.job \in Job /\ e.fresh \in BOOLEAN /\ e.from \in Paths \cup {NoPath}
<1> DEFINE j == jobs[c]
           m == [j EXCEPT !.optional = @ /\ t.optional, !.verify = @ \/ t.verify]
           add == [m EXCEPT !.dests = @ \cup {p}]
           again == Requeued(m, p)
<1>1. j \in Job
  BY JobType
<1>2. m \in Job /\ add \in Job /\ again \in Job
  <2>1. \A x \in Job, o \in BOOLEAN, v \in BOOLEAN : [x EXCEPT !.optional = o, !.verify = v] \in Job
    BY DEF Job
  <2>2. (j.optional /\ t.optional) \in BOOLEAN /\ (j.verify \/ t.verify) \in BOOLEAN
    OBVIOUS
  <2>3. m \in Job
    BY <1>1, <2>1, <2>2
  <2> HIDE DEF m
  <2>4. add \in Job
    <3>1. \A x \in Job, ps \in SUBSET Paths : [x EXCEPT !.dests = ps] \in Job
      BY DEF Job
    <3>2. m.dests \cup {p} \in SUBSET Paths
      BY <2>3 DEF Job
    <3> QED
      BY <2>3, <3>1, <3>2
  <2>5. again \in Job
    BY <2>3, RequeuedType
  <2> QED
    BY <2>3, <2>4, <2>5
<1>3. \A x \in Job : [x EXCEPT !.priority = 0, !.tried = FALSE, !.ready = TRUE] \in Job
  <2>1. \A x \in Job, n \in 0..MaxBumps, a \in BOOLEAN, b \in BOOLEAN :
          [x EXCEPT !.priority = n, !.tried = a, !.ready = b] \in Job
    BY DEF Job
  <2>2. 0 \in 0..MaxBumps
    BY QueueAssumption
  <2> QED
    BY <2>1, <2>2
<1>4. j.state \in {"queued", "active", "done", "failed"}
  BY <1>1 DEF Job, States
<1>5. m.dests \subseteq Paths
  BY <1>2 DEF Job
<1> HIDE DEF m, add, again
<1>6. CASE j.state \in {"queued", "active"}
  <2>1. e = [job |-> add, fresh |-> FALSE, from |-> NoPath]
    BY <1>6 DEF Join, m, add
  <2> QED
    BY <1>2, <2>1
<1>7. CASE j.state = "done"
  <2>1. \/ e.job = m /\ e.fresh = FALSE /\ e.from = NoPath
        \/ e.job = add /\ e.fresh = FALSE /\ e.from = NoPath
        \/ e.job = add /\ e.fresh = FALSE /\ e.from \in m.dests
        \/ e.job = again /\ e.fresh = TRUE /\ e.from = NoPath
    BY <1>7 DEF Join, m, add, again
  <2> QED
    BY <1>2, <1>5, <2>1
<1>8. CASE j.state = "failed"
  <2>1. e = [job |-> [again EXCEPT !.priority = 0, !.tried = FALSE, !.ready = TRUE],
             fresh |-> TRUE, from |-> NoPath]
    BY <1>8 DEF Join, m, again
  <2> QED
    BY <1>2, <1>3, <2>1
<1> QED
  BY <1>4, <1>6, <1>7, <1>8

LEMMA FirstEntryType ==
  ASSUME NEW p \in Paths, NEW t \in Target, NEW e \in FirstEntry(p, t)
  PROVE  e.job \in Job /\ e.fresh \in BOOLEAN /\ e.from \in Paths \cup {NoPath}
<1> DEFINE queued == [NoJob EXCEPT !.state = "queued", !.dests = {p}, !.optional = t.optional,
                                   !.dir = t.dir, !.verify = t.verify]
           done == [NoJob EXCEPT !.state = "done", !.dests = {p}, !.optional = t.optional,
                                 !.dir = t.dir, !.verify = t.verify]
<1>1. queued \in Job /\ done \in Job
  <2>1. t.optional \in BOOLEAN /\ t.dir \in BOOLEAN /\ t.verify \in BOOLEAN /\ {p} \in SUBSET Paths
    BY DEF Target
  <2>2. NoJob \in Job
    BY QueueAssumption DEF NoJob, Job, States
  <2>3. ASSUME NEW x \in Job, NEW s \in States, NEW o \in BOOLEAN, NEW d \in BOOLEAN,
               NEW v \in BOOLEAN, NEW ps \in SUBSET Paths
        PROVE  [x EXCEPT !.state = s, !.dests = ps, !.optional = o, !.dir = d, !.verify = v] \in Job
    BY Zenon DEF Job
  <2>4. "queued" \in States /\ "done" \in States
    BY DEF States
  <2> QED
    BY <2>1, <2>2, <2>3, <2>4, Zenon
<1>2. e \in {[job |-> queued, fresh |-> TRUE, from |-> NoPath],
              [job |-> done, fresh |-> FALSE, from |-> NoPath]}
  BY Zenon DEF FirstEntry
<1> HIDE DEF queued, done
<1>3. CASE e = [job |-> queued, fresh |-> TRUE, from |-> NoPath]
  BY <1>1, <1>3
<1>4. CASE e = [job |-> done, fresh |-> FALSE, from |-> NoPath]
  BY <1>1, <1>4
<1> QED
  BY <1>2, <1>3, <1>4
--------------------------------------------------------------------------------
(* EnqueueBatch and WaitBatch keep the types *)

LEMMA EnqueueBeginType ==
  ASSUME Types, NEW k \in Callers, NEW b \in Batches, EnqueueBegin(k, b)
  PROVE  Types'
<1>1. call' \in [Callers -> Call]
  <2>1. /\ b.targets \in SUBSET Target /\ b.bounded \in BOOLEAN /\ b.bump \in BOOLEAN
    BY QueueAssumption
  <2>2. [NoCall EXCEPT !.pc = "targets", !.todo = b.targets, !.bounded = b.bounded,
                       !.bump = b.bump] \in Call
    BY <2>1 DEF NoCall, Call
  <2> QED
    BY <2>2, CallType DEF EnqueueBegin
<1>2. issued' \in 0..MaxBatches
  BY QueueAssumption DEF EnqueueBegin, Types
<1>3. mu' \in Callers \cup {NoOne}
  BY DEF EnqueueBegin
<1> QED
  BY <1>1, <1>2, <1>3 DEF EnqueueBegin, Types, queueVars, nodeVars

\* The fields of a call as EnqueueTarget and LatePlace change them.
LEMMA CallFields ==
  ASSUME NEW x \in Call
  PROVE  /\ \A todo \in SUBSET Target, asked \in SUBSET Target, items \in SUBSET Item :
              [x EXCEPT !.todo = todo, !.asked = asked, !.items = items] \in Call
         /\ \A wake \in BOOLEAN, late \in SUBSET Late :
              [x EXCEPT !.wake = wake, !.late = late] \in Call
<1>1. ASSUME NEW todo \in SUBSET Target, NEW asked \in SUBSET Target, NEW items \in SUBSET Item
      PROVE  [x EXCEPT !.todo = todo, !.asked = asked, !.items = items] \in Call
  BY DEF Call
<1>2. ASSUME NEW wake \in BOOLEAN, NEW late \in SUBSET Late
      PROVE  [x EXCEPT !.wake = wake, !.late = late] \in Call
  BY DEF Call
<1> QED
  BY <1>1, <1>2

LEMMA ClaimDestType ==
  ASSUME Types, NEW c \in Cids, NEW p \in Paths, NEW j \in Job
  PROVE  [ClaimDest(jobs, c, p) EXCEPT ![c] = j] \in [Cids -> Job]
<1>1. \A x \in Job, ps \in SUBSET Paths : [x EXCEPT !.dests = ps] \in Job
  BY DEF Job
<1>2. ASSUME NEW b \in Cids
      PROVE  jobs[b] \in Job /\ [jobs[b] EXCEPT !.dests = @ \ {p}] \in Job
  <2>1. jobs[b] \in Job /\ jobs[b].dests \ {p} \in SUBSET Paths
    BY DEF Types, Job
  <2> QED
    BY <1>1, <2>1
<1>3. ClaimDest(jobs, c, p) \in [Cids -> Job]
  BY <1>2 DEF ClaimDest
<1> QED
  BY <1>3

LEMMA EnqueueTargetType ==
  ASSUME Types, NEW k \in Callers, EnqueueTarget(k)
  PROVE  Types'
<1>1. call[k] \in Call
  BY CallType
<1> DEFINE path(t) == IF t.dir THEN t.path ELSE Redirected(t.path)
           seen(t) == [call[k] EXCEPT !.todo = @ \ {t},
                         !.asked = @ \cup {[t EXCEPT !.path = path(t)]},
                         !.items = @ \cup {[cid |-> t.cid, optional |-> t.optional]}]
           closes(t) == /\ closed
                        /\ jobs' = [jobs EXCEPT ![t.cid].state = IF @ = "done" THEN @ ELSE "failed"]
                        /\ call' = [call EXCEPT ![k] = seen(t)]
                        /\ UNCHANGED <<before, cancelFlag>>
           entry(t) == IF jobs[t.cid].state = "none" THEN FirstEntry(path(t), t)
                                                     ELSE Join(jobs[t.cid], path(t), t)
           late(t, e) == IF e.from = NoPath THEN seen(t).late
                         ELSE seen(t).late \cup {[cid |-> t.cid, src |-> e.from, dest |-> path(t),
                                                  dir |-> e.job.dir]}
           joins(t) == /\ ~closed
                       /\ cancelFlag' = cancelFlag \ {t.cid}
                       /\ \E e \in entry(t) :
                            /\ jobs' = [ClaimDest(jobs, t.cid, path(t)) EXCEPT ![t.cid] = e.job]
                            /\ before' = IF e.fresh THEN ToBack(before, t.cid) ELSE before
                            /\ call' = [call EXCEPT ![k] =
                                 [seen(t) EXCEPT !.wake = @ \/ e.fresh, !.late = late(t, e)]]
<1>2. PICK t \in call[k].todo : closes(t) \/ joins(t)
  BY ZenonT(60) DEF EnqueueTarget
<1>3. t \in Target
  BY <1>1 DEF Call
<1>4. t.cid \in Cids /\ t.path \in Paths /\ t.dir \in BOOLEAN /\ t.optional \in BOOLEAN
  BY <1>3 DEF Target
<1>5. path(t) \in Paths
  BY <1>4, RedirectedType
<1>6. [t EXCEPT !.path = path(t)] \in Target
  BY <1>3, <1>5 DEF Target
<1> HIDE DEF path
<1>7. seen(t) \in Call
  <2>1. /\ call[k].todo \ {t} \in SUBSET Target
        /\ call[k].asked \cup {[t EXCEPT !.path = path(t)]} \in SUBSET Target
    BY <1>1, <1>6 DEF Call
  <2>2. call[k].items \cup {[cid |-> t.cid, optional |-> t.optional]} \in SUBSET Item
    BY <1>1, <1>4 DEF Call, Item
  <2> QED
    BY <1>1, <2>1, <2>2, CallFields
<1> HIDE DEF seen
<1>8. CASE closes(t)
  <2>1. jobs' \in [Cids -> Job]
    <3>1. (IF jobs[t.cid].state = "done" THEN jobs[t.cid].state ELSE "failed") \in States
      BY DEF States
    <3> QED
      BY <1>4, <1>8, <3>1, JobType
  <2>2. call' \in [Callers -> Call]
    BY <1>7, <1>8, CallType
  <2> QED
    BY <1>8, <2>1, <2>2 DEF EnqueueTarget, Types
<1>9. CASE joins(t)
  <2>1. PICK e \in entry(t) :
          /\ jobs' = [ClaimDest(jobs, t.cid, path(t)) EXCEPT ![t.cid] = e.job]
          /\ before' = IF e.fresh THEN ToBack(before, t.cid) ELSE before
          /\ call' = [call EXCEPT ![k] = [seen(t) EXCEPT !.wake = @ \/ e.fresh, !.late = late(t, e)]]
    BY <1>9
  <2>2. e.job \in Job /\ e.fresh \in BOOLEAN /\ e.from \in Paths \cup {NoPath}
    <3>1. CASE jobs[t.cid].state = "none"
      BY <1>3, <1>5, <2>1, <3>1, FirstEntryType
    <3>2. CASE jobs[t.cid].state # "none"
      BY <1>3, <1>4, <1>5, <2>1, <3>2, JoinType
    <3> QED
      BY <3>1, <3>2
  <2>3. jobs' \in [Cids -> Job]
    BY <1>4, <1>5, <2>1, <2>2, ClaimDestType
  <2>4. before' \subseteq Cids \X Cids
    BY <1>4, <2>1, ToBackType DEF Types
  <2>5. call' \in [Callers -> Call]
    <3>1. late(t, e) \in SUBSET Late
      <4>1. seen(t).late \in SUBSET Late
        BY <1>7 DEF Call
      <4>2. e.job.dir \in BOOLEAN
        BY <2>2 DEF Job
      <4>3. CASE e.from = NoPath
        BY <4>1, <4>3
      <4>4. CASE e.from # NoPath
        <5>1. [cid |-> t.cid, src |-> e.from, dest |-> path(t), dir |-> e.job.dir] \in Late
          BY <1>4, <1>5, <2>2, <4>2, <4>4 DEF Late
        <5> QED
          BY <4>1, <4>4, <5>1
      <4> QED
        BY <4>3, <4>4
    <3>2. (seen(t).wake \/ e.fresh) \in BOOLEAN
      OBVIOUS
    <3>3. [seen(t) EXCEPT !.wake = @ \/ e.fresh, !.late = late(t, e)] \in Call
      BY <1>7, <3>1, <3>2, CallFields
    <3> QED
      BY <2>1, <3>3, CallType
  <2>6. cancelFlag' \subseteq Cids
    BY <1>9 DEF Types
  <2> QED
    BY <2>3, <2>4, <2>5, <2>6 DEF EnqueueTarget, Types
<1> QED
  BY <1>2, <1>8, <1>9

LEMMA EnqueueEndType ==
  ASSUME Types, NEW k \in Callers, EnqueueEnd(k)
  PROVE  Types'
<1>1. call' \in [Callers -> Call]
  <2>1. \A x \in Call, pc \in {"late", "notify"}, wake \in BOOLEAN :
          [x EXCEPT !.pc = pc, !.wake = wake] \in Call
    BY DEF Call
  <2>2. call[k] \in Call /\ (call[k].wake \/ call[k].late # {}) \in BOOLEAN
    BY CallType
  <2>3. call' = [call EXCEPT ![k] = [call[k] EXCEPT
                   !.pc = IF call[k].late # {} THEN "late" ELSE "notify",
                   !.wake = call[k].wake \/ call[k].late # {}]]
    BY DEF EnqueueEnd, Types
  <2> QED
    BY <2>1, <2>2, <2>3, CallType
<1> QED
  BY <1>1 DEF EnqueueEnd, Types, queueVars, nodeVars

LEMMA LatePlaceType ==
  ASSUME Types, NEW k \in Callers, LatePlace(k)
  PROVE  Types'
<1>1. call[k] \in Call
  BY CallType
<1> DEFINE placed(l, o) ==
        /\ disk' = o.disk
        /\ jobs' = IF o.ok THEN jobs ELSE [jobs EXCEPT ![l.cid].state = "failed"]
        /\ call' = [call EXCEPT ![k].late = @ \ {l},
                                ![k].pc = IF call[k].late = {l} THEN "notify" ELSE @]
<1>0. PICK l \in call[k].late : \E o \in Materialize(disk, l.src, l.dest, l.dir) : placed(l, o)
  BY Zenon DEF LatePlace
<1>2. PICK o \in Materialize(disk, l.src, l.dest, l.dir) : placed(l, o)
  BY <1>0
<1>3. l \in Late
  BY <1>1 DEF Call
<1>4. disk' \in Files
  BY <1>2, <1>3, MaterializeType DEF Late, Types
<1>5. jobs' \in [Cids -> Job]
  <2>1. "failed" \in States /\ l.cid \in Cids /\ jobs \in [Cids -> Job]
    BY <1>3 DEF Late, States, Types
  <2> QED
    BY <1>2, <2>1, JobType
<1>6. call' \in [Callers -> Call]
  <2>1. \A x \in Call, late \in SUBSET Late : [x EXCEPT !.late = late] \in Call
    BY DEF Call
  <2>2. \A x \in Call : [x EXCEPT !.pc = "notify"] \in Call
    BY DEF Call
  <2>3. call[k].late \ {l} \in SUBSET Late
    BY <1>1 DEF Call
  <2> DEFINE rest == [call[k] EXCEPT !.late = @ \ {l}]
  <2>4. rest \in Call
    BY <1>1, <2>1, <2>3
  <2>5. call \in [Callers -> Call]
    BY DEF Types
  <2>6. call' = [call EXCEPT ![k] = IF call[k].late = {l} THEN [rest EXCEPT !.pc = "notify"] ELSE rest]
    BY <1>2, <1>1, <2>5 DEF Call
  <2> HIDE DEF rest
  <2> QED
    BY <2>2, <2>4, <2>6, CallType
<1> QED
  BY <1>4, <1>5, <1>6 DEF LatePlace, Types, nodeVars

LEMMA EnqueueNotifyType ==
  ASSUME Types, NEW k \in Callers, EnqueueNotify(k)
  PROVE  Types'
<1>1. call' \in [Callers -> Call]
  <2>1. \A x \in Call, pc \in {"bump", "wait"} : [x EXCEPT !.pc = pc, !.wake = FALSE] \in Call
    BY DEF Call
  <2>2. call' = [call EXCEPT ![k] = [call[k] EXCEPT
                   !.pc = IF call[k].bump THEN "bump" ELSE "wait", !.wake = FALSE]]
    BY DEF EnqueueNotify, Types
  <2> QED
    BY <2>1, <2>2, CallType
<1>2. asleep' \subseteq Callers /\ dispatcher' \in Dispatcher
  BY NotifyType DEF EnqueueNotify, Asleep, Types
<1> QED
  BY <1>1, <1>2 DEF EnqueueNotify, Types, queueVars, nodeVars

LEMMA ReturnType ==
  ASSUME Types, NEW k \in Callers, NEW how \in {"ok", "failed", "timeout"}, Return(k, how)
  PROVE  Types'
<1>1. call' \in [Callers -> Call]
  BY CallType DEF Return
<1> QED
  BY <1>1 DEF Return, Types, queueVars, nodeVars

LEMMA WaitType ==
  ASSUME Types, NEW k \in Callers, WaitCheck(k) \/ WaitTimesOut(k) \/ Reuse(k)
  PROVE  Types'
<1>1. CASE WaitCheck(k)
  <2>1. CASE Return(k, "failed") \/ Return(k, "ok")
    BY <2>1, ReturnType
  <2>2. CASE /\ asleep' = asleep \cup {k}
             /\ UNCHANGED <<queueVars, nodeVars, mu, call, issued, dispatcher, work, disk, part>>
    BY <2>2 DEF Types, queueVars, nodeVars
  <2> QED
    BY <1>1, <2>1, <2>2, Zenon DEF WaitCheck
<1>2. CASE WaitTimesOut(k)
  BY <1>2, ReturnType DEF WaitTimesOut
<1>3. CASE Reuse(k)
  <2>1. call' \in [Callers -> Call]
    <3>1. NoCall \in Call
      BY DEF NoCall, Call
    <3> QED
      BY <1>3, <3>1, CallType DEF Reuse
  <2> QED
    BY <1>3, <2>1 DEF Reuse, Types, queueVars, nodeVars
<1> QED
  BY <1>1, <1>2, <1>3

--------------------------------------------------------------------------------
(* The dispatcher and the workers keep the types *)

LEMMA DispatcherType ==
  ASSUME Types, DispatcherCheck \/ AcquireSlot \/ NothingReady
  PROVE  Types'
<1>1. dispatcher' \in Dispatcher
  BY DEF DispatcherCheck, AcquireSlot, NothingReady, Dispatcher
<1> QED
  BY <1>1 DEF DispatcherCheck, AcquireSlot, NothingReady, Types, queueVars, nodeVars

\* The fields of a worker as its steps change them.
LEMMA WorkerFields ==
  ASSUME NEW x \in Worker
  PROVE  /\ \A pc \in {"start", "fetch", "place", "notify"} : [x EXCEPT !.pc = pc] \in Worker
         /\ \A p \in Paths : [x EXCEPT !.primary = p] \in Worker
         /\ \A rc \in 0..2 : [x EXCEPT !.rc = rc] \in Worker
         /\ \A todo \in SUBSET Paths : [x EXCEPT !.todo = todo] \in Worker
         /\ \A bad \in BOOLEAN : [x EXCEPT !.bad = bad] \in Worker
<1>1. \A pc \in {"start", "fetch", "place", "notify"} : [x EXCEPT !.pc = pc] \in Worker
  BY DEF Worker
<1>2. \A p \in Paths : [x EXCEPT !.primary = p] \in Worker
  BY DEF Worker
<1>3. \A rc \in 0..2 : [x EXCEPT !.rc = rc] \in Worker
  BY DEF Worker
<1>4. \A todo \in SUBSET Paths : [x EXCEPT !.todo = todo] \in Worker
  BY DEF Worker
<1>5. \A bad \in BOOLEAN : [x EXCEPT !.bad = bad] \in Worker
  BY DEF Worker
<1> QED
  BY <1>1, <1>2, <1>3, <1>4, <1>5

LEMMA DispatchType ==
  ASSUME Types, NEW w \in Slots, NEW c \in Cids, Dispatch(w, c)
  PROVE  Types'
<1>1. jobs' \in [Cids -> Job]
  BY JobType DEF Dispatch, States
<1>2. work' \in [Slots -> Worker]
  <2>1. jobs[c].dests \in SUBSET Paths /\ jobs[c].dir \in BOOLEAN /\ jobs[c].verify \in BOOLEAN
    BY DEF Types, Job
  <2>2. [NoWork EXCEPT !.pc = "start", !.cid = c, !.dests = jobs[c].dests,
                       !.dir = jobs[c].dir, !.verify = jobs[c].verify] \in Worker
    <3>1. NoWork \in Worker
      BY DEF NoWork, Worker
    <3>2. \A x \in Worker, ps \in SUBSET Paths, d \in BOOLEAN, v \in BOOLEAN :
            [x EXCEPT !.pc = "start", !.cid = c, !.dests = ps, !.dir = d, !.verify = v] \in Worker
      BY DEF Worker
    <3> QED
      BY <2>1, <3>1, <3>2
  <2> QED
    BY <2>2, WorkType DEF Dispatch
<1>3. dispatcher' \in Dispatcher
  BY DEF Dispatch, Dispatcher
<1> QED
  BY <1>1, <1>2, <1>3 DEF Dispatch, Types, nodeVars

LEMMA BackoffElapsesType ==
  ASSUME Types, NEW c \in Cids, BackoffElapses(c)
  PROVE  Types'
<1>1. jobs' \in [Cids -> Job]
  <2>1. \A x \in Job : [x EXCEPT !.ready = TRUE] \in Job
    BY DEF Job
  <2>2. jobs' = [jobs EXCEPT ![c] = [jobs[c] EXCEPT !.ready = TRUE]]
    BY DEF BackoffElapses
  <2> QED
    BY <2>1, <2>2, JobType
<1>2. dispatcher' \in Dispatcher
  BY DEF BackoffElapses, Dispatcher, Types
<1> QED
  BY <1>1, <1>2 DEF BackoffElapses, Types, nodeVars

LEMMA StartFetchStep ==
  ASSUME Types, NEW w \in Slots, StartFetch(w)
  PROVE  \E p \in work[w].dests \cup {NoPath} :
           work' = [work EXCEPT ![w] =
             IF p = NoPath THEN [work[w] EXCEPT !.pc = "place", !.rc = 2]
             ELSE IF Shortcut(work[w], p)
                  THEN [work[w] EXCEPT !.pc = "place", !.primary = p, !.todo = work[w].dests \ {p}]
                  ELSE [work[w] EXCEPT !.pc = "fetch", !.primary = p]]
<1> DEFINE job == work[w]
           need == {q \in job.dests : Unplaced(q)}
           from == IF need # {} THEN need ELSE IF job.dests # {} THEN job.dests ELSE {NoPath}
           started(p) == work' = [work EXCEPT ![w] =
             IF p = NoPath THEN [job EXCEPT !.pc = "place", !.rc = 2]
             ELSE IF Shortcut(job, p)
                  THEN [job EXCEPT !.pc = "place", !.primary = p, !.todo = job.dests \ {p}]
                  ELSE [job EXCEPT !.pc = "fetch", !.primary = p]]
<1>1. \E p \in from : started(p)
  BY Zenon DEF StartFetch
<1>2. from \subseteq job.dests \cup {NoPath}
  OBVIOUS
<1> QED
  BY <1>1, <1>2, Zenon

LEMMA StartFetchType ==
  ASSUME Types, NEW w \in Slots, StartFetch(w)
  PROVE  Types'
<1> DEFINE job == work[w]
<1>1. job \in Worker
  BY WorkType
<1>2. PICK p \in job.dests \cup {NoPath} : work' = [work EXCEPT ![w] =
        IF p = NoPath THEN [job EXCEPT !.pc = "place", !.rc = 2]
        ELSE IF Shortcut(job, p)
             THEN [job EXCEPT !.pc = "place", !.primary = p, !.todo = job.dests \ {p}]
             ELSE [job EXCEPT !.pc = "fetch", !.primary = p]]
  BY StartFetchStep
<1>3. work' \in [Slots -> Worker]
  <2>1. job.dests \subseteq Paths
    BY <1>1 DEF Worker
  <2>2. [job EXCEPT !.pc = "place", !.rc = 2] \in Worker
    <3>1. \A x \in Worker, rc \in 0..2 : [x EXCEPT !.pc = "place", !.rc = rc] \in Worker
      BY DEF Worker
    <3>2. 2 \in 0..2
      OBVIOUS
    <3> QED
      BY <1>1, <3>1, <3>2
  <2>3. \A q \in Paths, todo \in SUBSET Paths :
          [job EXCEPT !.pc = "place", !.primary = q, !.todo = todo] \in Worker
    BY <1>1 DEF Worker
  <2>4. \A q \in Paths : [job EXCEPT !.pc = "fetch", !.primary = q] \in Worker
    BY <1>1 DEF Worker
  <2> HIDE DEF job
  <2>5. p # NoPath => p \in Paths /\ job.dests \ {p} \in SUBSET Paths
    BY <2>1
  <2> QED
    BY <1>2, <2>2, <2>3, <2>4, <2>5, WorkType
<1> QED
  BY <1>3 DEF StartFetch, Types, queueVars, nodeVars

LEMMA FetchReturnsType ==
  ASSUME Types, NEW w \in Slots, FetchReturns(w), Aimed
  PROVE  Types'
<1> DEFINE p == work[w].primary
           c == work[w].cid
           landed == /\ disk' = IF disk[p].cid = c THEN disk ELSE Replace(disk, p, c)
                     /\ part' = part \ {p}
                     /\ work' = [work EXCEPT ![w].pc = "place", ![w].todo = work[w].dests \ {p}]
           refused(rc) == /\ work' = [work EXCEPT ![w].pc = "place", ![w].rc = rc]
                          /\ UNCHANGED <<disk, part>>
<1>1. work[w] \in Worker /\ work \in [Slots -> Worker]
  BY WorkType DEF Types
<1>0. p \in Paths /\ c \in Cids
  BY DEF FetchReturns, Aimed, Running
<1>2. landed \/ \E rc \in {1, 2} : refused(rc)
  BY Zenon DEF FetchReturns
<1>3. CASE landed
  <2>1. disk' \in Files
    <3>1. c \in Contents
      BY <1>0 DEF Contents
    <3> QED
      BY <1>3, <1>0, <3>1, ReplaceType DEF Types
  <2>2. part' \subseteq Paths
    BY <1>3 DEF Types
  <2>3. work' \in [Slots -> Worker]
    <3>1. \A x \in Worker, todo \in SUBSET Paths : [x EXCEPT !.pc = "place", !.todo = todo] \in Worker
      BY DEF Worker
    <3>2. work[w].dests \ {p} \in SUBSET Paths
      BY <1>1 DEF Worker
    <3>3. work' = [work EXCEPT ![w] = [work[w] EXCEPT !.pc = "place", !.todo = work[w].dests \ {p}]]
      BY <1>1, <1>3
    <3> QED
      BY <1>1, <3>1, <3>2, <3>3, WorkType
  <2> QED
    BY <2>1, <2>2, <2>3 DEF FetchReturns, Types, queueVars, nodeVars
<1>4. CASE \E rc \in {1, 2} : refused(rc)
  <2>1. PICK rc \in {1, 2} : refused(rc)
    BY <1>4
  <2>2. work' \in [Slots -> Worker]
    <3>1. \A x \in Worker, n \in 0..2 : [x EXCEPT !.pc = "place", !.rc = n] \in Worker
      BY DEF Worker
    <3>2. rc \in 0..2
      BY <2>1
    <3>3. work' = [work EXCEPT ![w] = [work[w] EXCEPT !.pc = "place", !.rc = rc]]
      BY <1>1, <2>1
    <3> QED
      BY <1>1, <3>1, <3>2, <3>3, WorkType
  <2> QED
    BY <2>1, <2>2 DEF FetchReturns, Types, queueVars, nodeVars
<1> QED
  BY <1>2, <1>3, <1>4

LEMMA PlaceNextType ==
  ASSUME Types, NEW w \in Slots, PlaceNext(w), Aimed
  PROVE  Types'
<1> DEFINE outcomes(p) == IF work[w].verify \/ ~Exists(disk, p)
                          THEN Materialize(disk, work[w].primary, p, work[w].dir)
                          ELSE {Outcome(TRUE, disk)}
           placed(p, o) == /\ disk' = o.disk
                           /\ work' = [work EXCEPT ![w].todo = @ \ {p}, ![w].bad = @ \/ ~o.ok]
<1>1. work[w] \in Worker /\ work \in [Slots -> Worker] /\ disk \in Files
  BY WorkType DEF Types
<1>2. PICK p \in work[w].todo : \E o \in outcomes(p) : placed(p, o)
  BY Zenon DEF PlaceNext
<1>3. PICK o \in outcomes(p) : placed(p, o)
  BY <1>2
<1>4. p \in Paths /\ work[w].primary \in Paths /\ work[w].dir \in BOOLEAN
  BY <1>1, <1>2 DEF Aimed, Worker
<1>5. o.disk \in Files
  <2>1. CASE work[w].verify \/ ~Exists(disk, p)
    BY <1>1, <1>3, <1>4, <2>1, MaterializeType
  <2>2. CASE ~(work[w].verify \/ ~Exists(disk, p))
    BY <1>1, <1>3, <2>2 DEF Outcome
  <2> QED
    BY <2>1, <2>2
<1>6. work' \in [Slots -> Worker]
  <2>1. \A x \in Worker, todo \in SUBSET Paths, bad \in BOOLEAN :
          [x EXCEPT !.todo = todo, !.bad = bad] \in Worker
    BY DEF Worker
  <2>2. work[w].todo \ {p} \in SUBSET Paths /\ (work[w].bad \/ ~o.ok) \in BOOLEAN
    BY <1>1 DEF Worker
  <2>3. work' = [work EXCEPT ![w] = [work[w] EXCEPT !.todo = work[w].todo \ {p},
                                                    !.bad = work[w].bad \/ ~o.ok]]
    BY <1>1, <1>3
  <2> QED
    BY <1>1, <2>1, <2>2, <2>3, WorkType
<1> QED
  BY <1>3, <1>5, <1>6 DEF PlaceNext, Types, queueVars, nodeVars

LEMMA RotatedType ==
  ASSUME NEW j \in Job, NEW penalty \in BOOLEAN
  PROVE  Rotated(j, penalty) \in Job
<1>1. \A s \in States, n \in 0..MaxBumps, r \in BOOLEAN, t \in BOOLEAN :
        [j EXCEPT !.state = s, !.priority = n, !.ready = r, !.tried = t] \in Job
  BY DEF Job
<1>2. /\ "queued" \in States /\ 0 \in 0..MaxBumps
      /\ (~penalty) \in BOOLEAN /\ (j.tried \/ penalty) \in BOOLEAN
  BY QueueAssumption DEF States
<1>3. Rotated(j, penalty) = [j EXCEPT !.state = "queued", !.priority = 0, !.ready = ~penalty,
                                      !.tried = j.tried \/ penalty]
  BY Zenon DEF Rotated
<1>4. [j EXCEPT !.state = "queued", !.priority = 0, !.ready = ~penalty,
                !.tried = j.tried \/ penalty] \in Job
  BY <1>1, <1>2, Zenon
<1> QED
  BY <1>3, <1>4, Zenon

LEMMA SettledType ==
  ASSUME NEW j \in Job, NEW w \in Slots
  PROVE  Settled(j, w) \in Job
<1>1. \A s \in States : [j EXCEPT !.state = s] \in Job
  BY DEF Job
<1>2. [j EXCEPT !.state = "failed"] \in Job /\ [j EXCEPT !.state = "done"] \in Job
  BY <1>1 DEF States
<1>3. Rotated(j, FALSE) \in Job /\ Rotated(j, TRUE) \in Job
  BY RotatedType
<1> QED
  BY <1>2, <1>3 DEF Settled

LEMMA FinishType ==
  ASSUME Types, NEW w \in Slots, Finish(w), Aimed
  PROVE  Types'
<1> DEFINE c == work[w].cid
           settled == Settled([jobs[c] EXCEPT !.forgotten = {}], w)
<1>1. c \in Cids
  BY DEF Finish, Aimed, Running
<1>2. settled \in Job
  <2>1. \A x \in Job : [x EXCEPT !.forgotten = {}] \in Job
    BY DEF Job
  <2> QED
    BY <1>1, <2>1, JobType, SettledType
<1>3. /\ jobs' = [jobs EXCEPT ![c] = settled]
      /\ before' = IF settled.state = "queued" THEN ToBack(before, c) ELSE before
      /\ disk' = Removed(disk, Undone(c))
      /\ cancelFlag' = IF c \in userCancelled \/ (settled.state = "queued" /\ c \in preempting)
                       THEN cancelFlag \ {c} ELSE cancelFlag
      /\ preempting' = preempting \ {c}
      /\ userCancelled' = userCancelled \ {c}
      /\ work' = [work EXCEPT ![w] = [NoWork EXCEPT !.pc = "notify"]]
  BY Zenon DEF Finish
<1> HIDE DEF settled
<1>4. jobs' \in [Cids -> Job]
  BY <1>1, <1>2, <1>3, JobType
<1>5. before' \subseteq Cids \X Cids
  BY <1>1, <1>3, ToBackType DEF Types
<1>6. disk' \in Files
  <2>1. Undone(c) \in SUBSET Paths
    BY <1>1 DEF Undone, Types, Job
  <2> QED
    BY <1>3, <2>1, RemovedType DEF Types
<1>7. cancelFlag' \subseteq Cids /\ preempting' \subseteq Cids /\ userCancelled' \subseteq Cids
  BY <1>3 DEF Types
<1>8. work' \in [Slots -> Worker]
  <2>1. [NoWork EXCEPT !.pc = "notify"] \in Worker
    <3>1. NoWork \in Worker
      BY DEF NoWork, Worker
    <3> QED
      BY <3>1, WorkerFields
  <2> QED
    BY <1>3, <2>1, WorkType
<1> QED
  BY <1>4, <1>5, <1>6, <1>7, <1>8 DEF Finish, Types

LEMMA RetireType ==
  ASSUME Types, NEW w \in Slots, Retire(w)
  PROVE  Types'
<1>1. work' \in [Slots -> Worker]
  <2>1. NoWork \in Worker
    BY DEF NoWork, Worker
  <2> QED
    BY <2>1, WorkType DEF Retire
<1>2. asleep' \subseteq Callers /\ dispatcher' \in Dispatcher
  BY NotifyType DEF Retire
<1> QED
  BY <1>1, <1>2 DEF Retire, Types, queueVars, nodeVars

--------------------------------------------------------------------------------
(* The control calls keep the types *)

LEMMA CancelDownloadType ==
  ASSUME Types, NEW c \in Cids, CancelDownload(c)
  PROVE  Types'
<1>1. jobs' \in [Cids -> Job]
  <2>1. "failed" \in States
    BY DEF States
  <2> QED
    BY <2>1, JobType DEF CancelDownload, Types
<1>2. asleep' \subseteq Callers /\ dispatcher' \in Dispatcher
  BY NotifyType DEF CancelDownload
<1>3. userCancelled' \subseteq Cids /\ cancelFlag' \subseteq Cids
  BY DEF CancelDownload, Types
<1> QED
  BY <1>1, <1>2, <1>3 DEF CancelDownload, Types

\* A prioritized job may evict one active job.
LEMMA PrioritizeType ==
  ASSUME Types, NEW c \in Cids, Prioritize(c)
  PROVE  /\ jobs' \in [Cids -> Job]
         /\ topPriority' \in 0..MaxBumps
         /\ preempting' \subseteq Cids /\ cancelFlag' \subseteq Cids
         /\ asleep' \subseteq Callers /\ dispatcher' \in Dispatcher
<1> DEFINE top == topPriority + 1
           evict == IF jobs[c].optional THEN {} ELSE Victims(top)
<1>1. CASE UNCHANGED <<jobs, topPriority, preempting, cancelFlag, asleep, dispatcher>>
  BY <1>1 DEF Types
<1>2. CASE /\ topPriority < MaxBumps
           /\ topPriority' = top
           /\ jobs' = [jobs EXCEPT ![c].priority = top, ![c].ready = TRUE]
           /\ NotifyAll
           /\ IF evict = {} THEN UNCHANGED <<preempting, cancelFlag>>
              ELSE \E v \in evict : /\ preempting' = preempting \cup {v}
                                    /\ cancelFlag' = cancelFlag \cup {v}
  <2>1. top \in 0..MaxBumps
    BY <1>2, QueueAssumption DEF Types
  <2> HIDE DEF top
  <2>2. jobs' \in [Cids -> Job]
    <3>1. \A x \in Job, n \in 0..MaxBumps, r \in BOOLEAN :
            [x EXCEPT !.priority = n, !.ready = r] \in Job
      BY DEF Job
    <3>2. jobs \in [Cids -> Job]
      BY DEF Types
    <3>3. jobs' = [jobs EXCEPT ![c] = [jobs[c] EXCEPT !.priority = top, !.ready = TRUE]]
      BY <1>2, <3>2
    <3> QED
      BY <2>1, <3>1, <3>3, JobType
  <2>3. evict \subseteq Cids
    BY DEF Victims, Active
  <2>4. preempting' \subseteq Cids /\ cancelFlag' \subseteq Cids
    BY <1>2, <2>3 DEF Types
  <2>5. asleep' \subseteq Callers /\ dispatcher' \in Dispatcher
    BY <1>2, NotifyType
  <2> QED
    BY <1>2, <2>1, <2>2, <2>4, <2>5
<1> QED
  BY <1>1, <1>2, Zenon DEF Prioritize

LEMMA PrioritizeDownloadType ==
  ASSUME Types, NEW c \in Cids, PrioritizeDownload(c)
  PROVE  Types'
BY PrioritizeType DEF PrioritizeDownload, Types

LEMMA BumpType ==
  ASSUME Types, NEW k \in Callers, Bump(k)
  PROVE  Types'
<1>1. PICK i \in call[k].items : Prioritize(i.cid)
  BY DEF Bump
<1>2. i.cid \in Cids
  <2>1. call[k] \in Call
    BY CallType
  <2> QED
    BY <1>1, <2>1 DEF Call, Item
<1>3. call' \in [Callers -> Call]
  BY CallType DEF Bump
<1> QED
  BY <1>1, <1>2, <1>3, PrioritizeType DEF Bump, Types

LEMMA CloseQueueType ==
  ASSUME Types, CloseQueue
  PROVE  Types'
<1>1. jobs' \in [Cids -> Job]
  <2>1. \A x \in Job : [x EXCEPT !.state = "failed"] \in Job
    BY DEF Job, States
  <2>2. \A c \in Cids : jobs[c] \in Job
    BY DEF Types
  <2> QED
    BY <2>1, <2>2 DEF CloseQueue
<1>2. asleep' \subseteq Callers /\ dispatcher' \in Dispatcher
  BY NotifyType DEF CloseQueue
<1>3. userCancelled' \subseteq Cids /\ cancelFlag' \subseteq Cids
  BY DEF CloseQueue, Active, Types
<1> QED
  BY <1>1, <1>2, <1>3 DEF CloseQueue, Types

LEMMA ForgetDestsUnderType ==
  ASSUME Types, NEW f \in Folders, ForgetDestsUnder(f)
  PROVE  Types'
<1>1. jobs' \in [Cids -> Job]
  <2>1. \A x \in Job, ds \in SUBSET Paths, fs \in SUBSET Paths :
          [x EXCEPT !.dests = ds, !.forgotten = fs] \in Job
    BY DEF Job
  <2>2. \A c \in Cids : /\ jobs[c] \in Job
                        /\ jobs[c].dests \in SUBSET Paths /\ jobs[c].forgotten \in SUBSET Paths
    BY DEF Types, Job
  <2>3. jobs' = [c \in Cids |->
          [jobs[c] EXCEPT !.dests = jobs[c].dests \ Under(f),
                          !.forgotten = IF jobs[c].state = "active"
                                        THEN jobs[c].forgotten \cup (jobs[c].dests \cap Under(f))
                                        ELSE jobs[c].forgotten]]
    BY DEF ForgetDestsUnder
  <2>4. ASSUME NEW c \in Cids
        PROVE  /\ jobs[c].dests \ Under(f) \in SUBSET Paths
               /\ (IF jobs[c].state = "active"
                   THEN jobs[c].forgotten \cup (jobs[c].dests \cap Under(f))
                   ELSE jobs[c].forgotten) \in SUBSET Paths
    BY <2>2
  <2> QED
    BY <2>1, <2>2, <2>3, <2>4
<1> QED
  BY <1>1 DEF ForgetDestsUnder, Types, nodeVars

LEMMA ControlType ==
  ASSUME Types, Control
  PROVE  Types'
<1>1. ASSUME NEW c \in Cids, CancelDownload(c) \/ PrioritizeDownload(c) \/ RequestCancel(c)
                         \/ ClearCancel(c)
      PROVE  Types'
  <2>1. CASE RequestCancel(c) \/ ClearCancel(c)
    BY <2>1 DEF RequestCancel, ClearCancel, Types, queueVars
  <2> QED
    BY <1>1, <2>1, CancelDownloadType, PrioritizeDownloadType
<1>2. CASE OpenQueue
  BY <1>2 DEF OpenQueue, Types, nodeVars
<1>3. ASSUME NEW f \in Folders, NEW g \in Folders, RedirectDestsUnder(f, g)
      PROVE  Types'
  BY <1>3 DEF RedirectDestsUnder, Types, nodeVars
<1>4. ASSUME NEW f \in Folders, DropRedirectsUnder(f)
      PROVE  Types'
  BY <1>4 DEF DropRedirectsUnder, Types, nodeVars
<1>5. ASSUME NEW f \in Folders, RemoveFolder(f)
      PROVE  Types'
  <2>1. Under(f) \in SUBSET Paths
    BY DEF Under
  <2>2. disk' \in Files /\ part' \subseteq Paths
    BY <1>5, <2>1, RemovedType DEF RemoveFolder, Types
  <2> QED
    BY <1>5, <2>2 DEF RemoveFolder, Types, queueVars, nodeVars
<1>6. ASSUME NEW n \in 1..Cardinality(Slots), SetMaxConcurrentDownloads(n)
      PROVE  Types'
  <2>1. limit' \in 0..Cardinality(Slots)
    BY <1>6, QueueAssumption, FS_CardinalityType DEF SetMaxConcurrentDownloads
  <2> QED
    BY <1>6, <2>1 DEF SetMaxConcurrentDownloads, Types, queueVars
<1> QED
  BY <1>1, <1>2, <1>3, <1>4, <1>5, <1>6, CloseQueueType, ForgetDestsUnderType, Zenon DEF Control

\* Every step of the queue, its callers, dispatcher and workers keeps the types.
LEMMA NextType ==
  ASSUME Types, Aimed, [Next]_vars
  PROVE  Types'
<1>1. ASSUME NEW k \in Callers, CallerStep(k) PROVE Types'
  BY <1>1, EnqueueBeginType, EnqueueTargetType, EnqueueEndType, LatePlaceType, EnqueueNotifyType,
     BumpType, WaitType DEF CallerStep
<1>2. CASE DispatcherStep
  BY <1>2, DispatcherType, DispatchType DEF DispatcherStep
<1>3. ASSUME NEW w \in Slots, WorkerStep(w) PROVE Types'
  BY <1>3, StartFetchType, FetchReturnsType, PlaceNextType, FinishType, RetireType DEF WorkerStep
<1>4. CASE UNCHANGED vars
  BY <1>4 DEF Types, vars, queueVars, nodeVars
<1> QED
  BY <1>1, <1>2, <1>3, <1>4, BackoffElapsesType, ControlType DEF Next

--------------------------------------------------------------------------------
(* How a step changes the workers *)

\* Only the dispatcher and the workers themselves change the workers.
LEMMA WorkUnchanged ==
  ASSUME \/ \E k \in Callers : CallerStep(k)
         \/ DispatcherCheck \/ AcquireSlot \/ NothingReady
         \/ \E c \in Cids : BackoffElapses(c)
         \/ Control
         \/ UNCHANGED vars
  PROVE  UNCHANGED work
<1>1. ASSUME NEW k \in Callers, CallerStep(k) PROVE UNCHANGED work
  BY <1>1 DEF CallerStep, EnqueueBegin, EnqueueTarget, EnqueueEnd, LatePlace, EnqueueNotify, Bump,
              WaitCheck, WaitTimesOut, Return, Reuse
<1>2. CASE Control
  BY <1>2 DEF Control, CancelDownload, PrioritizeDownload, RequestCancel, ClearCancel, CloseQueue, OpenQueue,
              DropRedirectsUnder, ForgetDestsUnder, RemoveFolder, RedirectDestsUnder,
              SetMaxConcurrentDownloads
<1>3. CASE DispatcherCheck \/ AcquireSlot \/ NothingReady
  BY <1>3 DEF DispatcherCheck, AcquireSlot, NothingReady
<1>4. CASE \E c \in Cids : BackoffElapses(c)
  BY <1>4 DEF BackoffElapses
<1>5. CASE UNCHANGED vars
  BY <1>5 DEF vars
<1> QED
  BY <1>1, <1>2, <1>3, <1>4, <1>5

\* A worker's step is its own.
LEMMA OthersUnchanged ==
  ASSUME Types, NEW w \in Slots, WorkerStep(w), NEW v \in Slots, v # w
  PROVE  work'[v] = work[v]
<1>1. work \in [Slots -> Worker]
  BY DEF Types
<1>2. CASE StartFetch(w)
  BY <1>1, <1>2 DEF StartFetch
<1>3. CASE FetchReturns(w)
  BY <1>1, <1>3 DEF FetchReturns
<1>4. CASE PlaceNext(w)
  BY <1>1, <1>4 DEF PlaceNext
<1>5. CASE Finish(w)
  BY <1>1, <1>5 DEF Finish
<1>6. CASE Retire(w)
  BY <1>1, <1>6 DEF Retire
<1> QED
  BY <1>2, <1>3, <1>4, <1>5, <1>6 DEF WorkerStep

LEMMA PlaceNextStep ==
  ASSUME Types, NEW w \in Slots, PlaceNext(w)
  PROVE  \E p \in work[w].todo, bad \in BOOLEAN :
           work' = [work EXCEPT ![w] = [work[w] EXCEPT !.todo = @ \ {p}, !.bad = bad]]
<1>1. PICK p \in work[w].todo :
        \E o \in (IF work[w].verify \/ ~Exists(disk, p)
                 THEN Materialize(disk, work[w].primary, p, work[w].dir)
                 ELSE {Outcome(TRUE, disk)}) :
          work' = [work EXCEPT ![w].todo = @ \ {p}, ![w].bad = @ \/ ~o.ok]
  BY Zenon DEF PlaceNext
<1>2. PICK o : work' = [work EXCEPT ![w].todo = @ \ {p}, ![w].bad = @ \/ ~o.ok]
  BY <1>1
<1>3. work \in [Slots -> Worker] /\ work[w] \in Worker
  BY DEF Types
<1>4. work' = [work EXCEPT ![w] = [work[w] EXCEPT !.todo = @ \ {p}, !.bad = work[w].bad \/ ~o.ok]]
  BY <1>2, <1>3
<1>5. (work[w].bad \/ ~o.ok) \in BOOLEAN
  OBVIOUS
<1> QED
  BY <1>4, <1>5, Zenon

\* A fetch goes on under the same CID until Finish.
LEMMA FetchGoesOn ==
  ASSUME Types, NEW w \in Slots, StartFetch(w) \/ FetchReturns(w) \/ PlaceNext(w)
  PROVE  /\ work[w].pc \in {"start", "fetch", "place"}
         /\ work'[w].pc \in {"fetch", "place"}
         /\ work'[w].cid = work[w].cid
         /\ jobs' = jobs /\ preempting' = preempting /\ userCancelled' = userCancelled
<1>1. work \in [Slots -> Worker] /\ work[w] \in Worker
  BY DEF Types
<1>2. CASE StartFetch(w)
  <2>1. PICK x \in {[work[w] EXCEPT !.pc = "place", !.rc = 2]} \cup
                  {[work[w] EXCEPT !.pc = "place", !.primary = p, !.todo = work[w].dests \ {p}] :
                     p \in work[w].dests} \cup
                  {[work[w] EXCEPT !.pc = "fetch", !.primary = p] : p \in work[w].dests} :
          work' = [work EXCEPT ![w] = x]
    <3>1. PICK p \in work[w].dests \cup {NoPath} :
            work' = [work EXCEPT ![w] =
              IF p = NoPath THEN [work[w] EXCEPT !.pc = "place", !.rc = 2]
              ELSE IF Shortcut(work[w], p)
                   THEN [work[w] EXCEPT !.pc = "place", !.primary = p, !.todo = work[w].dests \ {p}]
                   ELSE [work[w] EXCEPT !.pc = "fetch", !.primary = p]]
      BY <1>2, StartFetchStep
    <3> QED
      BY <3>1
  <2>2. x.pc \in {"fetch", "place"} /\ x.cid = work[w].cid
    <3>1. LET r == [work[w] EXCEPT !.pc = "place", !.rc = 2]
          IN r.pc = "place" /\ r.cid = work[w].cid
      BY <1>1 DEF Worker
    <3>2. \A p, d : LET r == [work[w] EXCEPT !.pc = "place", !.primary = p, !.todo = d]
                    IN r.pc = "place" /\ r.cid = work[w].cid
      BY <1>1 DEF Worker
    <3>3. \A p : LET r == [work[w] EXCEPT !.pc = "fetch", !.primary = p]
                 IN r.pc = "fetch" /\ r.cid = work[w].cid
      BY <1>1 DEF Worker
    <3>4. CASE x = [work[w] EXCEPT !.pc = "place", !.rc = 2]
      BY <3>1, <3>4
    <3>5. ASSUME NEW p, x = [work[w] EXCEPT !.pc = "place", !.primary = p, !.todo = work[w].dests \ {p}]
          PROVE  x.pc = "place" /\ x.cid = work[w].cid
      BY <3>2, <3>5
    <3>6. ASSUME NEW p, x = [work[w] EXCEPT !.pc = "fetch", !.primary = p]
          PROVE  x.pc = "fetch" /\ x.cid = work[w].cid
      BY <3>3, <3>6
    <3>7. \/ x = [work[w] EXCEPT !.pc = "place", !.rc = 2]
          \/ \E p : x = [work[w] EXCEPT !.pc = "place", !.primary = p, !.todo = work[w].dests \ {p}]
          \/ \E p : x = [work[w] EXCEPT !.pc = "fetch", !.primary = p]
      BY <2>1, Zenon
    <3> QED
      BY <3>4, <3>5, <3>6, <3>7
  <2> QED
    BY <1>1, <1>2, <2>1, <2>2 DEF StartFetch, queueVars
<1>3. CASE FetchReturns(w)
  BY <1>1, <1>3 DEF FetchReturns, Worker, queueVars
<1>4. CASE PlaceNext(w)
  <2>1. PICK p \in work[w].todo, bad \in BOOLEAN :
          work' = [work EXCEPT ![w] = [work[w] EXCEPT !.todo = @ \ {p}, !.bad = bad]]
    BY <1>4, PlaceNextStep
  <2>2. work'[w].pc = work[w].pc /\ work'[w].cid = work[w].cid
    BY <1>1, <2>1 DEF Worker
  <2> QED
    BY <1>4, <2>2 DEF PlaceNext, queueVars
<1> QED
  BY <1>2, <1>3, <1>4

\* Finish ends a fetch, Retire a worker.
LEMMA FetchEnds ==
  ASSUME Types, NEW w \in Slots, Finish(w) \/ Retire(w)
  PROVE  /\ work[w].pc \in {"place", "notify"}
         /\ work'[w].pc \in {"notify", "free"} /\ work'[w].todo = {}
<1>1. work \in [Slots -> Worker]
  BY DEF Types
<1>2. CASE Finish(w)
  BY <1>1, <1>2 DEF Finish, NoWork
<1>3. CASE Retire(w)
  BY <1>1, <1>3 DEF Retire, NoWork
<1> QED
  BY <1>2, <1>3

\* Dispatch starts a worker for the job it makes active, in a free slot.
LEMMA Dispatched ==
  ASSUME Types, NEW w \in Slots, NEW c \in Cids, Dispatch(w, c)
  PROVE  /\ work[w].pc = "free" /\ jobs[c].state = "queued"
         /\ work'[w].pc = "start" /\ work'[w].cid = c /\ work'[w].todo = {}
         /\ \A v \in Slots \ {w} : work'[v] = work[v]
         /\ jobs' = [jobs EXCEPT ![c].state = "active"]
         /\ preempting' = preempting /\ userCancelled' = userCancelled
<1>1. work \in [Slots -> Worker]
  BY DEF Types
<1> QED
  BY <1>1 DEF Dispatch, NoWork, PickReady, Ready

--------------------------------------------------------------------------------
(* Workers know what they write *)

LEMMA AimedInit == Init => Aimed
BY DEF Init, Aimed, NoWork, Running

\* StartFetch picks the primary before anything is written.
LEMMA StartFetchAims ==
  ASSUME Types, Aimed, NEW w \in Slots, StartFetch(w)
  PROVE  work'[w].pc = "fetch" \/ work'[w].todo # {} => work'[w].primary \in Paths
<1> DEFINE job == work[w]
<1>1. PICK p \in job.dests \cup {NoPath} : work' = [work EXCEPT ![w] =
        IF p = NoPath THEN [job EXCEPT !.pc = "place", !.rc = 2]
        ELSE IF Shortcut(job, p)
             THEN [job EXCEPT !.pc = "place", !.primary = p, !.todo = job.dests \ {p}]
             ELSE [job EXCEPT !.pc = "fetch", !.primary = p]]
  BY StartFetchStep
<1>2. work \in [Slots -> Worker] /\ job \in Worker
  BY DEF Types
<1>3. p # NoPath => p \in Paths
  BY <1>2 DEF Worker
<1>4. job.todo # {} => job.primary \in Paths
  BY DEF Aimed
<1>5. work'[w] = IF p = NoPath THEN [job EXCEPT !.pc = "place", !.rc = 2]
                 ELSE IF Shortcut(job, p)
                      THEN [job EXCEPT !.pc = "place", !.primary = p, !.todo = job.dests \ {p}]
                      ELSE [job EXCEPT !.pc = "fetch", !.primary = p]
  BY <1>1, <1>2
<1> HIDE DEF job
<1> QED
  BY <1>2, <1>3, <1>4, <1>5 DEF Worker

\* FetchReturns and PlaceNext go on with that primary.
LEMMA PlacingAims ==
  ASSUME Types, Aimed, NEW w \in Slots, FetchReturns(w) \/ PlaceNext(w)
  PROVE  work'[w].pc = "fetch" \/ work'[w].todo # {} => work'[w].primary \in Paths
<1>1. work \in [Slots -> Worker] /\ work[w] \in Worker
  BY DEF Types
<1>2. CASE FetchReturns(w)
  <2>1. work[w].primary \in Paths
    BY <1>2 DEF FetchReturns, Aimed
  <2>2. work'[w].primary = work[w].primary
    BY <1>1, <1>2 DEF FetchReturns, Worker
  <2> QED
    BY <2>1, <2>2
<1>3. CASE PlaceNext(w)
  <2>1. work[w].todo # {}
    BY <1>3 DEF PlaceNext
  <2>2. PICK p \in work[w].todo, bad \in BOOLEAN :
          work' = [work EXCEPT ![w] = [work[w] EXCEPT !.todo = @ \ {p}, !.bad = bad]]
    BY <1>3, PlaceNextStep
  <2>3. work'[w].primary = work[w].primary
    BY <1>1, <2>2 DEF Worker
  <2> QED
    BY <2>1, <2>3 DEF Aimed
<1> QED
  BY <1>2, <1>3

LEMMA AimedNext ==
  ASSUME Types, Aimed, [Next]_vars
  PROVE  Aimed'
<1> DEFINE Aims(x) == /\ x.pc \in {"start", "fetch", "place"} => x.cid \in Cids
                      /\ x.pc = "fetch" \/ x.todo # {} => x.primary \in Paths
<1>1. \A v \in Slots : Aims(work[v])
  BY DEF Aimed, Running
<1> SUFFICES ASSUME NEW v \in Slots PROVE Aims(work'[v])
  BY DEF Aimed, Running
<1>2. CASE UNCHANGED work
  BY <1>1, <1>2
<1>3. ASSUME NEW w \in Slots, NEW c \in Cids, Dispatch(w, c) PROVE Aims(work'[v])
  <2>1. CASE v = w
    BY <1>3, <2>1, Dispatched
  <2>2. CASE v # w
    <3>1. work'[v] = work[v]
      BY <1>3, <2>2, Dispatched
    <3> QED
      BY <1>1, <3>1
  <2> QED
    BY <2>1, <2>2
<1>4. ASSUME NEW w \in Slots, WorkerStep(w) PROVE Aims(work'[v])
  <2>1. CASE v # w
    <3>1. work'[v] = work[v]
      BY <1>4, <2>1, OthersUnchanged
    <3> QED
      BY <1>1, <3>1
  <2>2. CASE v = w /\ (StartFetch(w) \/ FetchReturns(w) \/ PlaceNext(w))
    <3>1. work'[w].pc = "fetch" \/ work'[w].todo # {} => work'[w].primary \in Paths
      BY <2>2, StartFetchAims, PlacingAims
    <3>2. work[w].pc \in {"start", "fetch", "place"} /\ work'[w].cid = work[w].cid
      BY <2>2, FetchGoesOn
    <3> QED
      BY <1>1, <2>2, <3>1, <3>2
  <2>3. CASE v = w /\ (Finish(w) \/ Retire(w))
    BY <2>3, FetchEnds
  <2> QED
    BY <1>4, <2>1, <2>2, <2>3 DEF WorkerStep
<1> QED
  BY <1>2, <1>3, <1>4, WorkUnchanged DEF Next, DispatcherStep

--------------------------------------------------------------------------------
(* Type correctness *)

\* Every variable of the queue keeps its type, and a worker writes only to a
\* destination it took from its job: whatever the number of CIDs, paths, callers
\* and slots, and whatever the node and the filesystem answer.
THEOREM TypeCorrect == Spec => []TypeOK
<1>1. Init => TypeOK
  BY InitType, AimedInit DEF TypeOK
<1>2. TypeOK /\ [Next]_vars => TypeOK'
  BY NextType, AimedNext DEF TypeOK
<1> QED
  BY <1>1, <1>2, PTL DEF Spec

--------------------------------------------------------------------------------
(* How a step changes the jobs *)

\* A job changed without being dispatched or asked for: it does not become
\* active, and it gains no destination.
Quiet(c) == /\ jobs'[c].state = "active" => jobs[c].state = "active"
            /\ jobs'[c].dests \subseteq jobs[c].dests

LEMMA StateChangeQuiet ==
  ASSUME Types, NEW c \in Cids, NEW s \in States \ {"active"},
         jobs' = [jobs EXCEPT ![c].state = s], NEW b \in Cids
  PROVE  Quiet(b)
BY DEF Types, Job, Quiet

\* Whatever a target does to an entry, it does not make it active, and it adds
\* its own path only.
LEMMA EntryQuiet ==
  ASSUME Types, NEW c \in Cids, NEW p \in Paths, NEW t \in Target,
         NEW e \in (IF jobs[c].state = "none" THEN FirstEntry(p, t) ELSE Join(jobs[c], p, t))
  PROVE  /\ e.job.state = "active" => jobs[c].state = "active"
         /\ e.job.dests \subseteq jobs[c].dests \cup {p}
<1> DEFINE j == jobs[c]
           m == [j EXCEPT !.optional = @ /\ t.optional, !.verify = @ \/ t.verify]
           add == [m EXCEPT !.dests = @ \cup {p}]
           again == Requeued(m, p)
<1>1. j \in Job
  BY JobType
<1>2. /\ m.state = j.state /\ m.dests = j.dests
      /\ add.state = j.state /\ add.dests = j.dests \cup {p}
      /\ again.state = "queued" /\ again.dests = j.dests \cup {p}
  <2>1. m.state = j.state /\ m.dests = j.dests
    BY <1>1 DEF Job
  <2>2. \A x \in Job, o \in BOOLEAN, v \in BOOLEAN : [x EXCEPT !.optional = o, !.verify = v] \in Job
    BY DEF Job
  <2>3. m \in Job
    BY <1>1, <2>2
  <2> HIDE DEF m
  <2> QED
    BY <2>1, <2>3 DEF Requeued, Job
<1>3. again \in Job
  <2>1. \A x \in Job, o \in BOOLEAN, v \in BOOLEAN : [x EXCEPT !.optional = o, !.verify = v] \in Job
    BY DEF Job
  <2>2. m \in Job
    BY <1>1, <2>1
  <2> QED
    BY <2>2, RequeuedType
<1>4. j.state \in {"none", "queued", "active", "done", "failed"}
  BY <1>1 DEF Job, States
<1> HIDE DEF m, add, again
<1>5. CASE j.state = "none"
  <2> DEFINE new(s) == [NoJob EXCEPT !.state = s, !.dests = {p}, !.optional = t.optional,
                                     !.dir = t.dir, !.verify = t.verify]
  <2>1. e \in FirstEntry(p, t)
    BY <1>5
  <2>2. e \in {[job |-> new("queued"), fresh |-> TRUE, from |-> NoPath],
                [job |-> new("done"), fresh |-> FALSE, from |-> NoPath]}
    BY <2>1, Zenon DEF FirstEntry
  <2>3. e.job = new("queued") \/ e.job = new("done")
    BY <2>2
  <2>4. \A s \in States : new(s).state = s /\ new(s).dests = {p}
    BY DEF NoJob
  <2> QED
    BY <2>3, <2>4 DEF States
<1>6. CASE j.state \in {"queued", "active"}
  <2>1. e.job = add
    BY <1>6 DEF Join, m, add
  <2> QED
    BY <1>2, <2>1
<1>7. CASE j.state = "done"
  <2>1. e.job \in {m, add, again}
    BY <1>7 DEF Join, m, add, again
  <2> QED
    BY <1>2, <1>7, <2>1
<1>8. CASE j.state = "failed"
  <2>1. e.job = [again EXCEPT !.priority = 0, !.tried = FALSE, !.ready = TRUE]
    BY <1>8 DEF Join, m, again
  <2>2. e.job.state = again.state /\ e.job.dests = again.dests
    BY <1>3, <2>1 DEF Job
  <2> QED
    BY <1>2, <2>2
<1> QED
  BY <1>4, <1>5, <1>6, <1>7, <1>8

\* EnqueueTarget changes one job, and takes its path from every other one.
LEMMA EnqueueTargetStep ==
  ASSUME Types, NEW k \in Callers, EnqueueTarget(k)
  PROVE  /\ preempting' = preempting /\ userCancelled' = userCancelled
         /\ \/ \A b \in Cids : Quiet(b)
            \/ \E c \in Cids, p \in Paths :
                 /\ jobs'[c].state = "active" => jobs[c].state = "active"
                 /\ jobs'[c].dests \subseteq jobs[c].dests \cup {p}
                 /\ \A b \in Cids \ {c} : Quiet(b) /\ p \notin jobs'[b].dests
<1> DEFINE path(t) == IF t.dir THEN t.path ELSE Redirected(t.path)
           entry(t) == IF jobs[t.cid].state = "none" THEN FirstEntry(path(t), t)
                                                     ELSE Join(jobs[t.cid], path(t), t)
<1>1. PICK t \in call[k].todo :
        \/ jobs' = [jobs EXCEPT ![t.cid].state = IF @ = "done" THEN @ ELSE "failed"]
        \/ \E e \in entry(t) :
             jobs' = [ClaimDest(jobs, t.cid, path(t)) EXCEPT ![t.cid] = e.job]
  BY ZenonT(60) DEF EnqueueTarget
<1>2. t \in Target
  BY CallType, <1>1 DEF Call
<1>3. t.cid \in Cids /\ t.path \in Paths
  BY <1>2 DEF Target
<1>4. path(t) \in Paths
  BY <1>3, RedirectedType
<1>5. CASE jobs' = [jobs EXCEPT ![t.cid].state = IF @ = "done" THEN @ ELSE "failed"]
  <2>1. (IF jobs[t.cid].state = "done" THEN jobs[t.cid].state ELSE "failed") \in States \ {"active"}
    BY DEF States
  <2>2. \A b \in Cids : Quiet(b)
    BY <1>3, <1>5, <2>1, StateChangeQuiet
  <2> QED
    BY <2>2 DEF EnqueueTarget
<1>6. CASE \E e \in entry(t) : jobs' = [ClaimDest(jobs, t.cid, path(t)) EXCEPT ![t.cid] = e.job]
  <2> DEFINE c == t.cid
             p == path(t)
  <2>1. PICK e \in entry(t) : jobs' = [ClaimDest(jobs, c, p) EXCEPT ![c] = e.job]
    BY <1>6
  <2>2. /\ e.job.state = "active" => jobs[c].state = "active"
        /\ e.job.dests \subseteq jobs[c].dests \cup {p}
    BY <1>2, <1>3, <1>4, <2>1, EntryQuiet
  <2> HIDE DEF path, entry
  <2>3. jobs'[c] = e.job
    BY <1>3, <2>1 DEF ClaimDest
  <2>4. ASSUME NEW b \in Cids \ {c} PROVE Quiet(b) /\ p \notin jobs'[b].dests
    <3>1. jobs'[b] = [jobs[b] EXCEPT !.dests = @ \ {p}]
      BY <2>1 DEF ClaimDest
    <3>2. jobs[b] \in Job
      BY JobType
    <3> QED
      BY <3>1, <3>2 DEF Quiet, Job
  <2> QED
    BY <1>3, <1>4, <2>2, <2>3, <2>4 DEF EnqueueTarget
<1> QED
  BY <1>1, <1>5, <1>6

LEMMA SettledQuiet ==
  ASSUME NEW j \in Job, NEW w \in Slots
  PROVE  Settled(j, w).state # "active" /\ Settled(j, w).dests = j.dests
<1>1. \A s \in {"failed", "done"} : /\ [j EXCEPT !.state = s].state # "active"
                                    /\ [j EXCEPT !.state = s].dests = j.dests
  BY DEF Job
<1>2. \A penalty \in BOOLEAN : /\ Rotated(j, penalty).state # "active"
                               /\ Rotated(j, penalty).dests = j.dests
  BY DEF Rotated, Job
<1>3. /\ Rotated(j, TRUE).state # "active" /\ Rotated(j, TRUE).dests = j.dests
      /\ Rotated(j, FALSE).state # "active" /\ Rotated(j, FALSE).dests = j.dests
  BY <1>2
<1> QED
  BY <1>1, <1>3 DEF Settled

\* Finish ends the job's turn and drops the marks made for it.
LEMMA FinishStep ==
  ASSUME Types, Aimed, NEW w \in Slots, Finish(w)
  PROVE  /\ work[w].cid \in Cids
         /\ jobs'[work[w].cid].state # "active"
         /\ preempting' = preempting \ {work[w].cid}
         /\ userCancelled' = userCancelled \ {work[w].cid}
         /\ \A b \in Cids : Quiet(b)
<1> DEFINE c == work[w].cid
           j == [jobs[c] EXCEPT !.forgotten = {}]
<1>1. c \in Cids
  BY DEF Finish, Aimed, Running
<1>2. jobs' = [jobs EXCEPT ![c] = Settled(j, w)]
  BY Zenon DEF Finish
<1>3. j \in Job /\ j.dests = jobs[c].dests
  BY <1>1, JobType DEF Job
<1>4. Settled(j, w).state # "active" /\ Settled(j, w).dests = jobs[c].dests
  BY <1>3, SettledQuiet
<1> HIDE DEF j
<1>5. jobs \in [Cids -> Job]
  BY DEF Types
<1>6. \A b \in Cids : Quiet(b)
  BY <1>1, <1>2, <1>4, <1>5 DEF Quiet
<1> QED
  BY <1>1, <1>2, <1>4, <1>5, <1>6 DEF Finish

\* Prioritize marks an active job, if any.
LEMMA PrioritizeStep ==
  ASSUME Types, NEW c \in Cids, Prioritize(c)
  PROVE  preempting' \subseteq preempting \cup Active /\ \A b \in Cids : Quiet(b)
<1> DEFINE top == topPriority + 1
           evict == IF jobs[c].optional THEN {} ELSE Victims(top)
<1>1. CASE UNCHANGED <<jobs, topPriority, preempting, cancelFlag, asleep, dispatcher>>
  BY <1>1 DEF Quiet
<1>2. CASE /\ jobs' = [jobs EXCEPT ![c].priority = top, ![c].ready = TRUE]
           /\ IF evict = {} THEN UNCHANGED <<preempting, cancelFlag>>
              ELSE \E v \in evict : /\ preempting' = preempting \cup {v}
                                    /\ cancelFlag' = cancelFlag \cup {v}
  <2>1. evict \subseteq Active
    BY DEF Victims
  <2>2. \A b \in Cids : Quiet(b)
    BY <1>2 DEF Types, Job, Quiet
  <2> QED
    BY <1>2, <2>1, <2>2
<1> QED
  BY <1>1, <1>2, Zenon DEF Prioritize

\* The other steps of callers and users: no job becomes active, and only active
\* jobs are marked.
LEMMA CallerControlStep ==
  ASSUME Types,
         \/ \E k \in Callers : CallerStep(k) /\ ~EnqueueTarget(k)
         \/ Control
  PROVE  /\ preempting' \subseteq preempting \cup Active
         /\ userCancelled' \subseteq userCancelled \cup Active
         /\ \A b \in Cids : Quiet(b)
<1>1. ASSUME NEW k \in Callers, LatePlace(k)
      PROVE  UNCHANGED <<preempting, userCancelled>> /\ \A b \in Cids : Quiet(b)
  <2>1. PICK l \in call[k].late : \/ jobs' = jobs
                                  \/ jobs' = [jobs EXCEPT ![l.cid].state = "failed"]
    BY <1>1, Zenon DEF LatePlace
  <2>2. l.cid \in Cids
    <3>1. call[k] \in Call
      BY CallType
    <3> QED
      BY <2>1, <3>1 DEF Call, Late
  <2>3. \A b \in Cids : Quiet(b)
    BY <2>1, <2>2, StateChangeQuiet DEF States, Quiet
  <2> QED
    BY <1>1, <2>3 DEF LatePlace
<1>2. ASSUME NEW k \in Callers, Bump(k)
      PROVE  /\ preempting' \subseteq preempting \cup Active /\ UNCHANGED userCancelled
             /\ \A b \in Cids : Quiet(b)
  <2>1. PICK i \in call[k].items : Prioritize(i.cid)
    BY <1>2 DEF Bump
  <2>2. i.cid \in Cids
    <3>1. call[k] \in Call
      BY CallType
    <3> QED
      BY <2>1, <3>1 DEF Call, Item
  <2> QED
    BY <1>2, <2>1, <2>2, PrioritizeStep DEF Bump
<1>3. ASSUME NEW k \in Callers, CallerStep(k), ~EnqueueTarget(k), ~LatePlace(k), ~Bump(k)
      PROVE  UNCHANGED <<preempting, userCancelled, jobs>>
  BY <1>3 DEF CallerStep, EnqueueBegin, EnqueueEnd, EnqueueNotify, WaitCheck, WaitTimesOut, Return,
              Reuse, queueVars
<1>4. ASSUME NEW c \in Cids, CancelDownload(c)
      PROVE  /\ preempting' = preempting /\ userCancelled' \subseteq userCancelled \cup Active
             /\ \A b \in Cids : Quiet(b)
  <2>1. \A b \in Cids : Quiet(b)
    BY <1>4, StateChangeQuiet DEF CancelDownload, States, Quiet
  <2> QED
    BY <1>4, <2>1 DEF CancelDownload, Active
<1>5. ASSUME NEW c \in Cids, PrioritizeDownload(c)
      PROVE  /\ preempting' \subseteq preempting \cup Active /\ UNCHANGED userCancelled
             /\ \A b \in Cids : Quiet(b)
  BY <1>5, PrioritizeStep DEF PrioritizeDownload
<1>6. CASE CloseQueue
  <2>1. ASSUME NEW b \in Cids PROVE Quiet(b)
    <3>1. jobs[b] \in Job
      BY JobType
    <3>2. jobs'[b] = IF jobs[b].state = "queued" THEN [jobs[b] EXCEPT !.state = "failed"] ELSE jobs[b]
      BY <1>6 DEF CloseQueue
    <3> QED
      BY <3>1, <3>2 DEF Job, Quiet
  <2> QED
    BY <1>6, <2>1 DEF CloseQueue
<1>7. ASSUME NEW f \in Folders, ForgetDestsUnder(f)
      PROVE  UNCHANGED <<preempting, userCancelled>> /\ \A b \in Cids : Quiet(b)
  <2>1. ASSUME NEW b \in Cids PROVE Quiet(b)
    <3>1. jobs[b] \in Job
      BY JobType
    <3>2. jobs'[b] = [jobs[b] EXCEPT !.dests = @ \ Under(f),
                        !.forgotten = IF jobs[b].state = "active"
                                      THEN @ \cup (jobs[b].dests \cap Under(f)) ELSE @]
      BY <1>7 DEF ForgetDestsUnder
    <3>3. jobs'[b].state = jobs[b].state /\ jobs'[b].dests = jobs[b].dests \ Under(f)
      BY <3>1, <3>2 DEF Job
    <3> QED
      BY <3>3 DEF Quiet
  <2> QED
    BY <1>7, <2>1 DEF ForgetDestsUnder
<1>8. CASE /\ Control /\ ~CloseQueue
           /\ ~\E c \in Cids : CancelDownload(c) \/ PrioritizeDownload(c)
           /\ ~\E f \in Folders : ForgetDestsUnder(f)
  <2>1. UNCHANGED <<preempting, userCancelled, jobs>>
    BY <1>8 DEF Control, RequestCancel, ClearCancel, OpenQueue, DropRedirectsUnder, RemoveFolder,
                RedirectDestsUnder, SetMaxConcurrentDownloads, queueVars
  <2> QED
    BY <2>1 DEF Quiet
<1>9. CASE \E k \in Callers : CallerStep(k) /\ ~EnqueueTarget(k)
  BY <1>1, <1>2, <1>3, <1>9 DEF Quiet
<1>10. CASE Control
  BY <1>4, <1>5, <1>6, <1>7, <1>8, <1>10
<1> QED
  BY <1>9, <1>10

--------------------------------------------------------------------------------
(* Every active job, and every mark, has a worker *)

\* A fetch in flight stays so until its own Finish.
LEMMA RunsOn ==
  ASSUME Types, [Next]_vars, NEW v \in Slots, NEW c \in Cids, Runs(v, c), ~Finish(v)
  PROVE  Runs(v, c)'
<1>1. CASE UNCHANGED work
  BY <1>1 DEF Runs, Running
<1>2. ASSUME NEW w \in Slots, NEW b \in Cids, Dispatch(w, b) PROVE Runs(v, c)'
  <2>1. v # w /\ work'[v] = work[v]
    BY <1>2, Dispatched DEF Runs, Running
  <2> QED
    BY <2>1 DEF Runs, Running
<1>3. ASSUME NEW w \in Slots, WorkerStep(w) PROVE Runs(v, c)'
  <2>1. CASE v # w
    <3>1. work'[v] = work[v]
      BY <1>3, <2>1, OthersUnchanged
    <3> QED
      BY <3>1 DEF Runs, Running
  <2>2. CASE v = w
    <3>1. ~Retire(w)
      BY <2>2 DEF Retire, Runs, Running
    <3>2. StartFetch(w) \/ FetchReturns(w) \/ PlaceNext(w)
      BY <1>3, <2>2, <3>1 DEF WorkerStep
    <3> QED
      BY <2>2, <3>2, FetchGoesOn DEF Runs, Running
  <2> QED
    BY <2>1, <2>2
<1> QED
  BY <1>1, <1>2, <1>3, WorkUnchanged DEF Next, DispatcherStep

\* Only a Dispatch makes a job active, and only an active job is marked.
LEMMA ActiveFrom ==
  ASSUME Types, Aimed, [Next]_vars, NEW b \in Cids, jobs'[b].state = "active"
  PROVE  jobs[b].state = "active" \/ \E w \in Slots : Dispatch(w, b)
<1>1. ASSUME NEW k \in Callers, EnqueueTarget(k) PROVE jobs[b].state = "active"
  BY <1>1, EnqueueTargetStep DEF Quiet
<1>2. CASE Control \/ \E k \in Callers : CallerStep(k) /\ ~EnqueueTarget(k)
  BY <1>2, CallerControlStep DEF Quiet
<1>3. ASSUME NEW w \in Slots, NEW c \in Cids, Dispatch(w, c), b # c PROVE jobs[b].state = "active"
  BY <1>3, Dispatched DEF Types
<1>4. ASSUME NEW w \in Slots, WorkerStep(w) PROVE jobs[b].state = "active"
  <2>1. CASE StartFetch(w) \/ FetchReturns(w) \/ PlaceNext(w)
    BY <2>1, FetchGoesOn
  <2>2. CASE Finish(w)
    BY <2>2, FinishStep DEF Quiet
  <2>3. CASE Retire(w)
    BY <2>3 DEF Retire, queueVars
  <2> QED
    BY <1>4, <2>1, <2>2, <2>3 DEF WorkerStep
<1>5. ASSUME NEW c \in Cids, BackoffElapses(c) PROVE jobs[b].state = "active"
  BY <1>5 DEF BackoffElapses, Types, Job
<1>6. CASE DispatcherCheck \/ AcquireSlot \/ NothingReady \/ UNCHANGED vars
  BY <1>6 DEF DispatcherCheck, AcquireSlot, NothingReady, vars, queueVars
<1> QED
  BY <1>1, <1>2, <1>3, <1>4, <1>5, <1>6 DEF Next, DispatcherStep

LEMMA MarkedFrom ==
  ASSUME Types, Aimed, [Next]_vars, ~\E w \in Slots : Finish(w)
  PROVE  preempting' \cup userCancelled' \subseteq preempting \cup userCancelled \cup Active
<1>1. ASSUME NEW k \in Callers, EnqueueTarget(k)
      PROVE  UNCHANGED <<preempting, userCancelled>>
  BY <1>1, EnqueueTargetStep
<1>2. CASE Control \/ \E k \in Callers : CallerStep(k) /\ ~EnqueueTarget(k)
  BY <1>2, CallerControlStep
<1>3. ASSUME NEW w \in Slots, NEW c \in Cids, Dispatch(w, c)
      PROVE  UNCHANGED <<preempting, userCancelled>>
  BY <1>3, Dispatched
<1>4. ASSUME NEW w \in Slots, WorkerStep(w) PROVE UNCHANGED <<preempting, userCancelled>>
  BY <1>4, FetchGoesOn DEF WorkerStep, Retire, queueVars
<1>5. ASSUME NEW c \in Cids, BackoffElapses(c) PROVE UNCHANGED <<preempting, userCancelled>>
  BY <1>5 DEF BackoffElapses
<1>6. CASE DispatcherCheck \/ AcquireSlot \/ NothingReady \/ UNCHANGED vars
  BY <1>6 DEF DispatcherCheck, AcquireSlot, NothingReady, vars, queueVars
<1> QED
  BY <1>1, <1>2, <1>3, <1>4, <1>5, <1>6 DEF Next, DispatcherStep

Worked == TypeOK /\ ActiveHasWorker /\ MarksHaveWorker

LEMMA WorkedInit == Init => Worked
<1> SUFFICES ASSUME Init PROVE ActiveHasWorker /\ MarksHaveWorker
  BY InitType, AimedInit DEF Worked, TypeOK
<1> QED
  BY DEF Init, NoJob, ActiveHasWorker, MarksHaveWorker

LEMMA WorkedNext ==
  ASSUME Worked, [Next]_vars
  PROVE  Worked'
<1> USE DEF Worked
<1>1. Types /\ Aimed /\ TypeOK'
  BY NextType, AimedNext DEF TypeOK
<1>2. ASSUME NEW w \in Slots, Finish(w) PROVE ActiveHasWorker' /\ MarksHaveWorker'
  <2> DEFINE c == work[w].cid
  <2>1. ASSUME NEW b \in Cids \ {c}, NEW v \in Slots, Runs(v, b) PROVE Runs(v, b)'
    <3>1. v # w
      BY <2>1 DEF Runs
    <3>2. work'[v] = work[v]
      BY <1>1, <1>2, <3>1, OthersUnchanged DEF WorkerStep
    <3> QED
      BY <2>1, <3>2 DEF Runs, Running
  <2>2. ActiveHasWorker'
    BY <1>1, <1>2, <2>1, FinishStep DEF ActiveHasWorker, Quiet
  <2>3. MarksHaveWorker'
    BY <1>1, <1>2, <2>1, FinishStep DEF MarksHaveWorker, Types
  <2> QED
    BY <2>2, <2>3
<1>3. CASE ~\E w \in Slots : Finish(w)
  <2>1. \A v \in Slots, b \in Cids : Runs(v, b) => Runs(v, b)'
    BY <1>1, <1>3, RunsOn
  <2>2. ActiveHasWorker'
    <3> SUFFICES ASSUME NEW b \in Cids, jobs'[b].state = "active"
                 PROVE  \E v \in Slots : Runs(v, b)'
      BY DEF ActiveHasWorker
    <3>1. CASE jobs[b].state = "active"
      BY <2>1, <3>1 DEF ActiveHasWorker
    <3>2. ASSUME NEW w \in Slots, Dispatch(w, b) PROVE Runs(w, b)'
      BY <1>1, <3>2, Dispatched DEF Runs, Running
    <3> QED
      BY <1>1, <3>1, <3>2, ActiveFrom
  <2>3. MarksHaveWorker'
    <3>1. preempting' \cup userCancelled' \subseteq preempting \cup userCancelled \cup Active
      BY <1>1, <1>3, MarkedFrom
    <3>2. \A b \in preempting \cup userCancelled \cup Active : \E v \in Slots : Runs(v, b)
      BY DEF ActiveHasWorker, MarksHaveWorker, Active
    <3>3. preempting \cup userCancelled \cup Active \subseteq Cids
      BY <1>1 DEF Types, Active
    <3> QED
      BY <2>1, <3>1, <3>2, <3>3 DEF MarksHaveWorker
  <2> QED
    BY <1>1, <2>2, <2>3
<1> QED
  BY <1>1, <1>2, <1>3

\* No download is stranded and no mark outlives its fetch: a job the queue calls
\* Active, and a CID in Q().Preempting or Q().UserCancelled, has a worker in flight
\* that will settle it, through cancels, preemptions, closing, and failed late
\* placements, for any callers, slots and CIDs.
THEOREM FetchesHaveWorkers == Spec => []JobsHaveWorkers
<1>1. Worked => JobsHaveWorkers
  BY DEF Worked, JobsHaveWorkers
<1> QED
  BY <1>1, WorkedInit, WorkedNext, PTL DEF Spec

--------------------------------------------------------------------------------
(* A path has one owner *)

LEMMA OwnerNext ==
  ASSUME TypeOK, PathHasOneOwner, [Next]_vars
  PROVE  PathHasOneOwner'
<1>1. Types /\ Aimed
  BY DEF TypeOK
<1>2. CASE \A b \in Cids : jobs'[b].dests \subseteq jobs[b].dests
  BY <1>2 DEF PathHasOneOwner
<1>3. ASSUME NEW k \in Callers, EnqueueTarget(k) PROVE PathHasOneOwner'
  <2>1. CASE \A b \in Cids : Quiet(b)
    BY <1>2, <2>1 DEF Quiet
  <2>2. ASSUME NEW c \in Cids, NEW p \in Paths,
               jobs'[c].dests \subseteq jobs[c].dests \cup {p},
               \A b \in Cids \ {c} : Quiet(b) /\ p \notin jobs'[b].dests
        PROVE  PathHasOneOwner'
    BY <2>2 DEF PathHasOneOwner, Quiet
  <2> QED
    BY <1>1, <1>3, <2>1, <2>2, EnqueueTargetStep
<1>4. CASE Control \/ \E k \in Callers : CallerStep(k) /\ ~EnqueueTarget(k)
  BY <1>1, <1>2, <1>4, CallerControlStep DEF Quiet
<1>5. ASSUME NEW w \in Slots, NEW c \in Cids, Dispatch(w, c) PROVE PathHasOneOwner'
  <2>1. \A b \in Cids : jobs'[b].dests = jobs[b].dests
    BY <1>1, <1>5, Dispatched DEF Types, Job
  <2> QED
    BY <1>2, <2>1
<1>6. ASSUME NEW w \in Slots, WorkerStep(w) PROVE PathHasOneOwner'
  <2>1. CASE StartFetch(w) \/ FetchReturns(w) \/ PlaceNext(w)
    BY <1>1, <1>2, <2>1, FetchGoesOn
  <2>2. CASE Finish(w)
    BY <1>1, <1>2, <2>2, FinishStep DEF Quiet
  <2>3. CASE Retire(w)
    BY <1>2, <2>3 DEF Retire, queueVars
  <2> QED
    BY <1>6, <2>1, <2>2, <2>3 DEF WorkerStep
<1>7. ASSUME NEW c \in Cids, BackoffElapses(c) PROVE PathHasOneOwner'
  <2>1. \A b \in Cids : jobs'[b].dests = jobs[b].dests
    BY <1>1, <1>7 DEF BackoffElapses, Types, Job
  <2> QED
    BY <1>2, <2>1
<1>8. CASE DispatcherCheck \/ AcquireSlot \/ NothingReady \/ UNCHANGED vars
  BY <1>2, <1>8 DEF DispatcherCheck, AcquireSlot, NothingReady, vars, queueVars
<1> QED
  BY <1>3, <1>4, <1>5, <1>6, <1>7, <1>8 DEF Next, DispatcherStep

\* A destination belongs to at most one CID's job, whichever targets are asked
\* for, redirected, forgotten or retried: ClaimDest takes it from every other job.
THEOREM OneOwner == Spec => []PathHasOneOwner
<1>1. Init => PathHasOneOwner
  BY DEF Init, NoJob, PathHasOneOwner
<1>2. TypeOK /\ PathHasOneOwner /\ [Next]_vars => PathHasOneOwner'
  BY OwnerNext
<1> QED
  BY <1>1, <1>2, TypeCorrect, PTL DEF Spec

--------------------------------------------------------------------------------
(* DownloadQueue implements FetchQueue: each step of the queue is, for those who use *)
(* it, a step of the promise or none at all. The promise is about the state of each  *)
(* job; what a step does to the rest of a job's record is not seen.                  *)

Seen == [c \in Cids |-> jobs[c].state]

At == [w \in Slots |-> IF Running(w) THEN work[w].cid ELSE NoOne]

Promised == [Queue!FetchStep]_<<Seen, At, userCancelled, cancelFlag, closed>>

\* One job's state changes, or none does.
LEMMA OneState ==
  ASSUME Types, NEW c \in Cids, NEW s,
         \A b \in Cids : jobs'[b].state = IF b = c THEN s ELSE jobs[b].state
  PROVE  Seen' = [Seen EXCEPT ![c] = s]
BY DEF Seen

LEMMA SameStates ==
  ASSUME \A b \in Cids : jobs'[b].state = jobs[b].state
  PROVE  Seen' = Seen
BY DEF Seen

\* A worker begins or ends to run for a CID, or none does.
LEMMA OneFetch ==
  ASSUME NEW w \in Slots, NEW c, \A v \in Slots \ {w} : work'[v] = work[v],
         c = IF work'[w].pc \in {"start", "fetch", "place"} THEN work'[w].cid ELSE NoOne
  PROVE  At' = [At EXCEPT ![w] = c]
BY DEF At, Running

LEMMA SameFetches ==
  ASSUME work' = work
  PROVE  At' = At
BY DEF At, Running

\* Whatever a target does to an entry is what the promise says of a request.
LEMMA EntryAsked ==
  ASSUME Types, NEW c \in Cids, NEW p \in Paths, NEW t \in Target,
         NEW e \in (IF jobs[c].state = "none" THEN FirstEntry(p, t) ELSE Join(jobs[c], p, t))
  PROVE  e.job.state \in Queue!Asked(jobs[c].state)
<1> DEFINE j == jobs[c]
           m == [j EXCEPT !.optional = @ /\ t.optional, !.verify = @ \/ t.verify]
           add == [m EXCEPT !.dests = @ \cup {p}]
           again == Requeued(m, p)
<1>1. j \in Job
  BY JobType
<1>2. m.state = j.state /\ add.state = j.state /\ again.state = "queued" /\ again \in Job
  <2>1. m.state = j.state
    BY <1>1 DEF Job
  <2>2. \A x \in Job, o \in BOOLEAN, v \in BOOLEAN : [x EXCEPT !.optional = o, !.verify = v] \in Job
    BY DEF Job
  <2>3. m \in Job
    BY <1>1, <2>2
  <2> HIDE DEF m
  <2> QED
    BY <2>1, <2>3, RequeuedType DEF Requeued, Job
<1>3. j.state \in {"none", "queued", "active", "done", "failed"}
  BY <1>1 DEF Job, States
<1> HIDE DEF m, add, again
<1>4. CASE j.state = "none"
  <2> DEFINE new(s) == [NoJob EXCEPT !.state = s, !.dests = {p}, !.optional = t.optional,
                                     !.dir = t.dir, !.verify = t.verify]
  <2>1. e \in FirstEntry(p, t)
    BY <1>4
  <2>2. e \in {[job |-> new("queued"), fresh |-> TRUE, from |-> NoPath],
                [job |-> new("done"), fresh |-> FALSE, from |-> NoPath]}
    BY <2>1, Zenon DEF FirstEntry
  <2>3. e.job = new("queued") \/ e.job = new("done")
    BY <2>2
  <2>4. new("queued").state = "queued" /\ new("done").state = "done"
    BY DEF NoJob
  <2> HIDE DEF new
  <2>5. e.job.state \in {"queued", "done"}
    BY <2>3, <2>4
  <2>6. jobs[c].state = "none"
    BY <1>4
  <2> HIDE DEF j
  <2> QED
    BY <2>5, <2>6 DEF Queue!Asked
<1>5. CASE j.state \in {"queued", "active"}
  <2>1. e.job = add
    BY <1>5 DEF Join, m, add
  <2> QED
    BY <1>2, <1>5, <2>1 DEF Queue!Asked
<1>6. CASE j.state = "done"
  <2>1. e.job \in {m, add, again}
    BY <1>6 DEF Join, m, add, again
  <2> QED
    BY <1>2, <1>6, <2>1 DEF Queue!Asked
<1>7. CASE j.state = "failed"
  <2>1. e.job = [again EXCEPT !.priority = 0, !.tried = FALSE, !.ready = TRUE]
    BY <1>7 DEF Join, m, again
  <2>2. e.job.state = again.state
    BY <1>2, <2>1 DEF Job
  <2> QED
    BY <1>2, <1>7, <2>2 DEF Queue!Asked
<1> QED
  BY <1>3, <1>4, <1>5, <1>6, <1>7

LEMMA EnqueueTargetAsks ==
  ASSUME Types, NEW k \in Callers, EnqueueTarget(k)
  PROVE  Promised
<1> DEFINE path(t) == IF t.dir THEN t.path ELSE Redirected(t.path)
           entry(t) == IF jobs[t.cid].state = "none" THEN FirstEntry(path(t), t)
                                                     ELSE Join(jobs[t.cid], path(t), t)
<1>1. PICK t \in call[k].todo :
        \/ /\ closed
           /\ jobs' = [jobs EXCEPT ![t.cid].state = IF @ = "done" THEN @ ELSE "failed"]
           /\ cancelFlag' = cancelFlag
        \/ /\ ~closed
           /\ cancelFlag' = cancelFlag \ {t.cid}
           /\ \E e \in entry(t) :
                jobs' = [ClaimDest(jobs, t.cid, path(t)) EXCEPT ![t.cid] = e.job]
  BY ZenonT(60) DEF EnqueueTarget
<1>2. t \in Target
  BY CallType, <1>1 DEF Call
<1> DEFINE c == t.cid
           p == path(t)
<1>3. c \in Cids /\ t.path \in Paths
  BY <1>2 DEF Target
<1>4. p \in Paths
  BY <1>3, RedirectedType
<1>5. closed' = closed
  BY DEF EnqueueTarget
<1>9. At' = At /\ userCancelled' = userCancelled
  BY SameFetches DEF EnqueueTarget
<1>6. Seen[c] = jobs[c].state
  BY <1>3 DEF Seen
<1>7. CASE /\ closed
           /\ jobs' = [jobs EXCEPT ![c].state = IF @ = "done" THEN @ ELSE "failed"]
           /\ cancelFlag' = cancelFlag
  <2> DEFINE s == IF jobs[c].state = "done" THEN jobs[c].state ELSE "failed"
  <2>1. \A b \in Cids : jobs'[b].state = IF b = c THEN s ELSE jobs[b].state
    BY <1>3, <1>7 DEF Types, Job
  <2>2. Seen' = [Seen EXCEPT ![c] = s]
    BY <1>3, <2>1, OneState
  <2>3. Queue!Ask(c)
    BY <1>5, <1>6, <1>7, <1>9, <2>2 DEF Queue!Ask, Seen, At
  <2> QED
    BY <1>3, <2>3 DEF Promised, Queue!FetchStep
<1>8. CASE /\ ~closed
           /\ cancelFlag' = cancelFlag \ {c}
           /\ \E e \in entry(t) : jobs' = [ClaimDest(jobs, c, p) EXCEPT ![c] = e.job]
  <2>1. PICK e \in entry(t) : jobs' = [ClaimDest(jobs, c, p) EXCEPT ![c] = e.job]
    BY <1>8
  <2>2. e.job.state \in Queue!Asked(jobs[c].state)
    BY <1>2, <1>3, <1>4, <2>1, EntryAsked
  <2> HIDE DEF path, entry
  <2>3. ASSUME NEW b \in Cids
        PROVE  jobs'[b].state = IF b = c THEN e.job.state ELSE jobs[b].state
    <3>1. CASE b = c
      BY <1>3, <2>1, <3>1 DEF ClaimDest
    <3>2. CASE b # c
      <4>1. jobs'[b] = [jobs[b] EXCEPT !.dests = @ \ {p}]
        BY <1>3, <2>1, <3>2 DEF ClaimDest
      <4>2. jobs[b] \in Job
        BY JobType
      <4> QED
        BY <3>2, <4>1, <4>2 DEF Job
    <3> QED
      BY <3>1, <3>2
  <2>4. Seen' = [Seen EXCEPT ![c] = e.job.state]
    BY <1>3, <2>3, OneState
  <2>5. Queue!Ask(c)
    BY <1>5, <1>6, <1>8, <1>9, <2>2, <2>4 DEF Queue!Ask, Seen, At
  <2> QED
    BY <1>3, <2>5 DEF Promised, Queue!FetchStep
<1> QED
  BY <1>1, <1>7, <1>8

LEMMA DispatchStarts ==
  ASSUME Types, NEW w \in Slots, NEW c \in Cids, Dispatch(w, c)
  PROVE  Promised
<1>1. \A b \in Cids : jobs'[b].state = IF b = c THEN "active" ELSE jobs[b].state
  BY DEF Dispatch, Types, Job
<1>2. Seen' = [Seen EXCEPT ![c] = "active"]
  BY <1>1, OneState
<1>3. jobs[c].state = "queued" /\ Seen[c] = jobs[c].state
  BY DEF Dispatch, PickReady, Ready, Seen
<1>4. UNCHANGED <<userCancelled, cancelFlag, closed>>
  BY DEF Dispatch, nodeVars
<1>5. At[w] = NoOne
  BY DEF Dispatch, At, Running
<1>6. At' = [At EXCEPT ![w] = c]
  <2> DEFINE start == [NoWork EXCEPT !.pc = "start", !.cid = c, !.dests = jobs[c].dests,
                                     !.dir = jobs[c].dir, !.verify = jobs[c].verify]
  <2>1. start.pc = "start" /\ start.cid = c
    BY DEF NoWork
  <2>2. work' = [work EXCEPT ![w] = start]
    BY DEF Dispatch
  <2> HIDE DEF start
  <2>3. work'[w] = start /\ \A v \in Slots \ {w} : work'[v] = work[v]
    BY <2>2 DEF Types
  <2> QED
    BY <2>1, <2>3, OneFetch
<1>7. Queue!Start(c, w)
  BY <1>2, <1>3, <1>4, <1>5, <1>6 DEF Queue!Start, Seen, At
<1> QED
  BY <1>7 DEF Promised, Queue!FetchStep

LEMMA FinishSettles ==
  ASSUME Types, Aimed, NEW w \in Slots, Finish(w)
  PROVE  Promised
<1>1. PICK c \in Cids : c = work[w].cid
  BY DEF Finish, Aimed, Running
<1> DEFINE j == [jobs[c] EXCEPT !.forgotten = {}]
           s == Settled(j, w).state
<1>2. jobs' = [jobs EXCEPT ![c] = Settled(j, w)]
  BY <1>1, Zenon DEF Finish
<1>3. j \in Job
  BY JobType DEF Job
<1>4. s \in {"done", "failed", "queued"}
  BY <1>3 DEF Settled, Rotated, Job
<1>11. c \in userCancelled => s = "failed"
  BY <1>1, <1>3 DEF Settled, Job
<1>5. \A b \in Cids : jobs'[b].state = IF b = c THEN s ELSE jobs[b].state
  BY <1>2 DEF Types
<1> HIDE DEF s, j
<1>6. Seen' = [Seen EXCEPT ![c] = s]
  BY <1>5, OneState
<1>7. /\ cancelFlag' \in {cancelFlag, cancelFlag \ {c}} /\ closed' = closed
      /\ userCancelled' = userCancelled \ {c}
  BY <1>1 DEF Finish
<1>9. At[w] = c
  BY <1>1 DEF Finish, At, Running
<1>10. At' = [At EXCEPT ![w] = NoOne]
  <2> DEFINE over == [NoWork EXCEPT !.pc = "notify"]
  <2>1. over.pc = "notify"
    BY DEF NoWork
  <2>2. work' = [work EXCEPT ![w] = over]
    BY Zenon DEF Finish
  <2> HIDE DEF over
  <2>3. work'[w] = over /\ \A v \in Slots \ {w} : work'[v] = work[v]
    BY <2>2 DEF Types
  <2> QED
    BY <2>1, <2>3, OneFetch
<1>8. Queue!Settle(c, w)
  BY <1>4, <1>6, <1>7, <1>9, <1>10, <1>11 DEF Queue!Settle, Seen, At
<1> QED
  BY <1>8 DEF Promised, Queue!FetchStep

LEMMA LatePlaceSpoils ==
  ASSUME Types, NEW k \in Callers, LatePlace(k)
  PROVE  Promised
<1>1. PICK l \in call[k].late : \/ jobs' = jobs
                                \/ jobs' = [jobs EXCEPT ![l.cid].state = "failed"]
  BY Zenon DEF LatePlace
<1>2. l.cid \in Cids
  <2>1. call[k] \in Call
    BY CallType
  <2> QED
    BY <1>1, <2>1 DEF Call, Late
<1>3. UNCHANGED <<At, userCancelled, cancelFlag, closed>>
  BY SameFetches DEF LatePlace, nodeVars
<1>4. CASE jobs' = jobs
  BY <1>3, <1>4 DEF Promised, Seen
<1>5. CASE jobs' = [jobs EXCEPT ![l.cid].state = "failed"]
  <2>1. \A b \in Cids : jobs'[b].state = IF b = l.cid THEN "failed" ELSE jobs[b].state
    BY <1>2, <1>5 DEF Types, Job
  <2>2. Seen' = [Seen EXCEPT ![l.cid] = "failed"]
    BY <1>2, <2>1, OneState
  <2>3. Queue!Spoil(l.cid)
    BY <1>3, <2>2 DEF Queue!Spoil, Seen, At
  <2> QED
    BY <1>2, <2>3 DEF Promised, Queue!FetchStep
<1> QED
  BY <1>1, <1>4, <1>5

LEMMA CancelCancels ==
  ASSUME Types, NEW c \in Cids, CancelDownload(c)
  PROVE  Promised
<1> DEFINE s == IF jobs[c].state = "queued" THEN "failed" ELSE jobs[c].state
<1>1. \A b \in Cids : jobs'[b].state = IF b = c THEN s ELSE jobs[b].state
  BY DEF CancelDownload, Types, Job
<1>2. Seen' = [Seen EXCEPT ![c] = s]
  BY <1>1, OneState
<1>3. Seen[c] = jobs[c].state
  BY DEF Seen
<1>4. /\ cancelFlag' = cancelFlag \cup {c} /\ closed' = closed /\ At' = At
      /\ userCancelled' = IF Seen[c] = "active" THEN userCancelled \cup {c} ELSE userCancelled
  BY <1>3, SameFetches DEF CancelDownload
<1>5. Queue!Cancel(c)
  BY <1>2, <1>3, <1>4 DEF Queue!Cancel, Seen, At
<1> QED
  BY <1>5 DEF Promised, Queue!FetchStep

\* A preemption raises the flag of a fetch in flight.
LEMMA PrioritizeRaises ==
  ASSUME Types, NEW c \in Cids, Prioritize(c), UNCHANGED <<work, userCancelled, closed>>
  PROVE  Promised
<1>1. \A b \in Cids : jobs'[b].state = jobs[b].state
  BY DEF Prioritize, Types, Job
<1>2. Seen' = Seen
  BY <1>1, SameStates
<1>3. \/ cancelFlag' = cancelFlag
      \/ \E v \in Active : cancelFlag' = cancelFlag \cup {v}
  BY Zenon DEF Prioritize, Victims
<1>6. At' = At
  BY SameFetches
<1>4. CASE cancelFlag' = cancelFlag
  BY <1>2, <1>4, <1>6 DEF Promised
<1>5. CASE \E v \in Active : cancelFlag' = cancelFlag \cup {v}
  <2>1. PICK v \in Cids : cancelFlag' = cancelFlag \cup {v}
    BY <1>5 DEF Active
  <2>2. Queue!Raise(v)
    BY <1>2, <1>6, <2>1 DEF Queue!Raise, Seen, At
  <2> QED
    BY <2>2 DEF Promised, Queue!FetchStep
<1> QED
  BY <1>3, <1>4, <1>5

LEMMA BumpRaises ==
  ASSUME Types, NEW k \in Callers, Bump(k)
  PROVE  Promised
<1>1. PICK i \in call[k].items : Prioritize(i.cid)
  BY DEF Bump
<1>2. i.cid \in Cids
  <2>1. call[k] \in Call
    BY CallType
  <2> QED
    BY <1>1, <2>1 DEF Call, Item
<1> QED
  BY <1>1, <1>2, PrioritizeRaises DEF Bump

LEMMA CloseCloses ==
  ASSUME Types, CloseQueue
  PROVE  Promised
<1>1. ASSUME NEW b \in Cids
      PROVE  jobs'[b].state = IF jobs[b].state = "queued" THEN "failed" ELSE jobs[b].state
  <2>1. jobs[b] \in Job
    BY JobType
  <2>2. jobs'[b] = IF jobs[b].state = "queued" THEN [jobs[b] EXCEPT !.state = "failed"] ELSE jobs[b]
    BY DEF CloseQueue
  <2> QED
    BY <2>1, <2>2 DEF Job
<1>2. Seen' = [c \in Cids |-> IF Seen[c] = "queued" THEN "failed" ELSE Seen[c]]
  BY <1>1 DEF Seen
<1> DEFINE stopped == {c \in Cids : Seen[c] = "active"}
<1>3. /\ cancelFlag' = cancelFlag \cup stopped /\ userCancelled' = userCancelled \cup stopped
      /\ closed' = TRUE /\ At' = At
  BY SameFetches DEF CloseQueue, Active, Seen
<1>4. Queue!Close
  BY <1>2, <1>3 DEF Queue!Close, Queue!Active, Seen, At
<1> QED
  BY <1>4 DEF Promised, Queue!FetchStep

\* The steps that leave the state of every job alone.
LEMMA UnseenSteps ==
  ASSUME Types, \A b \in Cids : jobs'[b].state = jobs[b].state,
         UNCHANGED <<At, userCancelled, cancelFlag, closed>>
  PROVE  Promised
BY SameStates DEF Promised

LEMMA ControlKeepsPromise ==
  ASSUME Types, Control
  PROVE  Promised
<1>1. ASSUME NEW c \in Cids, PrioritizeDownload(c) PROVE Promised
  BY <1>1, PrioritizeRaises DEF PrioritizeDownload
<1>2. ASSUME NEW c \in Cids, RequestCancel(c) PROVE Promised
  <2>1. Queue!Raise(c)
    BY <1>2, SameFetches DEF RequestCancel, Queue!Raise, queueVars, At
  <2> QED
    BY <2>1 DEF Promised, Queue!FetchStep
<1>3. ASSUME NEW c \in Cids, ClearCancel(c) PROVE Promised
  <2>1. Queue!Clear(c)
    BY <1>3, SameFetches DEF ClearCancel, Queue!Clear, queueVars, At
  <2> QED
    BY <2>1 DEF Promised, Queue!FetchStep
<1>4. CASE OpenQueue
  <2>1. Queue!Open
    BY <1>4, SameFetches DEF OpenQueue, Queue!Open, nodeVars, At
  <2> QED
    BY <2>1 DEF Promised, Queue!FetchStep
<1>5. ASSUME NEW f \in Folders, ForgetDestsUnder(f) PROVE Promised
  <2>1. ASSUME NEW b \in Cids PROVE jobs'[b].state = jobs[b].state
    <3>1. jobs[b] \in Job
      BY JobType
    <3>2. jobs'[b] = [jobs[b] EXCEPT !.dests = @ \ Under(f),
                        !.forgotten = IF jobs[b].state = "active"
                                      THEN @ \cup (jobs[b].dests \cap Under(f)) ELSE @]
      BY <1>5 DEF ForgetDestsUnder
    <3> QED
      BY <3>1, <3>2 DEF Job
  <2> QED
    BY <1>5, <2>1, SameFetches, UnseenSteps DEF ForgetDestsUnder, nodeVars
<1>6. CASE \/ \E f \in Folders : \/ DropRedirectsUnder(f) \/ RemoveFolder(f)
                                 \/ \E g \in Folders : RedirectDestsUnder(f, g)
           \/ \E n \in 1..Cardinality(Slots) : SetMaxConcurrentDownloads(n)
  <2>1. UNCHANGED <<jobs, work, userCancelled, cancelFlag, closed>>
    BY <1>6 DEF DropRedirectsUnder, RemoveFolder, RedirectDestsUnder, SetMaxConcurrentDownloads,
                queueVars, nodeVars
  <2> QED
    BY <2>1, SameFetches, UnseenSteps
<1> QED
  BY <1>1, <1>2, <1>3, <1>4, <1>5, <1>6, CancelCancels, CloseCloses, Zenon DEF Control

\* A worker runs for one CID until it settles its job.
LEMMA WorkerGoesOn ==
  ASSUME Types, NEW w \in Slots, WorkerStep(w), ~Finish(w)
  PROVE  At' = At
<1>1. work[w] \in Worker
  BY DEF Types
<1>2. CASE StartFetch(w) \/ FetchReturns(w) \/ PlaceNext(w)
  <2>1. \A v \in Slots \ {w} : work'[v] = work[v]
    BY <1>2 DEF StartFetch, FetchReturns, PlaceNext, Types
  <2>2. Running(w) /\ work'[w].pc \in {"fetch", "place"} /\ work'[w].cid = work[w].cid
    <3>1. CASE StartFetch(w)
      BY <1>1, <3>1 DEF StartFetch, Running, Worker, Types
    <3>2. CASE FetchReturns(w)
      BY <1>1, <3>2 DEF FetchReturns, Running, Worker, Types
    <3>3. CASE PlaceNext(w)
      BY <1>1, <3>3 DEF PlaceNext, Running, Worker, Types
    <3> QED
      BY <1>2, <3>1, <3>2, <3>3
  <2>3. At' = [At EXCEPT ![w] = work[w].cid] /\ At[w] = work[w].cid
    BY <2>1, <2>2, OneFetch DEF At
  <2> QED
    BY <2>3 DEF At
<1>3. CASE Retire(w)
  <2>1. /\ \A v \in Slots \ {w} : work'[v] = work[v]
        /\ work'[w].pc = "free" /\ ~Running(w)
    BY <1>3 DEF Retire, NoWork, Running, Types
  <2>2. At' = [At EXCEPT ![w] = NoOne] /\ At[w] = NoOne
    BY <2>1, OneFetch DEF At
  <2> QED
    BY <2>2 DEF At
<1> QED
  BY <1>2, <1>3 DEF WorkerStep

\* Every step of the queue is a step of the promise, or unseen.
LEMMA NextKeepsPromise ==
  ASSUME Types, Aimed, [Next]_vars
  PROVE  Promised
<1>1. ASSUME NEW k \in Callers, CallerStep(k), ~EnqueueTarget(k), ~LatePlace(k), ~Bump(k)
      PROVE  Promised
  <2>1. UNCHANGED <<jobs, work, userCancelled, cancelFlag, closed>>
    BY <1>1 DEF CallerStep, EnqueueBegin, EnqueueEnd, EnqueueNotify, WaitCheck, WaitTimesOut,
                Return, Reuse, queueVars, nodeVars
  <2> QED
    BY <2>1, SameFetches, UnseenSteps
<1>2. CASE DispatcherCheck \/ AcquireSlot \/ NothingReady \/ UNCHANGED vars
  <2>1. UNCHANGED <<jobs, work, userCancelled, cancelFlag, closed>>
    BY <1>2 DEF DispatcherCheck, AcquireSlot, NothingReady, vars, queueVars, nodeVars
  <2> QED
    BY <2>1, SameFetches, UnseenSteps
<1>3. ASSUME NEW w \in Slots, WorkerStep(w), ~Finish(w) PROVE Promised
  <2>1. UNCHANGED <<jobs, userCancelled, cancelFlag, closed>>
    BY <1>3 DEF WorkerStep, StartFetch, FetchReturns, PlaceNext, Retire, queueVars, nodeVars
  <2> QED
    BY <1>3, <2>1, WorkerGoesOn, UnseenSteps
<1>4. ASSUME NEW c \in Cids, BackoffElapses(c) PROVE Promised
  <2>1. \A b \in Cids : jobs'[b].state = jobs[b].state
    BY <1>4 DEF BackoffElapses, Types, Job
  <2> QED
    BY <1>4, <2>1, SameFetches, UnseenSteps DEF BackoffElapses, nodeVars
<1>5. ASSUME NEW k \in Callers, CallerStep(k) PROVE Promised
  BY <1>1, <1>5, EnqueueTargetAsks, LatePlaceSpoils, BumpRaises
<1>6. CASE DispatcherStep
  BY <1>2, <1>6, DispatchStarts DEF DispatcherStep
<1>7. ASSUME NEW w \in Slots, WorkerStep(w) PROVE Promised
  BY <1>3, <1>7, FinishSettles
<1> QED
  BY <1>2, <1>4, <1>5, <1>6, <1>7, ControlKeepsPromise DEF Next

LEMMA InitKeepsPromise == Init => Queue!NoJobs
<1> SUFFICES ASSUME Init PROVE Queue!NoJobs
  OBVIOUS
<1>1. \A c \in Cids : jobs[c].state = "none"
  BY DEF Init, NoJob
<1>2. \A w \in Slots : ~Running(w)
  BY DEF Init, NoWork, Running
<1> QED
  BY <1>1, <1>2 DEF Init, Queue!NoJobs

\* DownloadQueue is a FetchQueue: only a dispatch makes a job active, and no request or
\* control call takes it from its fetch, save a late placement that failed and a request
\* to a closed queue; a fetch cancelled in flight fails its job (downloadqueue.h).
THEOREM QueueKeepsPromise == Spec => KeepsPromise
<1>1. TypeOK /\ [Next]_vars => Promised
  BY NextKeepsPromise DEF TypeOK
<1>2. Promised => [Queue!FetchStep]_(Queue!jobVars)
  BY DEF Promised, Queue!jobVars, Seen, At
<1> QED
  BY <1>1, <1>2, InitKeepsPromise, TypeCorrect, PTL DEF Spec, KeepsPromise, Queue!Promise

--------------------------------------------------------------------------------
(* What a request does to jobs and callers *)

\* Whatever a target does to an entry, a job it queues is announced, and one that
\* was queued keeps its turn.
LEMMA EntryWakes ==
  ASSUME Types, NEW c \in Cids, NEW p \in Paths, NEW t \in Target,
         NEW e \in (IF jobs[c].state = "none" THEN FirstEntry(p, t) ELSE Join(jobs[c], p, t))
  PROVE  /\ e.fresh \in BOOLEAN
         /\ jobs[c].state = "queued" => e.job.ready = jobs[c].ready
         /\ jobs[c].state # "queued" /\ e.job.state = "queued" => e.fresh
<1> DEFINE j == jobs[c]
           m == [j EXCEPT !.optional = @ /\ t.optional, !.verify = @ \/ t.verify]
           add == [m EXCEPT !.dests = @ \cup {p}]
           again == Requeued(m, p)
           as(entry, fresh, from) == [job |-> entry, fresh |-> fresh, from |-> from]
<1>1. j \in Job
  BY JobType
<1>2. add.state = j.state /\ add.ready = j.ready /\ m.state = j.state
  <2>1. m.state = j.state /\ m.ready = j.ready
    BY <1>1 DEF Job
  <2>2. \A x \in Job, o \in BOOLEAN, v \in BOOLEAN : [x EXCEPT !.optional = o, !.verify = v] \in Job
    BY DEF Job
  <2>3. m \in Job
    BY <1>1, <2>2
  <2> HIDE DEF m
  <2> QED
    BY <2>1, <2>3 DEF Job
<1>3. j.state \in {"none", "queued", "active", "done", "failed"}
  BY <1>1 DEF Job, States
<1> HIDE DEF m, add, again
<1>4. CASE j.state = "none"
  <2> DEFINE new(s) == [NoJob EXCEPT !.state = s, !.dests = {p}, !.optional = t.optional,
                                     !.dir = t.dir, !.verify = t.verify]
  <2>1. e \in FirstEntry(p, t)
    BY <1>4
  <2>2. \/ e = [job |-> new("queued"), fresh |-> TRUE, from |-> NoPath]
        \/ e = [job |-> new("done"), fresh |-> FALSE, from |-> NoPath]
    BY <2>1, Zenon DEF FirstEntry
  <2>3. new("done").state = "done"
    BY DEF NoJob
  <2> HIDE DEF new
  <2>4. e.fresh = TRUE \/ (e.fresh = FALSE /\ e.job = new("done"))
    BY <2>2
  <2> QED
    BY <1>4, <2>3, <2>4
<1>5. CASE j.state \in {"queued", "active"}
  <2>1. e = as(add, FALSE, NoPath)
    BY <1>5 DEF Join, m, add
  <2>2. e.fresh = FALSE /\ e.job = add
    BY <2>1
  <2> HIDE DEF j
  <2>3. e.job.state = jobs[c].state /\ e.job.ready = jobs[c].ready
    BY <1>2, <2>2 DEF j
  <2> QED
    BY <2>2, <2>3
<1>6. CASE j.state = "done"
  <2>1. \/ \E d : e = as(m, FALSE, d) \/ e = as(add, FALSE, d)
        \/ e = as(again, TRUE, NoPath)
    BY <1>6 DEF Join, m, add, again
  <2>2. e.fresh = TRUE \/ (e.fresh = FALSE /\ e.job \in {m, add})
    BY <2>1
  <2>3. e.fresh = TRUE \/ (e.fresh = FALSE /\ e.job.state = "done")
    BY <1>2, <1>6, <2>2
  <2> QED
    BY <1>6, <2>3
<1>7. CASE j.state = "failed"
  <2>1. \E x : e = as(x, TRUE, NoPath)
    BY <1>7 DEF Join
  <2> QED
    BY <1>7, <2>1
<1> QED
  BY <1>3, <1>4, <1>5, <1>6, <1>7

\* What EnqueueTarget does to the states of the jobs and to the call it is part of.
LEMMA TargetStep ==
  ASSUME Types, NEW k \in Callers, EnqueueTarget(k)
  PROVE  \E c \in Cids, optional \in BOOLEAN, fresh \in BOOLEAN :
           /\ \A h \in Callers \ {k} : call'[h] = call[h]
           /\ call'[k].pc = "targets" /\ call[k].pc = "targets"
           /\ call'[k].wake = (call[k].wake \/ fresh)
           /\ call'[k].items = call[k].items \cup {[cid |-> c, optional |-> optional]}
           /\ \A b \in Cids \ {c} : jobs'[b].state = jobs[b].state /\ jobs'[b].ready = jobs[b].ready
           /\ \/ closed /\ jobs'[c].state = IF jobs[c].state = "done" THEN "done" ELSE "failed"
              \/ /\ ~closed /\ jobs'[c].state \in Queue!Asked(jobs[c].state)
                 /\ jobs[c].state = "queued" => jobs'[c].ready = jobs[c].ready
                 /\ jobs[c].state # "queued" /\ jobs'[c].state = "queued" => fresh
           /\ UNCHANGED <<asleep, dispatcher, work, closed>>
<1>1. call[k] \in Call
  BY CallType
<1> DEFINE path(t) == IF t.dir THEN t.path ELSE Redirected(t.path)
           seen(t) == [call[k] EXCEPT !.todo = @ \ {t},
                         !.asked = @ \cup {[t EXCEPT !.path = path(t)]},
                         !.items = @ \cup {[cid |-> t.cid, optional |-> t.optional]}]
           closes(t) == /\ closed
                        /\ jobs' = [jobs EXCEPT ![t.cid].state = IF @ = "done" THEN @ ELSE "failed"]
                        /\ call' = [call EXCEPT ![k] = seen(t)]
           entry(t) == IF jobs[t.cid].state = "none" THEN FirstEntry(path(t), t)
                                                     ELSE Join(jobs[t.cid], path(t), t)
           late(t, e) == IF e.from = NoPath THEN seen(t).late
                         ELSE seen(t).late \cup {[cid |-> t.cid, src |-> e.from, dest |-> path(t),
                                                  dir |-> e.job.dir]}
           joins(t) == /\ ~closed
                       /\ \E e \in entry(t) :
                            /\ jobs' = [ClaimDest(jobs, t.cid, path(t)) EXCEPT ![t.cid] = e.job]
                            /\ call' = [call EXCEPT ![k] =
                                 [seen(t) EXCEPT !.wake = @ \/ e.fresh, !.late = late(t, e)]]
<1>2. PICK t \in call[k].todo : closes(t) \/ joins(t)
  BY ZenonT(60) DEF EnqueueTarget
<1>3. t \in Target
  BY <1>1 DEF Call
<1>4. t.cid \in Cids /\ t.path \in Paths /\ t.optional \in BOOLEAN
  BY <1>3 DEF Target
<1>5. path(t) \in Paths
  BY <1>4, RedirectedType
<1> HIDE DEF path
<1> DEFINE c == t.cid
           it == [cid |-> t.cid, optional |-> t.optional]
<1>6. /\ call[k].pc = "targets" /\ UNCHANGED <<asleep, dispatcher, work, closed>>
  BY DEF EnqueueTarget
<1>7. /\ seen(t).pc = call[k].pc /\ seen(t).wake = call[k].wake
      /\ seen(t).items = call[k].items \cup {it}
  BY <1>1 DEF Call
<1>8. seen(t) \in [DOMAIN seen(t) -> UNION {{seen(t)[x]} : x \in DOMAIN seen(t)}]
      /\ {"pc", "wake", "items", "late"} \subseteq DOMAIN seen(t)
  BY <1>1 DEF Call
<1>9. call \in [Callers -> Call] /\ jobs \in [Cids -> Job]
  BY DEF Types
<1> HIDE DEF seen
<1>10. CASE closes(t)
  <2>1. call'[k] = seen(t) /\ \A h \in Callers \ {k} : call'[h] = call[h]
    BY <1>9, <1>10
  <2>2. /\ jobs'[c].state = IF jobs[c].state = "done" THEN "done" ELSE "failed"
        /\ \A b \in Cids \ {c} : jobs'[b] = jobs[b]
    BY <1>4, <1>9, <1>10 DEF Job
  <2>3. call[k].wake \in BOOLEAN
    BY <1>1 DEF Call
  <2>4. call'[k].wake = (call[k].wake \/ FALSE)
    BY <1>7, <2>1, <2>3
  <2> QED
    BY <1>4, <1>6, <1>7, <1>10, <2>1, <2>2, <2>4
<1>11. CASE joins(t)
  <2>1. PICK e \in entry(t) :
          /\ jobs' = [ClaimDest(jobs, t.cid, path(t)) EXCEPT ![t.cid] = e.job]
          /\ call' = [call EXCEPT ![k] = [seen(t) EXCEPT !.wake = @ \/ e.fresh, !.late = late(t, e)]]
    BY <1>11
  <2>2. /\ e.job.state \in Queue!Asked(jobs[c].state)
        /\ e.fresh \in BOOLEAN
        /\ jobs[c].state = "queued" => e.job.ready = jobs[c].ready
        /\ jobs[c].state # "queued" /\ e.job.state = "queued" => e.fresh
    BY <1>3, <1>4, <1>5, <2>1, EntryAsked, EntryWakes
  <2>3. /\ call'[k].pc = seen(t).pc /\ call'[k].wake = (seen(t).wake \/ e.fresh)
        /\ call'[k].items = seen(t).items
        /\ \A h \in Callers \ {k} : call'[h] = call[h]
    BY <1>8, <1>9, <2>1
  <2> HIDE DEF entry, late
  <2>4. ASSUME NEW b \in Cids \ {c}
        PROVE  jobs'[b].state = jobs[b].state /\ jobs'[b].ready = jobs[b].ready
    <3>1. jobs'[b] = [jobs[b] EXCEPT !.dests = @ \ {path(t)}]
      BY <2>1 DEF ClaimDest
    <3>2. jobs[b] \in Job
      BY JobType
    <3> QED
      BY <3>1, <3>2 DEF Job
  <2>5. jobs'[c] = e.job
    BY <1>4, <2>1 DEF ClaimDest
  <2> QED
    BY <1>4, <1>6, <1>7, <1>11, <2>2, <2>3, <2>4, <2>5
<1> QED
  BY <1>2, <1>10, <1>11

--------------------------------------------------------------------------------
(* Nobody sleeps past what they wait for *)

\* A caller announces what it queued before it does anything else, sleeps only when it
\* waits, and waits for jobs the queue knows.
CallInStep(k) ==
  /\ call[k].wake => call[k].pc \in {"targets", "late", "notify"}
  /\ call[k].pc = "late" => call[k].wake
  /\ k \in asleep => call[k].pc = "wait"
  /\ \A i \in call[k].items : jobs[i.cid].state # "none"

CallsInStep == \A k \in Callers : CallInStep(k)

\* The dispatcher's alarm is set by every job that waits for its turn.
Alarmed ==
  dispatcher.pc = "asleep" =>
    NotifyPending \/ \A c \in Cids : jobs[c].state = "queued" => c \in dispatcher.alarm /\ ~jobs[c].ready

\* A job the queue has taken stays known to it.
LEMMA KnownStays ==
  ASSUME Types, Aimed, [Next]_vars, NEW c \in Cids, jobs[c].state # "none"
  PROVE  jobs'[c].state # "none"
<1>1. CASE UNCHANGED <<Seen, At, userCancelled, cancelFlag, closed>>
  BY <1>1 DEF Seen
<1>2. CASE Queue!FetchStep
  <2>1. Seen' # Seen => Seen'[c] # "none"
    <3>1. \E b \in Cids : \/ Queue!Ask(b) \/ Queue!Spoil(b) \/ Queue!Cancel(b)
                          \/ \E w \in Slots : Queue!Start(b, w) \/ Queue!Settle(b, w)
                          \/ Queue!Raise(b) \/ Queue!Clear(b) \/ Queue!Close \/ Queue!Open
      BY <1>2 DEF Queue!FetchStep
    <3>5. PICK b \in Cids : \/ Queue!Ask(b) \/ Queue!Spoil(b) \/ Queue!Cancel(b)
                            \/ \E w \in Slots : Queue!Start(b, w) \/ Queue!Settle(b, w)
                            \/ Queue!Raise(b) \/ Queue!Clear(b) \/ Queue!Close \/ Queue!Open
      BY <3>1
    <3>2. CASE Queue!Ask(b)
      BY <3>2 DEF Queue!Ask, Queue!Asked, Seen
    <3>3. CASE \/ Queue!Spoil(b) \/ Queue!Cancel(b)
               \/ \E w \in Slots : Queue!Start(b, w) \/ Queue!Settle(b, w)
      BY <3>3 DEF Queue!Start, Queue!Settle, Queue!Spoil, Queue!Cancel, Seen
    <3>4. CASE Queue!Raise(b) \/ Queue!Clear(b) \/ Queue!Close \/ Queue!Open
      BY <3>4 DEF Queue!Raise, Queue!Clear, Queue!Close, Queue!Open, Seen
    <3> QED
      BY <3>2, <3>3, <3>4, <3>5
  <2> QED
    BY <2>1 DEF Seen
<1> QED
  BY <1>1, <1>2, NextKeepsPromise DEF Promised

\* A caller's call, as each of its steps but EnqueueTarget leaves it.
LEMMA CallStep ==
  ASSUME Types, CallsInStep, NEW k \in Callers, CallerStep(k), ~EnqueueTarget(k)
  PROVE  /\ \A h \in Callers \ {k} : call'[h] = call[h]
         /\ call'[k].items = call[k].items \/ call'[k].items = {}
         /\ call'[k].wake => call'[k].pc \in {"targets", "late", "notify"}
         /\ call'[k].pc = "late" => call'[k].wake
         /\ asleep' \subseteq asleep \cup {k}
         /\ k \in asleep' => call'[k].pc = "wait"
<1>1. call \in [Callers -> Call] /\ call[k] \in Call /\ CallInStep(k)
  BY CallType DEF Types, CallsInStep
<1>3. CASE \E b \in Batches : EnqueueBegin(k, b)
  BY <1>1, <1>3 DEF EnqueueBegin, CallInStep, NoCall, Call
<1>4. CASE EnqueueEnd(k)
  BY <1>1, <1>4 DEF EnqueueEnd, CallInStep, Call
<1>5. CASE LatePlace(k)
  <2>1. PICK l \in call[k].late :
          call' = [call EXCEPT ![k].late = @ \ {l},
                               ![k].pc = IF call[k].late = {l} THEN "notify" ELSE @]
    BY <1>5, Zenon DEF LatePlace
  <2>2. call[k].pc = "late" /\ asleep' = asleep
    BY <1>5 DEF LatePlace
  <2> QED
    BY <1>1, <2>1, <2>2 DEF CallInStep, Call
<1>6. CASE EnqueueNotify(k)
  BY <1>1, <1>6 DEF EnqueueNotify, CallInStep, Call, NotifyAll, Asleep
<1>7. CASE Bump(k)
  <2>1. asleep' \subseteq asleep
    <3>1. PICK i \in call[k].items : Prioritize(i.cid)
      BY <1>7 DEF Bump
    <3> QED
      BY <3>1, Zenon DEF Prioritize, NotifyAll
  <2> QED
    BY <1>1, <1>7, <2>1 DEF Bump, CallInStep, Call
<1>8. CASE WaitCheck(k)
  BY <1>1, <1>8 DEF WaitCheck, Return, CallInStep, Call
<1>9. CASE WaitTimesOut(k)
  BY <1>1, <1>9 DEF WaitTimesOut, Return, CallInStep, Call
<1>10. CASE Reuse(k)
  BY <1>1, <1>10 DEF Reuse, CallInStep, NoCall, Call
<1> QED
  BY <1>3, <1>4, <1>5, <1>6, <1>7, <1>8, <1>9, <1>10 DEF CallerStep

\* Every other step leaves the calls alone, and wakes sleepers if anything.
LEMMA CallsUnchanged ==
  ASSUME [Next]_vars, ~\E k \in Callers : CallerStep(k)
  PROVE  call' = call /\ asleep' \subseteq asleep
<1>1. CASE DispatcherStep
  BY <1>1 DEF DispatcherStep, DispatcherCheck, AcquireSlot, NothingReady, Dispatch
<1>2. ASSUME NEW w \in Slots, WorkerStep(w) PROVE call' = call /\ asleep' \subseteq asleep
  BY <1>2 DEF WorkerStep, StartFetch, FetchReturns, PlaceNext, Finish, Retire, NotifyAll
<1>3. CASE \E c \in Cids : BackoffElapses(c)
  BY <1>3 DEF BackoffElapses
<1>4. CASE Control
  <2>1. ASSUME NEW c \in Cids, PrioritizeDownload(c) PROVE call' = call /\ asleep' \subseteq asleep
    BY <2>1, Zenon DEF PrioritizeDownload, Prioritize, NotifyAll
  <2>2. ASSUME NEW c \in Cids, CancelDownload(c) \/ RequestCancel(c) \/ ClearCancel(c)
        PROVE  call' = call /\ asleep' \subseteq asleep
    BY <2>2 DEF CancelDownload, RequestCancel, ClearCancel, NotifyAll
  <2>3. CASE CloseQueue \/ OpenQueue
    BY <2>3 DEF CloseQueue, OpenQueue, NotifyAll
  <2>4. ASSUME NEW f \in Folders,
               \/ DropRedirectsUnder(f) \/ ForgetDestsUnder(f) \/ RemoveFolder(f)
               \/ \E g \in Folders : RedirectDestsUnder(f, g)
        PROVE  call' = call /\ asleep' \subseteq asleep
    BY <2>4 DEF DropRedirectsUnder, ForgetDestsUnder, RemoveFolder, RedirectDestsUnder
  <2>5. CASE \E n \in 1..Cardinality(Slots) : SetMaxConcurrentDownloads(n)
    BY <2>5 DEF SetMaxConcurrentDownloads
  <2> QED
    BY <1>4, <2>1, <2>2, <2>3, <2>4, <2>5, Zenon DEF Control
<1>5. CASE UNCHANGED vars
  BY <1>5 DEF vars
<1> QED
  BY <1>1, <1>2, <1>3, <1>4, <1>5 DEF Next

LEMMA ItemType ==
  ASSUME Types, NEW k \in Callers, NEW i \in call[k].items
  PROVE  i.cid \in Cids
<1>1. call[k] \in Call
  BY CallType
<1> QED
  BY <1>1 DEF Call, Item

LEMMA CallsInStepNext ==
  ASSUME TypeOK, CallsInStep, [Next]_vars
  PROVE  CallsInStep'
<1>1. Types /\ Aimed /\ Types'
  BY NextType DEF TypeOK
<1>2. ASSUME NEW k \in Callers, call'[k] = call[k], k \in asleep' => k \in asleep
      PROVE  CallInStep(k)'
  <2>1. \A i \in call[k].items : i.cid \in Cids
    BY <1>1, ItemType
  <2>2. \A i \in call[k].items : jobs[i.cid].state # "none"
    BY DEF CallsInStep, CallInStep
  <2>3. \A i \in call[k].items : jobs'[i.cid].state # "none"
    BY <1>1, <2>1, <2>2, KnownStays
  <2> QED
    BY <1>2, <2>3 DEF CallsInStep, CallInStep
<1>3. ASSUME NEW k \in Callers, EnqueueTarget(k) PROVE CallsInStep'
  <2>1. PICK c \in Cids, optional \in BOOLEAN, fresh \in BOOLEAN :
          /\ \A h \in Callers \ {k} : call'[h] = call[h]
          /\ call'[k].pc = "targets" /\ call[k].pc = "targets"
          /\ call'[k].items = call[k].items \cup {[cid |-> c, optional |-> optional]}
          /\ jobs'[c].state # "none"
          /\ asleep' = asleep
    <3>1. \A s \in States : \A a \in Queue!Asked(s) : a # "none"
      BY DEF Queue!Asked, States
    <3>2. \A b \in Cids : jobs[b].state \in States
      BY <1>1, JobType DEF Job
    <3> QED
      BY <1>1, <1>3, <3>1, <3>2, TargetStep
  <2>2. CallInStep(k)'
    <3>1. \A i \in call[k].items : i.cid \in Cids
      BY <1>1, ItemType
    <3>2. \A i \in call[k].items : jobs[i.cid].state # "none"
      BY DEF CallsInStep, CallInStep
    <3>3. \A i \in call[k].items : jobs'[i.cid].state # "none"
      BY <1>1, <3>1, <3>2, KnownStays
    <3>4. k \notin asleep
      BY <2>1 DEF CallsInStep, CallInStep
    <3> QED
      BY <2>1, <3>3, <3>4 DEF CallInStep
  <2> QED
    BY <1>2, <2>1, <2>2 DEF CallsInStep
<1>4. ASSUME NEW k \in Callers, CallerStep(k), ~EnqueueTarget(k) PROVE CallsInStep'
  <2>1. CallInStep(k)'
    <3>1. \A i \in call[k].items : i.cid \in Cids
      BY <1>1, ItemType
    <3>2. \A i \in call[k].items : jobs[i.cid].state # "none"
      BY DEF CallsInStep, CallInStep
    <3>3. \A i \in call[k].items : jobs'[i.cid].state # "none"
      BY <1>1, <3>1, <3>2, KnownStays
    <3> QED
      BY <1>1, <1>4, <3>3, CallStep DEF CallInStep
  <2>2. \A h \in Callers \ {k} : call'[h] = call[h] /\ (h \in asleep' => h \in asleep)
    BY <1>1, <1>4, CallStep
  <2> QED
    BY <1>2, <2>1, <2>2 DEF CallsInStep
<1>5. CASE ~\E k \in Callers : CallerStep(k)
  <2>1. call' = call /\ asleep' \subseteq asleep
    BY <1>5, CallsUnchanged
  <2> QED
    BY <1>2, <2>1 DEF CallsInStep
<1> QED
  BY <1>3, <1>4, <1>5

\* A notify on its way stays so until it wakes everyone.
LEMMA NotifyComes ==
  ASSUME Types, CallsInStep, [Next]_vars, NotifyPending
  PROVE  NotifyPending' \/ (asleep' = {} /\ dispatcher'.pc # "asleep")
<1> DEFINE Woken == asleep' = {} /\ dispatcher'.pc # "asleep"
<1>1. NotifyAll => Woken
  BY DEF NotifyAll
<1>2. ASSUME NEW k \in Callers, EnqueueNotify(k), call[k].wake PROVE Woken
  BY <1>1, <1>2 DEF EnqueueNotify
<1>3. ASSUME NEW w \in Slots, Retire(w) PROVE Woken
  BY <1>1, <1>3 DEF Retire
<1> HIDE DEF Woken
<1>4. ASSUME NEW k \in Callers, call[k].wake PROVE NotifyPending' \/ Woken
  <2>1. call[k] \in Call /\ call[k].pc \in {"targets", "late", "notify"}
    BY <1>4, CallType DEF CallsInStep, CallInStep
  <2>2. ASSUME call'[k].wake = TRUE PROVE NotifyPending'
    BY <2>2 DEF NotifyPending
  <2>3. ASSUME NEW h \in Callers, EnqueueTarget(h) PROVE NotifyPending'
    <3>1. \A g \in Callers \ {h} : call'[g] = call[g]
      BY <2>3, TargetStep
    <3>2. call'[h].wake = call[h].wake \/ call'[h].wake = TRUE
      <4>1. PICK fresh \in BOOLEAN : call'[h].wake = (call[h].wake \/ fresh)
        BY <2>3, TargetStep
      <4>2. call[h] \in Call
        BY CallType
      <4>3. call[h].wake \in BOOLEAN
        BY <4>2 DEF Call
      <4> QED
        BY <4>1, <4>3
    <3>3. call'[k].wake = call[k].wake \/ call'[k].wake = TRUE
      BY <3>1, <3>2
    <3>4. call[k].wake = TRUE
      BY <1>4, <2>1 DEF Call
    <3> QED
      BY <2>2, <3>3, <3>4
  <2>4. ASSUME NEW h \in Callers, CallerStep(h), ~EnqueueTarget(h), h # k PROVE NotifyPending'
    BY <1>4, <2>4, CallStep DEF NotifyPending
  <2>5. ASSUME CallerStep(k), ~EnqueueTarget(k) PROVE NotifyPending' \/ Woken
    <3>1. CASE EnqueueEnd(k)
      <4>1. call'[k].wake = (call[k].wake \/ call[k].late # {})
        BY <2>1, <3>1 DEF EnqueueEnd, Types, Call
      <4> QED
        BY <1>4, <4>1 DEF NotifyPending
    <3>2. CASE LatePlace(k)
      <4>1. PICK l \in call[k].late :
              call' = [call EXCEPT ![k].late = @ \ {l},
                                   ![k].pc = IF call[k].late = {l} THEN "notify" ELSE @]
        BY <3>2, Zenon DEF LatePlace
      <4>2. call'[k].wake = call[k].wake
        BY <2>1, <4>1 DEF Types, Call
      <4> QED
        BY <1>4, <4>2 DEF NotifyPending
    <3>3. ~\E b \in Batches : EnqueueBegin(k, b)
      BY <2>1 DEF EnqueueBegin
    <3>4. ~Bump(k) /\ ~WaitCheck(k) /\ ~WaitTimesOut(k) /\ ~Reuse(k)
      BY <2>1 DEF Bump, WaitCheck, WaitTimesOut, Reuse
    <3> QED
      BY <1>2, <1>4, <2>5, <3>1, <3>2, <3>3, <3>4 DEF CallerStep
  <2>6. CASE ~\E h \in Callers : CallerStep(h)
    BY <1>4, <2>6, CallsUnchanged DEF NotifyPending
  <2> QED
    BY <2>3, <2>4, <2>5, <2>6
<1>5. ASSUME NEW w \in Slots, work[w].pc = "notify" PROVE NotifyPending' \/ Woken
  <2>1. ASSUME work'[w] = work[w] PROVE NotifyPending'
    BY <1>5, <2>1 DEF NotifyPending
  <2>2. ASSUME NEW v \in Slots, WorkerStep(v), v # w PROVE NotifyPending'
    BY <2>1, <2>2, OthersUnchanged
  <2>3. ASSUME WorkerStep(w) PROVE Woken
    <3>1. Retire(w)
      BY <1>5, <2>3 DEF WorkerStep, StartFetch, FetchReturns, PlaceNext, Finish
    <3> QED
      BY <1>3, <3>1
  <2>4. ASSUME NEW v \in Slots, NEW c \in Cids, Dispatch(v, c) PROVE NotifyPending'
    <3>1. v # w
      BY <1>5, <2>4 DEF Dispatch
    <3> QED
      BY <2>1, <2>4, <3>1, Dispatched
  <2>5. CASE UNCHANGED work
    BY <2>1, <2>5
  <2> QED
    BY <2>2, <2>3, <2>4, <2>5, WorkUnchanged DEF Next, DispatcherStep
<1> QED
  BY <1>4, <1>5, Zenon DEF NotifyPending, Woken

\* A step that neither wakes everyone nor leaves a notify on its way.
Unannounced == ~NotifyPending' /\ ~(asleep' = {} /\ dispatcher'.pc # "asleep")

\* What such a step does to the state of a job: nothing a sleeper would have to know of,
\* but for the end of a backoff, a dispatch, and a request to a closed queue.
QuietJob(c) ==
  \/ /\ jobs'[c].state = jobs[c].state
     /\ jobs[c].state = "queued" => jobs'[c].ready = jobs[c].ready
  \/ BackoffElapses(c)
  \/ jobs[c].state = "none" /\ jobs'[c].state # "queued"
  \/ closed /\ jobs[c].state # "done" /\ jobs'[c].state = "failed"
  \/ jobs'[c].state = "active"

LEMMA PrioritizeWakes ==
  ASSUME NEW c \in Cids, Prioritize(c), Unannounced
  PROVE  jobs' = jobs /\ UNCHANGED <<asleep, dispatcher>>
<1>1. ~NotifyAll
  BY DEF NotifyAll, Unannounced
<1> QED
  BY <1>1, Zenon DEF Prioritize

LEMMA CallerQuiet ==
  ASSUME Types, CallsInStep, NEW k \in Callers, CallerStep(k), Unannounced, NEW c \in Cids
  PROVE  QuietJob(c)
<1>1. CASE EnqueueTarget(k)
  <2>1. PICK b \in Cids, optional \in BOOLEAN, fresh \in BOOLEAN :
          /\ call'[k].wake = (call[k].wake \/ fresh)
          /\ \A a \in Cids \ {b} : jobs'[a].state = jobs[a].state /\ jobs'[a].ready = jobs[a].ready
          /\ \/ closed /\ jobs'[b].state = IF jobs[b].state = "done" THEN "done" ELSE "failed"
             \/ /\ ~closed /\ jobs'[b].state \in Queue!Asked(jobs[b].state)
                /\ jobs[b].state = "queued" => jobs'[b].ready = jobs[b].ready
                /\ jobs[b].state # "queued" /\ jobs'[b].state = "queued" => fresh
    BY <1>1, TargetStep
  <2>2. CASE b # c
    BY <2>1, <2>2 DEF QuietJob
  <2>3. CASE b = c
    <3>1. fresh = FALSE
      BY <2>1 DEF Unannounced, NotifyPending
    <3>2. jobs[c].state \in States
      BY JobType DEF Job
    <3> QED
      BY <2>1, <2>3, <3>1, <3>2 DEF QuietJob, Queue!Asked, States
  <2> QED
    BY <2>2, <2>3
<1>2. CASE LatePlace(k)
  <2>1. PICK l \in call[k].late :
          call' = [call EXCEPT ![k].late = @ \ {l},
                               ![k].pc = IF call[k].late = {l} THEN "notify" ELSE @]
    BY <1>2, Zenon DEF LatePlace
  <2>2. call[k] \in Call
    BY CallType
  <2>3. call'[k].wake = call[k].wake
    BY <2>1, <2>2 DEF Types, Call
  <2>4. call[k].wake
    BY <1>2 DEF LatePlace, CallsInStep, CallInStep
  <2> QED
    BY <2>3, <2>4 DEF Unannounced, NotifyPending
<1>3. CASE Bump(k)
  <2>1. PICK i \in call[k].items : Prioritize(i.cid)
    BY <1>3 DEF Bump
  <2>2. jobs' = jobs
    BY <2>1, ItemType, PrioritizeWakes
  <2> QED
    BY <2>2 DEF QuietJob
<1>4. CASE ~EnqueueTarget(k) /\ ~LatePlace(k) /\ ~Bump(k)
  <2>1. jobs' = jobs
    BY <1>4 DEF CallerStep, EnqueueBegin, EnqueueEnd, EnqueueNotify, WaitCheck, WaitTimesOut,
                Return, Reuse, queueVars
  <2> QED
    BY <2>1 DEF QuietJob
<1> QED
  BY <1>1, <1>2, <1>3, <1>4

LEMMA ControlQuiet ==
  ASSUME Types, Control, Unannounced, NEW c \in Cids
  PROVE  QuietJob(c)
<1>1. ~NotifyAll
  BY DEF NotifyAll, Unannounced
<1>2. ASSUME NEW b \in Cids, CancelDownload(b) PROVE FALSE
  BY <1>1, <1>2 DEF CancelDownload
<1>3. CASE CloseQueue
  BY <1>1, <1>3 DEF CloseQueue
<1>4. ASSUME NEW b \in Cids, PrioritizeDownload(b) PROVE jobs' = jobs
  BY <1>4, PrioritizeWakes DEF PrioritizeDownload
<1>5. ASSUME NEW f \in Folders, ForgetDestsUnder(f) PROVE QuietJob(c)
  <2>1. jobs[c] \in Job
    BY JobType
  <2>2. jobs'[c] = [jobs[c] EXCEPT !.dests = @ \ Under(f),
                      !.forgotten = IF jobs[c].state = "active"
                                    THEN @ \cup (jobs[c].dests \cap Under(f)) ELSE @]
    BY <1>5 DEF ForgetDestsUnder
  <2> QED
    BY <2>1, <2>2 DEF Job, QuietJob
<1>6. CASE /\ ~CloseQueue /\ ~\E f \in Folders : ForgetDestsUnder(f)
           /\ ~\E b \in Cids : CancelDownload(b) \/ PrioritizeDownload(b)
  <2>1. jobs' = jobs
    BY <1>6 DEF Control, RequestCancel, ClearCancel, OpenQueue, DropRedirectsUnder, RemoveFolder,
                RedirectDestsUnder, SetMaxConcurrentDownloads, queueVars
  <2> QED
    BY <2>1 DEF QuietJob
<1> QED
  BY <1>2, <1>3, <1>4, <1>5, <1>6 DEF QuietJob

LEMMA JobsQuiet ==
  ASSUME Types, CallsInStep, [Next]_vars, Unannounced, NEW c \in Cids
  PROVE  QuietJob(c)
<1>1. ASSUME NEW w \in Slots, NEW b \in Cids, Dispatch(w, b) PROVE QuietJob(c)
  <2>1. jobs' = [jobs EXCEPT ![b].state = "active"] /\ jobs \in [Cids -> Job]
    BY <1>1, Dispatched DEF Types
  <2> QED
    BY <2>1 DEF QuietJob, Job
<1>2. ASSUME NEW w \in Slots, WorkerStep(w) PROVE jobs' = jobs
  <2>1. ~Finish(w)
    <3>1. Finish(w) => work'[w].pc = "notify"
      BY DEF Finish, Types, NoWork
    <3> QED
      BY <3>1 DEF Unannounced, NotifyPending
  <2> QED
    BY <1>2, <2>1 DEF WorkerStep, StartFetch, FetchReturns, PlaceNext, Retire, queueVars
<1>3. ASSUME NEW b \in Cids, BackoffElapses(b) PROVE QuietJob(c)
  BY <1>3 DEF BackoffElapses, QuietJob, Types, Job
<1>4. CASE DispatcherCheck \/ AcquireSlot \/ NothingReady \/ UNCHANGED vars
  BY <1>4 DEF DispatcherCheck, AcquireSlot, NothingReady, vars, queueVars, QuietJob
<1>5. CASE jobs' = jobs
  BY <1>5 DEF QuietJob
<1> QED
  BY <1>1, <1>2, <1>3, <1>4, <1>5, CallerQuiet, ControlQuiet DEF Next, DispatcherStep

\* The dispatcher falls asleep only where it sets its alarm.
LEMMA DispatcherFrom ==
  ASSUME [Next]_vars
  PROVE  dispatcher' = dispatcher \/ dispatcher'.pc # "asleep" \/ DispatcherCheck
<1>1. NotifyAll => dispatcher' = dispatcher \/ dispatcher'.pc # "asleep"
  BY DEF NotifyAll
<1>2. ASSUME NEW c \in Cids, Prioritize(c) PROVE dispatcher' = dispatcher \/ dispatcher'.pc # "asleep"
  BY <1>1, <1>2, Zenon DEF Prioritize
<1>3. ASSUME NEW k \in Callers, CallerStep(k)
      PROVE  dispatcher' = dispatcher \/ dispatcher'.pc # "asleep"
  <2>1. CASE Bump(k)
    <3>1. PICK i \in call[k].items : Prioritize(i.cid)
      BY <2>1 DEF Bump
    <3> QED
      BY <1>1, <3>1, Zenon DEF Prioritize
  <2>2. CASE ~Bump(k)
    BY <1>1, <1>3, <2>2 DEF CallerStep, EnqueueBegin, EnqueueTarget, EnqueueEnd, LatePlace,
         EnqueueNotify, Asleep, WaitCheck, WaitTimesOut, Return, Reuse
  <2> QED
    BY <2>1, <2>2
<1>4. CASE AcquireSlot \/ NothingReady \/ \E w \in Slots, c \in Cids : Dispatch(w, c)
  <2>1. \E pc \in {"check", "pick"} : dispatcher' = [pc |-> pc, alarm |-> {}]
    BY <1>4 DEF AcquireSlot, NothingReady, Dispatch
  <2> QED
    BY <2>1
<1>5. ASSUME NEW w \in Slots, WorkerStep(w)
      PROVE  dispatcher' = dispatcher \/ dispatcher'.pc # "asleep"
  BY <1>1, <1>5 DEF WorkerStep, StartFetch, FetchReturns, PlaceNext, Finish, Retire
<1>6. ASSUME NEW c \in Cids, BackoffElapses(c)
      PROVE  dispatcher' = dispatcher \/ dispatcher'.pc # "asleep"
  BY <1>6 DEF BackoffElapses
<1>7. CASE Control
  <2>1. ASSUME NEW c \in Cids, PrioritizeDownload(c)
        PROVE  dispatcher' = dispatcher \/ dispatcher'.pc # "asleep"
    BY <1>2, <2>1 DEF PrioritizeDownload
  <2> QED
    BY <1>1, <1>7, <2>1 DEF Control, CancelDownload, RequestCancel, ClearCancel, CloseQueue, OpenQueue,
         DropRedirectsUnder, ForgetDestsUnder, RemoveFolder, RedirectDestsUnder,
         SetMaxConcurrentDownloads
<1>8. CASE UNCHANGED vars
  BY <1>8 DEF vars
<1> QED
  BY <1>3, <1>4, <1>5, <1>6, <1>7, <1>8 DEF Next, DispatcherStep

LEMMA AlarmedNext ==
  ASSUME Types, CallsInStep, Alarmed, [Next]_vars
  PROVE  Alarmed'
<1> SUFFICES ASSUME dispatcher'.pc = "asleep", ~NotifyPending', NEW c \in Cids,
                    jobs'[c].state = "queued"
             PROVE  c \in dispatcher'.alarm /\ ~jobs'[c].ready
  BY DEF Alarmed
<1>1. Unannounced /\ ~NotifyPending
  BY NotifyComes DEF Unannounced
<1>2. CASE DispatcherCheck
  <2>1. jobs' = jobs /\ dispatcher' = [pc |-> "asleep", alarm |-> {b \in Cids : jobs[b].state = "queued"}]
    BY <1>2 DEF DispatcherCheck, queueVars
  <2>2. ~Ready(c)
    BY <1>2 DEF DispatcherCheck
  <2> QED
    BY <2>1, <2>2 DEF Ready
<1>3. CASE dispatcher' = dispatcher
  <2>1. ASSUME jobs[c].state = "queued" PROVE c \in dispatcher.alarm /\ ~jobs[c].ready
    BY <1>1, <1>3, <2>1 DEF Alarmed
  <2>2. ~BackoffElapses(c)
    BY <1>3, <2>1 DEF BackoffElapses
  <2>3. jobs[c].state = "queued" /\ jobs'[c].ready = jobs[c].ready
    BY <1>1, <2>2, JobsQuiet DEF QuietJob
  <2> QED
    BY <1>3, <2>1, <2>3
<1> QED
  BY <1>2, <1>3, DispatcherFrom

\* The dispatcher is never asleep with a job ready to be handed out and no notify on its
\* way: whatever is enqueued, rotated, prioritized or reopened, its alarm is set by the
\* jobs that are queued now (Q().Cv.wait_until in DispatcherLoop).
THEOREM DispatcherWakes == Spec => []DispatcherAwake
<1>1. Init => CallsInStep /\ Alarmed
  BY DEF Init, NoCall, CallsInStep, CallInStep, Alarmed
<1>2. TypeOK /\ CallsInStep /\ Alarmed /\ [Next]_vars => CallsInStep' /\ Alarmed'
  BY CallsInStepNext, AlarmedNext DEF TypeOK
<1>3. Alarmed => DispatcherAwake
  BY DEF Alarmed, DispatcherAwake, Ready
<1> QED
  BY <1>1, <1>2, <1>3, TypeCorrect, PTL DEF Spec

\* In a closed queue nothing waits for its turn.
ClosedStaysEmpty == closed => \A c \in Cids : jobs[c].state # "queued"

\* A sleeper's call stays as it is; a caller falls asleep only with something to wait for.
LEMMA SleepersFrom ==
  ASSUME Types, CallsInStep, [Next]_vars, NEW k \in Callers, k \in asleep'
  PROVE  \/ k \in asleep /\ call'[k] = call[k]
         \/ call' = call /\ jobs' = jobs /\ ~Decided(k)
<1>1. ASSUME CallerStep(k) PROVE call' = call /\ jobs' = jobs /\ ~Decided(k)
  <2>1. CASE EnqueueTarget(k)
    BY <2>1, TargetStep DEF CallsInStep, CallInStep
  <2>2. CASE ~EnqueueTarget(k)
    <3>1. call'[k].pc = "wait"
      BY <1>1, <2>2, CallStep
    <3>2. call \in [Callers -> Call]
      BY DEF Types
    <3>3. ~(\E b \in Batches : EnqueueBegin(k, b)) /\ ~EnqueueEnd(k) /\ ~Reuse(k)
      <4>1. ~\E b \in Batches : EnqueueBegin(k, b)
        BY <3>1, <3>2 DEF EnqueueBegin, NoCall
      <4>2. call[k] \in Call
        BY <3>2
      <4>3. ~EnqueueEnd(k)
        BY <3>1, <3>2, <4>2 DEF EnqueueEnd, Call
      <4>4. ~Reuse(k)
        BY <3>1, <3>2 DEF Reuse, NoCall
      <4> QED
        BY <4>1, <4>3, <4>4
    <3>4. ~LatePlace(k) /\ ~EnqueueNotify(k)
      BY DEF LatePlace, EnqueueNotify, CallsInStep, CallInStep, NotifyAll, Asleep
    <3>5. ~Bump(k)
      <4>1. ASSUME Bump(k) PROVE FALSE
        <5>1. PICK i \in call[k].items : Prioritize(i.cid)
          BY <4>1 DEF Bump
        <5>2. k \in asleep
          BY <5>1, Zenon DEF Prioritize, NotifyAll
        <5> QED
          BY <4>1, <5>2 DEF Bump, CallsInStep, CallInStep
      <4> QED
        BY <4>1
    <3>6. ~WaitTimesOut(k)
      BY DEF WaitTimesOut, Return
    <3>7. WaitCheck(k)
      BY <1>1, <2>2, <3>3, <3>4, <3>5, <3>6 DEF CallerStep
    <3> QED
      BY <3>7 DEF WaitCheck, Return, queueVars
  <2> QED
    BY <2>1, <2>2
<1>2. ASSUME NEW h \in Callers \ {k}, CallerStep(h) PROVE k \in asleep /\ call'[k] = call[k]
  BY <1>2, CallStep, TargetStep
<1>3. CASE ~\E h \in Callers : CallerStep(h)
  BY <1>3, CallsUnchanged
<1> QED
  BY <1>1, <1>2, <1>3

\* A job that ends unannounced has a worker that is yet to settle it.
LEMMA EndsUnannounced ==
  ASSUME Worked, CallsInStep, ClosedStaysEmpty, [Next]_vars, Unannounced, NEW c \in Cids,
         jobs[c].state \in {"queued", "active"}, jobs'[c].state \in {"done", "failed"}
  PROVE  \E w \in Slots : Runs(w, c)
<1>1. ~BackoffElapses(c)
  BY DEF BackoffElapses, Worked, TypeOK, Types, Job
<1>2. jobs[c].state = "active"
  BY <1>1, JobsQuiet DEF QuietJob, ClosedStaysEmpty, Worked, TypeOK
<1> QED
  BY <1>2 DEF Worked, ActiveHasWorker

LEMMA SleepersNext ==
  ASSUME Worked, CallsInStep, ClosedStaysEmpty, NoLostWakeup, [Next]_vars
  PROVE  NoLostWakeup'
<1>1. TypeOK /\ Types
  BY DEF Worked, TypeOK
<1> SUFFICES ASSUME NEW k \in asleep', Decided(k)', ~NotifyPending'
             PROVE  \E i \in call'[k].items, w \in Slots : Runs(w, i.cid)'
  BY DEF NoLostWakeup
<1>2. Unannounced /\ ~NotifyPending /\ k \in Callers
  <2>1. Types'
    BY <1>1, NextType DEF TypeOK
  <2> QED
    BY <1>1, <2>1, NotifyComes DEF Unannounced, Types
<1>3. k \in asleep /\ call'[k] = call[k]
  <2>1. call' = call /\ jobs' = jobs => (Decided(k)' <=> Decided(k))
    BY DEF Decided, BatchFailed, BatchDone
  <2> QED
    BY <1>1, <1>2, <2>1, SleepersFrom
<1>4. ASSUME NEW i \in call[k].items, NEW w \in Slots, Runs(w, i.cid)
      PROVE  \E j \in call'[k].items, v \in Slots : Runs(v, j.cid)'
  <2>1. i.cid \in Cids
    BY <1>1, <1>2, ItemType
  <2>2. ~Finish(w)
    BY <1>1, <1>2 DEF Finish, Types, NoWork, Unannounced, NotifyPending
  <2> QED
    BY <1>1, <1>3, <1>4, <2>1, <2>2, RunsOn
<1>5. CASE Decided(k)
  BY <1>2, <1>3, <1>4, <1>5 DEF NoLostWakeup
<1>6. CASE ~Decided(k)
  <2>1. \A i \in call[k].items : i.cid \in Cids /\ jobs[i.cid].state # "none"
                                   /\ jobs[i.cid].state \in States
    BY <1>1, <1>2, ItemType, JobType DEF CallsInStep, CallInStep, Job
  <2>2. PICK i \in call[k].items : /\ jobs[i.cid].state \in {"queued", "active"}
                                   /\ jobs'[i.cid].state \in {"done", "failed"}
    <3>1. ASSUME BatchDone(k)'
          PROVE  \E i \in call[k].items : /\ jobs[i.cid].state \in {"queued", "active"}
                                          /\ jobs'[i.cid].state \in {"done", "failed"}
      <4>1. PICK i \in call[k].items : jobs[i.cid].state \notin {"none", "done", "failed"}
        BY <1>6 DEF Decided, BatchDone
      <4>2. jobs'[i.cid].state \in {"none", "done", "failed"}
        BY <1>3, <3>1 DEF BatchDone
      <4>3. jobs'[i.cid].state # "none"
        BY <1>1, <2>1, KnownStays DEF TypeOK
      <4> QED
        BY <2>1, <4>1, <4>2, <4>3 DEF States
    <3>2. ASSUME BatchFailed(k)'
          PROVE  \E i \in call[k].items : /\ jobs[i.cid].state \in {"queued", "active"}
                                          /\ jobs'[i.cid].state \in {"done", "failed"}
      <4>1. PICK i \in call[k].items : jobs'[i.cid].state = "failed" /\ ~i.optional
        BY <1>3, <3>2 DEF BatchFailed
      <4>2. jobs[i.cid].state # "failed"
        BY <1>6, <4>1 DEF Decided, BatchFailed
      <4>3. jobs[i.cid].state # "done"
        <5>1. QuietJob(i.cid)
          BY <1>1, <1>2, <2>1, JobsQuiet
        <5> QED
          BY <4>1, <5>1 DEF QuietJob, BackoffElapses
      <4> QED
        BY <2>1, <4>1, <4>2, <4>3 DEF States
    <3> QED
      BY <3>1, <3>2 DEF Decided
  <2>3. \E w \in Slots : Runs(w, i.cid)
    BY <1>2, <2>1, <2>2, EndsUnannounced
  <2> QED
    BY <1>4, <2>3
<1> QED
  BY <1>5, <1>6

\* Neither a waiter of a batch nor the dispatcher sleeps past what it waits for, as
\* long as a closed queue holds nothing that waits for its turn. (A late placement that
\* fails a job in flight breaks that: the fetch is then not among the active ones that
\* CloseQueue aborts, and rotates back into the closed queue.)
THEOREM NobodySleepsOn == Spec /\ []ClosedStaysEmpty => []NobodyOversleeps
<1>1. Init => CallsInStep /\ NoLostWakeup
  BY DEF Init, NoCall, CallsInStep, CallInStep, NoLostWakeup
<1>2. /\ Worked /\ CallsInStep /\ NoLostWakeup /\ ClosedStaysEmpty /\ [Next]_vars
      => Worked' /\ CallsInStep' /\ NoLostWakeup'
  BY WorkedNext, CallsInStepNext, SleepersNext DEF Worked
<1>3. NoLostWakeup /\ DispatcherAwake => NobodyOversleeps
  BY DEF NobodyOversleeps
<1> QED
  BY <1>1, <1>2, <1>3, WorkedInit, DispatcherWakes, PTL DEF Spec

--------------------------------------------------------------------------------
(* A cancel sticks; a preempted fetch is not failed; a closed queue stays empty *)

\* The worker of c settles it.
Settles(c) == \E w \in Slots : Finish(w) /\ work[w].cid = c

\* How the state of a job changes while no worker settles it.
Drifts(c) ==
  /\ jobs[c].state = "active" =>
        \/ jobs'[c].state = "active"
        \/ jobs'[c].state = "failed" /\ (closed \/ \E k \in Callers : LatePlace(k))
  /\ jobs'[c].state = "queued" /\ jobs[c].state # "queued" => ~closed

LEMMA CallerDrifts ==
  ASSUME Types, NEW k \in Callers, CallerStep(k), NEW c \in Cids
  PROVE  Drifts(c)
<1>1. CASE EnqueueTarget(k)
  <2>1. PICK b \in Cids :
          /\ \A a \in Cids \ {b} : jobs'[a].state = jobs[a].state
          /\ \/ closed /\ jobs'[b].state = IF jobs[b].state = "done" THEN "done" ELSE "failed"
             \/ ~closed /\ jobs'[b].state \in Queue!Asked(jobs[b].state)
    BY <1>1, TargetStep
  <2> QED
    BY <2>1 DEF Drifts, Queue!Asked
<1>2. CASE LatePlace(k)
  <2>1. PICK l \in call[k].late : \/ jobs' = jobs
                                  \/ jobs' = [jobs EXCEPT ![l.cid].state = "failed"]
    BY <1>2, Zenon DEF LatePlace
  <2>2. jobs'[c].state = jobs[c].state \/ jobs'[c].state = "failed"
    BY <2>1 DEF Types, Job
  <2> QED
    BY <1>2, <2>2 DEF Drifts
<1>3. CASE Bump(k)
  <2>1. PICK i \in call[k].items : Prioritize(i.cid)
    BY <1>3 DEF Bump
  <2>2. jobs'[c].state = jobs[c].state
    BY <2>1 DEF Prioritize, Types, Job
  <2> QED
    BY <2>2 DEF Drifts
<1>4. CASE ~EnqueueTarget(k) /\ ~LatePlace(k) /\ ~Bump(k)
  <2>1. jobs' = jobs
    BY <1>4 DEF CallerStep, EnqueueBegin, EnqueueEnd, EnqueueNotify, WaitCheck, WaitTimesOut,
                Return, Reuse, queueVars
  <2> QED
    BY <2>1 DEF Drifts
<1> QED
  BY <1>1, <1>2, <1>3, <1>4

LEMMA ControlDrifts ==
  ASSUME Types, Control, NEW c \in Cids
  PROVE  Drifts(c)
<1>1. ASSUME NEW b \in Cids, CancelDownload(b) PROVE Drifts(c)
  BY <1>1 DEF CancelDownload, Types, Job, Drifts
<1>2. CASE CloseQueue
  <2>1. jobs[c] \in Job
    BY JobType
  <2>2. jobs'[c] = IF jobs[c].state = "queued" THEN [jobs[c] EXCEPT !.state = "failed"] ELSE jobs[c]
    BY <1>2 DEF CloseQueue
  <2> QED
    BY <2>1, <2>2 DEF Drifts, Job
<1>3. ASSUME NEW b \in Cids, PrioritizeDownload(b) PROVE Drifts(c)
  <2>1. jobs'[c].state = jobs[c].state
    BY <1>3 DEF PrioritizeDownload, Prioritize, Types, Job
  <2> QED
    BY <2>1 DEF Drifts
<1>4. ASSUME NEW f \in Folders, ForgetDestsUnder(f) PROVE Drifts(c)
  <2>1. jobs[c] \in Job
    BY JobType
  <2>2. jobs'[c] = [jobs[c] EXCEPT !.dests = @ \ Under(f),
                      !.forgotten = IF jobs[c].state = "active"
                                    THEN @ \cup (jobs[c].dests \cap Under(f)) ELSE @]
    BY <1>4 DEF ForgetDestsUnder
  <2> QED
    BY <2>1, <2>2 DEF Job, Drifts
<1>5. CASE /\ ~CloseQueue /\ ~\E f \in Folders : ForgetDestsUnder(f)
           /\ ~\E b \in Cids : CancelDownload(b) \/ PrioritizeDownload(b)
  <2>1. jobs' = jobs
    BY <1>5 DEF Control, RequestCancel, ClearCancel, OpenQueue, DropRedirectsUnder, RemoveFolder,
                RedirectDestsUnder, SetMaxConcurrentDownloads, queueVars
  <2> QED
    BY <2>1 DEF Drifts
<1> QED
  BY <1>1, <1>2, <1>3, <1>4, <1>5

LEMMA JobDrifts ==
  ASSUME Types, Aimed, [Next]_vars, NEW c \in Cids, ~Settles(c)
  PROVE  Drifts(c)
<1>1. ASSUME NEW w \in Slots, NEW b \in Cids, Dispatch(w, b) PROVE Drifts(c)
  <2>1. jobs' = [jobs EXCEPT ![b].state = "active"] /\ jobs \in [Cids -> Job]
    BY <1>1, Dispatched DEF Types
  <2> QED
    BY <2>1 DEF Drifts, Job
<1>2. ASSUME NEW w \in Slots, WorkerStep(w) PROVE jobs'[c] = jobs[c]
  <2>1. CASE Finish(w)
    <3>1. work[w].cid # c
      BY <2>1 DEF Settles
    <3>2. \E j : jobs' = [jobs EXCEPT ![work[w].cid] = j]
      BY <2>1, Zenon DEF Finish
    <3> QED
      BY <3>1, <3>2 DEF Types
  <2> QED
    BY <1>2, <2>1 DEF WorkerStep, StartFetch, FetchReturns, PlaceNext, Retire, queueVars
<1>3. ASSUME NEW b \in Cids, BackoffElapses(b) PROVE jobs'[c].state = jobs[c].state
  BY <1>3 DEF BackoffElapses, Types, Job
<1>4. CASE DispatcherCheck \/ AcquireSlot \/ NothingReady \/ UNCHANGED vars
  <2>1. jobs' = jobs
    BY <1>4 DEF DispatcherCheck, AcquireSlot, NothingReady, vars, queueVars
  <2> QED
    BY <2>1 DEF Drifts
<1>5. CASE jobs'[c].state = jobs[c].state
  BY <1>5 DEF Drifts
<1> QED
  BY <1>1, <1>2, <1>3, <1>4, <1>5, CallerDrifts, ControlDrifts DEF Next, DispatcherStep

\* What its own worker makes of a job.
LEMMA SettlesStep ==
  ASSUME Types, Aimed, NEW w \in Slots, Finish(w)
  PROVE  LET c == work[w].cid
         IN /\ c \in Cids
            /\ c \in userCancelled => jobs'[c].state = "failed"
            /\ c \in preempting /\ c \notin userCancelled /\ ~work[w].bad => jobs'[c].state # "failed"
<1> DEFINE c == work[w].cid
           j == [jobs[c] EXCEPT !.forgotten = {}]
<1>1. c \in Cids
  BY DEF Finish, Aimed, Running
<1>2. jobs' = [jobs EXCEPT ![c] = Settled(j, w)]
  BY Zenon DEF Finish
<1>3. jobs'[c] = Settled(j, w)
  BY <1>1, <1>2 DEF Types
<1>4. j \in Job
  <2>1. jobs[c] \in Job
    BY <1>1, JobType
  <2>2. QED
    BY <2>1, SMTT(30) DEF Job
<1>5. /\ c \in userCancelled => Settled(j, w) = [j EXCEPT !.state = "failed"]
      /\ c \in preempting /\ c \notin userCancelled /\ ~work[w].bad =>
           Settled(j, w) = [j EXCEPT !.state = "done"] \/ Settled(j, w) = Rotated(j, FALSE)
  BY DEF Settled
<1>6. /\ [j EXCEPT !.state = "failed"].state = "failed" /\ [j EXCEPT !.state = "done"].state = "done"
      /\ Rotated(j, FALSE).state = "queued"
  BY <1>4 DEF Job, Rotated
<1> QED
  BY <1>1, <1>3, <1>5, <1>6

\* An active fetch the user cancelled ends Failed, whatever the node answers and whoever
\* preempts it in the same moment: it never goes back to the queue (RunJob's outcome).
THEOREM CancelledFetchFails == Spec => CancelSticks
<1> DEFINE Sticks == \A c \in Cids : jobs[c].state = "active" /\ c \in userCancelled
                                       => jobs'[c].state \in {"active", "failed"}
<1>1. ASSUME TypeOK, [Next]_vars PROVE Sticks
  <2> SUFFICES ASSUME NEW c \in Cids, jobs[c].state = "active", c \in userCancelled
               PROVE  jobs'[c].state \in {"active", "failed"}
    OBVIOUS
  <2>1. Types /\ Aimed
    BY <1>1 DEF TypeOK
  <2>2. CASE Settles(c)
    BY <2>1, <2>2, SettlesStep DEF Settles
  <2>3. CASE ~Settles(c)
    BY <1>1, <2>1, <2>3, JobDrifts DEF Drifts
  <2> QED
    BY <2>2, <2>3
<1> QED
  BY <1>1, TypeCorrect, PTL DEF Spec, CancelSticks

\* A fetch pushed aside for a launch is requeued, or done if it finished first: its own
\* cancel flag never fails it.
THEOREM PreemptedFetchStays == Spec => PreemptedNotFailed
<1> DEFINE Stays == \A w \in Slots : LET c == work[w].cid IN
                      Running(w) /\ c \in preempting /\ c \notin userCancelled /\ ~work[w].bad
                        /\ ~Running(w)' => jobs'[c].state # "failed"
<1>1. ASSUME TypeOK, [Next]_vars PROVE Stays
  <2> SUFFICES ASSUME NEW w \in Slots, NEW c, c = work[w].cid, Running(w), c \in preempting,
                      c \notin userCancelled, ~work[w].bad, ~Running(w)'
               PROVE  jobs'[c].state # "failed"
    OBVIOUS
  <2>1. Types /\ Aimed
    BY <1>1 DEF TypeOK
  <2>2. Runs(w, c) /\ c \in Cids
    BY <2>1 DEF Runs, Aimed
  <2>3. Finish(w)
    BY <1>1, <2>1, <2>2, RunsOn DEF Runs
  <2> QED
    BY <2>1, <2>3, SettlesStep
<1> QED
  BY <1>1, TypeCorrect, PTL DEF Spec, PreemptedNotFailed

\* A fetch in flight is active; once the queue is closed, it is marked to be aborted.
InFlight ==
  \A w \in Slots, c \in Cids : Runs(w, c) =>
     IF closed THEN c \in userCancelled ELSE jobs[c].state = "active"

FetchedOnce == \A v, w \in Slots, c \in Cids : Runs(v, c) /\ Runs(w, c) => v = w

\* A late placement fails a job only when nothing fetches it.
LateSparesActive ==
  [][\A k \in Callers, c \in Cids :
        LatePlace(k) /\ jobs[c].state = "active" => jobs'[c].state # "failed"]_vars

\* A fetch in flight has just been dispatched, or was in flight and is not settled.
LEMMA RunsFrom ==
  ASSUME Types, [Next]_vars, NEW v \in Slots, NEW c \in Cids, Runs(v, c)'
  PROVE  Dispatch(v, c) \/ (Runs(v, c) /\ ~Finish(v))
<1>1. ~Finish(v)
  BY DEF Finish, Types, NoWork, Runs, Running
<1>2. CASE UNCHANGED work
  BY <1>1, <1>2 DEF Runs, Running
<1>3. ASSUME NEW w \in Slots, NEW b \in Cids, Dispatch(w, b)
      PROVE  Dispatch(v, c) \/ Runs(v, c)
  BY <1>3, Dispatched DEF Runs, Running
<1>4. ASSUME NEW w \in Slots, WorkerStep(w) PROVE Runs(v, c)
  <2>1. CASE v # w
    <3>1. work'[v] = work[v]
      BY <1>4, <2>1, OthersUnchanged
    <3> QED
      BY <3>1 DEF Runs, Running
  <2>2. CASE v = w
    <3>1. ~Retire(w)
      BY <2>2 DEF Retire, Types, NoWork, Runs, Running
    <3>2. StartFetch(w) \/ FetchReturns(w) \/ PlaceNext(w)
      BY <1>1, <1>4, <2>2, <3>1 DEF WorkerStep
    <3> QED
      BY <2>2, <3>2, FetchGoesOn DEF Runs, Running
  <2> QED
    BY <2>1, <2>2
<1> QED
  BY <1>1, <1>2, <1>3, <1>4, WorkUnchanged DEF Next, DispatcherStep

\* The queue is closed and opened by the user, and a mark is taken away by the worker.
LEMMA ClosedFrom ==
  ASSUME Types, [Next]_vars
  PROVE  /\ closed' = closed \/ CloseQueue \/ OpenQueue
         /\ \A c \in userCancelled : c \notin userCancelled' => Settles(c)
<1>1. ASSUME NEW k \in Callers, CallerStep(k) PROVE UNCHANGED <<closed, userCancelled>>
  BY <1>1 DEF CallerStep, EnqueueBegin, EnqueueTarget, EnqueueEnd, LatePlace, EnqueueNotify, Bump,
              WaitCheck, WaitTimesOut, Return, Reuse, queueVars
<1>2. CASE DispatcherStep
  BY <1>2 DEF DispatcherStep, DispatcherCheck, AcquireSlot, NothingReady, Dispatch, queueVars
<1>3. ASSUME NEW w \in Slots, WorkerStep(w)
      PROVE  closed' = closed /\ \A c \in userCancelled : c \notin userCancelled' => Settles(c)
  <2>1. CASE Finish(w)
    BY <2>1 DEF Finish, Settles
  <2> QED
    BY <1>3, <2>1 DEF WorkerStep, StartFetch, FetchReturns, PlaceNext, Retire, queueVars
<1>4. ASSUME NEW c \in Cids, BackoffElapses(c) PROVE UNCHANGED <<closed, userCancelled>>
  BY <1>4 DEF BackoffElapses
<1>5. ASSUME Control, ~CloseQueue, ~OpenQueue
      PROVE  closed' = closed /\ userCancelled \subseteq userCancelled'
  BY <1>5 DEF Control, CancelDownload, PrioritizeDownload, RequestCancel, ClearCancel,
              DropRedirectsUnder, ForgetDestsUnder, RemoveFolder, RedirectDestsUnder,
              SetMaxConcurrentDownloads, queueVars
<1>6. CASE CloseQueue \/ OpenQueue
  BY <1>6 DEF CloseQueue, OpenQueue
<1>7. CASE UNCHANGED vars
  BY <1>7 DEF vars, queueVars
<1> QED
  BY <1>1, <1>2, <1>3, <1>4, <1>5, <1>6, <1>7 DEF Next

LEMMA ClosedNext ==
  ASSUME Worked, InFlight, FetchedOnce, ClosedStaysEmpty, ~OpenQueue,
         \A k \in Callers, c \in Cids :
           LatePlace(k) /\ jobs[c].state = "active" => jobs'[c].state # "failed",
         [Next]_vars
  PROVE  InFlight' /\ FetchedOnce' /\ ClosedStaysEmpty'
<1>1. Types /\ Aimed /\ Types'
  BY NextType DEF Worked, TypeOK
<1>2. ~OpenQueue
  OBVIOUS
<1>3. ASSUME NEW w \in Slots, NEW c \in Cids, Dispatch(w, c)
      PROVE  /\ jobs[c].state = "queued" /\ ~closed /\ closed' = closed /\ jobs'[c].state = "active"
             /\ \A v \in Slots : ~Runs(v, c)
  <2>1. jobs[c].state = "queued" /\ jobs'[c].state = "active"
    BY <1>1, <1>3, Dispatched DEF Types, Job
  <2>2. ~closed
    BY <2>1 DEF ClosedStaysEmpty
  <2>3. closed' = closed
    BY <1>3 DEF Dispatch
  <2> QED
    BY <2>1, <2>2, <2>3 DEF InFlight
<1>4. FetchedOnce'
  <2> SUFFICES ASSUME NEW v \in Slots, NEW w \in Slots, NEW c \in Cids, Runs(v, c)', Runs(w, c)', v # w
               PROVE  FALSE
    BY DEF FetchedOnce
  <2>1. ~Dispatch(v, c)
    <3>1. Dispatch(v, c) => work'[w] = work[w]
      BY <1>1, Dispatched
    <3> QED
      BY <1>3, <3>1 DEF Runs, Running
  <2>2. ~Dispatch(w, c)
    <3>1. Dispatch(w, c) => work'[v] = work[v]
      BY <1>1, Dispatched
    <3> QED
      BY <1>3, <3>1 DEF Runs, Running
  <2> QED
    BY <1>1, <2>1, <2>2, RunsFrom DEF FetchedOnce
<1>5. ASSUME NEW v \in Slots, NEW c \in Cids, Runs(v, c), ~Finish(v) PROVE ~Settles(c)
  BY <1>5 DEF Settles, FetchedOnce, Runs, Finish, Running
<1>6. InFlight'
  <2> SUFFICES ASSUME NEW v \in Slots, NEW c \in Cids, Runs(v, c)'
               PROVE  IF closed' THEN c \in userCancelled' ELSE jobs'[c].state = "active"
    BY DEF InFlight
  <2>1. CASE Dispatch(v, c)
    BY <1>3, <2>1
  <2>2. CASE Runs(v, c) /\ ~Finish(v)
    <3>1. ~Settles(c) /\ Drifts(c)
      BY <1>1, <1>5, <2>2, JobDrifts
    <3>2. CASE closed
      BY <1>1, <1>2, <2>2, <3>1, <3>2, ClosedFrom DEF InFlight, CloseQueue
    <3>3. CASE ~closed
      <4>1. jobs[c].state = "active"
        BY <2>2, <3>3 DEF InFlight
      <4>2. CASE CloseQueue
        BY <4>1, <4>2 DEF CloseQueue, Active
      <4>3. CASE ~CloseQueue
        <5>1. closed' = closed
          BY <1>1, <1>2, <4>3, ClosedFrom
        <5> QED
          BY <3>1, <3>3, <4>1, <5>1 DEF Drifts
      <4> QED
        BY <4>2, <4>3
    <3> QED
      BY <3>2, <3>3
  <2> QED
    BY <1>1, <2>1, <2>2, RunsFrom
<1>7. ClosedStaysEmpty'
  <2> SUFFICES ASSUME closed', NEW c \in Cids, jobs'[c].state = "queued" PROVE FALSE
    BY DEF ClosedStaysEmpty
  <2>1. ~CloseQueue
    <3>1. jobs[c] \in Job
      BY <1>1, JobType
    <3>2. CloseQueue => jobs'[c] = IF jobs[c].state = "queued" THEN [jobs[c] EXCEPT !.state = "failed"]
                                                               ELSE jobs[c]
      BY DEF CloseQueue
    <3> QED
      BY <3>1, <3>2 DEF Job
  <2>2. closed /\ jobs[c].state # "queued"
    BY <1>1, <1>2, <2>1, ClosedFrom DEF ClosedStaysEmpty
  <2>3. Settles(c)
    BY <1>1, <2>2, JobDrifts DEF Drifts
  <2>4. PICK w \in Slots : Finish(w) /\ work[w].cid = c
    BY <2>3 DEF Settles
  <2>5. Runs(w, c)
    BY <2>4 DEF Runs, Running, Finish
  <2> QED
    BY <1>1, <2>2, <2>4, <2>5, SettlesStep DEF InFlight
<1> QED
  BY <1>4, <1>6, <1>7

\* Unless a late placement fails a job while it is fetched, or the queue is opened again,
\* a CID is fetched by one worker at a time, and a closed queue holds nothing that waits
\* for its turn: CloseQueue aborts every fetch in flight, whatever the node answers.
THEOREM ClosedQueueEmpties ==
  ASSUME <<"open">> \notin Calls
  PROVE  Spec /\ LateSparesActive => [](ClosedStaysEmpty /\ FetchedOnce)
<1>1. Init => InFlight /\ FetchedOnce /\ ClosedStaysEmpty
  BY DEF Init, NoWork, InFlight, FetchedOnce, ClosedStaysEmpty, Runs, Running
<1> DEFINE Spares == \A k \in Callers, c \in Cids :
                       LatePlace(k) /\ jobs[c].state = "active" => jobs'[c].state # "failed"
<1>2. /\ Worked /\ InFlight /\ FetchedOnce /\ ClosedStaysEmpty /\ [Spares]_vars /\ [Next]_vars
      => Worked' /\ InFlight' /\ FetchedOnce' /\ ClosedStaysEmpty'
  <2> SUFFICES ASSUME Worked, InFlight, FetchedOnce, ClosedStaysEmpty, [Spares]_vars, [Next]_vars
               PROVE  Worked' /\ InFlight' /\ FetchedOnce' /\ ClosedStaysEmpty'
    OBVIOUS
  <2>1. CASE Spares
    BY <2>1, WorkedNext, ClosedNext DEF OpenQueue
  <2>2. CASE UNCHANGED vars
    BY <2>2, WorkedNext DEF vars, queueVars, InFlight, FetchedOnce, ClosedStaysEmpty, Runs, Running
  <2> QED
    BY <2>1, <2>2
<1> QED
  BY <1>1, <1>2, WorkedInit, PTL DEF Spec, LateSparesActive

================================================================================
