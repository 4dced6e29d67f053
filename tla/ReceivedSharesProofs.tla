-------------------------- MODULE ReceivedSharesProofs --------------------------
(***************************************************************************)
(* Proofs about what is received from a friend, for every library, every   *)
(* sequence of snapshots and every number of toggles: in CATALOG there is  *)
(* never, at rest, a node file of a generation the friend no longer        *)
(* shares, nor anything at all once receiving stopped.                     *)
(*                                                                         *)
(* Neither holds while something is under way, so the invariant names, for *)
(* each way a stub may be wrong, what is still to come that rights it.     *)
(***************************************************************************)
EXTENDS ReceivedShares, TLAPS

FolderJobs == {w \in wanted : w[1] \in Folders}

Stubs == [Packages -> [dir : BOOLEAN, nodes : SUBSET Nodes]]

Jobs == (Folders \cup Nodes) \X Packages

\* What Now and Dropped are of.
Parts == [stubs : Stubs, wanted : SUBSET Jobs, browse : SUBSET Folders,
          swept : BOOLEAN, torn : BOOLEAN]

--------------------------------------------------------------------------------
(* The inductive invariant *)

\* Without receiving nothing is recorded, and what is still on its way is known to
\* be unwanted: by the pass that runs, as one that timed out, or by torn.
Stopped ==
  ~receiving =>
    /\ record = {}
    /\ pass.pc # "off" => dirty
    /\ FolderJobs = {} \/ torn
    /\ stubs = NoStubs \/ dirty \/ late # {} \/ torn

\* An installed package has no stub, and no folder of it is asked for.
Installed == \A p \in library : stubs[p] = NoStub /\ \A w \in FolderJobs : w[2] # p

\* No node file lies outside a folder.
InFolders == \A p \in Packages : ~stubs[p].dir => stubs[p].nodes = {}

\* A folder asked for goes to the package it is of, and its landing sets the timer.
Asked == \A w \in FolderJobs : w[2] = PkgOf[w[1]] /\ (torn \/ w[1] \in browse)

\* A node file is asked for by the pass that waits for it, or one gave it up.
Waited ==
  /\ \A w \in wanted : w[1] \in Nodes => w \in pass.left \cup late
  /\ pass.left # {} => pass.pc = "wait"

\* What is recorded is installed, listed or asked for, once the node is up.
Followed ==
  ready => \A f \in record : PkgOf[f] \in library \/ f \in held \/ <<f, PkgOf[f]>> \in wanted

\* A node file of another generation is there only while something is to come that
\* takes it away: the folder's landing, the timer, the end of a pass.
MixedForNow ==
  \/ ~ready \/ timer \/ pass.pc # "off" \/ late # {} \/ torn
  \/ \A f \in record : stubs[PkgOf[f]].nodes \subseteq Lists[f] \/ <<f, PkgOf[f]>> \in wanted

IInv ==
  /\ TypeOK
  /\ Stopped /\ Installed /\ InFolders /\ Asked /\ Waited /\ Followed /\ MixedForNow

--------------------------------------------------------------------------------
(* Lemmas about the parts of the slots *)

LEMMA StubForm ==
  ASSUME NEW st \in Stubs, \A p \in Packages : ~st[p].dir /\ st[p].nodes = {}
  PROVE  st = NoStubs
<1>1. \A p \in Packages : st[p] = NoStub
  <2>1. TAKE p \in Packages
  <2>2. st[p] \in [dir : BOOLEAN, nodes : SUBSET Nodes] /\ ~st[p].dir /\ st[p].nodes = {}
    BY DEF Stubs
  <2>3. QED
    BY <2>2 DEF NoStub
<1>2. st \in [Packages -> [dir : BOOLEAN, nodes : SUBSET Nodes]]
  BY DEF Stubs
<1>3. QED
  BY <1>1, <1>2 DEF NoStubs

\* PruneStaleReceived takes node files only, and leaves those the listings name.
LEMMA PrunedFacts ==
  ASSUME NEW st \in Stubs, NEW cfg \in SUBSET Folders
  PROVE  /\ Pruned(st, cfg) \in Stubs
         /\ \A p \in Packages : /\ Pruned(st, cfg)[p].dir = st[p].dir
                                /\ Pruned(st, cfg)[p].nodes \subseteq st[p].nodes
                                /\ st[p] = NoStub => Pruned(st, cfg)[p] = NoStub
         /\ \A f \in ReceivedPackageFolders(st, cfg) :
               Pruned(st, cfg)[PkgOf[f]].nodes \subseteq Lists[f]
         /\ cfg = {} => Pruned(st, cfg) = st
<1> DEFINE Kept(p) == {n \in st[p].nodes : \A f \in ReceivedPackageFolders(st, cfg) :
                                              PkgOf[f] = p => n \in Lists[f]}
           New(p) == [st[p] EXCEPT !.nodes = Kept(p)]
<1>1. Pruned(st, cfg) = [p \in Packages |-> New(p)]
  BY DEF Pruned
<1>2. \A p \in Packages : st[p] \in [dir : BOOLEAN, nodes : SUBSET Nodes]
  BY DEF Stubs
<1>3. \A p \in Packages : Kept(p) \subseteq st[p].nodes
  OBVIOUS
<1>4. \A p \in Packages : New(p) \in [dir : BOOLEAN, nodes : SUBSET Nodes]
                          /\ New(p).dir = st[p].dir /\ New(p).nodes = Kept(p)
  <2> HIDE DEF Kept
  <2>1. QED
    BY <1>2, <1>3
<1>5. \A p \in Packages : st[p] = NoStub => New(p) = NoStub
  <2>1. SUFFICES ASSUME NEW p \in Packages, st[p] = NoStub PROVE New(p) = NoStub
    OBVIOUS
  <2>2. Kept(p) = {}
    BY <2>1, <1>3 DEF NoStub
  <2>3. New(p) \in [dir : BOOLEAN, nodes : SUBSET Nodes] /\ New(p).dir = FALSE /\ New(p).nodes = {}
    BY <1>4, <2>1, <2>2 DEF NoStub
  <2> HIDE DEF New
  <2>4. QED
    BY <2>3 DEF NoStub
<1>6. \A f \in ReceivedPackageFolders(st, cfg) : PkgOf[f] \in Packages /\ Kept(PkgOf[f]) \subseteq Lists[f]
  BY SharesAssumption DEF ReceivedPackageFolders, Plan
<1>7. cfg = {} => Pruned(st, cfg) = st
  <2>1. SUFFICES ASSUME cfg = {} PROVE Pruned(st, cfg) = st
    OBVIOUS
  <2>2. ReceivedPackageFolders(st, cfg) = {}
    BY <2>1 DEF ReceivedPackageFolders, Plan
  <2>3. \A p \in Packages : New(p) = st[p]
    <3>1. TAKE p \in Packages
    <3>2. Kept(p) = st[p].nodes
      BY <2>2
    <3> HIDE DEF Kept
    <3>3. QED
      BY <3>2, <1>2
  <2> HIDE DEF New
  <2>4. QED
    BY <2>3, <1>1 DEF Stubs
<1> HIDE DEF New
<1>8. Pruned(st, cfg) \in Stubs
  BY <1>1, <1>4 DEF Stubs
<1> HIDE DEF Kept
<1>9. \A p \in Packages : Pruned(st, cfg)[p] = New(p)
  BY <1>1
<1>10. \A p \in Packages : /\ Pruned(st, cfg)[p].dir = st[p].dir
                           /\ Pruned(st, cfg)[p].nodes \subseteq st[p].nodes
                           /\ st[p] = NoStub => Pruned(st, cfg)[p] = NoStub
  BY <1>9, <1>3, <1>4, <1>5
<1>11. \A f \in ReceivedPackageFolders(st, cfg) :
         Pruned(st, cfg)[PkgOf[f]].nodes \subseteq Lists[f]
  BY <1>9, <1>4, <1>6
<1>12. QED
  BY <1>7, <1>8, <1>10, <1>11

\* dropReceivedStubs leaves no stub and no job for a folder, where it knows the
\* friend's folder; where it does not, torn says so.
LEMMA DroppedFacts ==
  ASSUME TypeOK, InFolders
  PROVE  /\ Dropped \in Parts
         /\ Dropped.stubs \in {stubs, NoStubs}
         /\ Dropped.stubs = NoStubs \/ Dropped.torn
         /\ Dropped.wanted \subseteq wanted
         /\ \A w \in Dropped.wanted : w[1] \in Folders => Dropped.torn
         /\ torn => Dropped.torn
<1> DEFINE known == IF record # {} THEN Plan(record) # {} ELSE swept
           there == known /\ \E p \in Packages : stubs[p].dir
           cancelled == Plan(record) \cap browse
           left == IF there THEN {} ELSE {w \in wanted : w[1] \notin cancelled}
           st == IF there THEN NoStubs ELSE stubs
           tn == torn \/ (~known /\ stubs # NoStubs) \/ \E w \in left : w[1] \in Folders
           sw == swept \/ known
           br == browse \ Plan(record)
<1>1. Dropped = [stubs |-> st, wanted |-> left, browse |-> br,
                 swept |-> sw, torn |-> tn]
  BY DEF Dropped
<1>2. left \subseteq wanted /\ left \in SUBSET Jobs
  BY DEF TypeOK, Jobs
<1>3. NoStubs \in Stubs /\ stubs \in Stubs
  BY DEF TypeOK, Stubs, NoStubs, NoStub
<1>4. st \in {stubs, NoStubs} /\ st \in Stubs
  BY <1>3
<1>5. known /\ ~there => stubs = NoStubs
  <2>1. SUFFICES ASSUME known, ~there PROVE stubs = NoStubs
    OBVIOUS
  <2>2. \A p \in Packages : ~stubs[p].dir /\ stubs[p].nodes = {}
    BY <2>1 DEF InFolders
  <2>3. QED
    BY <2>2, <1>3, StubForm
<1>6. known \in BOOLEAN /\ tn \in BOOLEAN
  BY DEF TypeOK
<1>7. st = NoStubs \/ tn
  BY <1>5
<1>8. br \in SUBSET Folders /\ sw \in BOOLEAN
  BY DEF TypeOK
<1>9. (torn => tn) /\ \A w \in left : w[1] \in Folders => tn
  OBVIOUS
<1> HIDE DEF st, left, tn, known, sw, br
<1>10. Dropped \in Parts
  BY <1>1, <1>2, <1>4, <1>6, <1>8 DEF Parts
<1>11. Dropped.stubs = st /\ Dropped.wanted = left /\ Dropped.torn = tn
  BY <1>1
<1>12. QED
  BY <1>2, <1>4, <1>7, <1>9, <1>10, <1>11

LEMMA NowFacts == ASSUME TypeOK PROVE Now \in Parts
BY DEF TypeOK, Now, Parts, Stubs, Jobs

\* What enqueueReceivedShares leaves of the parts, and what it asks for.
LEMMA EnqueuedFacts ==
  ASSUME NEW at \in Parts, NEW cfg \in SUBSET Folders
  PROVE  /\ Enqueued(at, cfg) \in Parts
         /\ Enqueued(at, cfg).stubs = at.stubs /\ Enqueued(at, cfg).torn = at.torn
         /\ at.wanted \subseteq Enqueued(at, cfg).wanted
         /\ at.browse \subseteq Enqueued(at, cfg).browse
         /\ receiving' => \A f \in Plan(cfg) : <<f, PkgOf[f]>> \in Enqueued(at, cfg).wanted
         /\ \A w \in Enqueued(at, cfg).wanted \ at.wanted :
               /\ receiving'
               /\ w[1] \in Plan(cfg) /\ w[2] = PkgOf[w[1]] /\ w[1] \in Enqueued(at, cfg).browse
<1>1. Plan(cfg) \subseteq Folders
  BY DEF Plan
<1> DEFINE asked == {<<f, PkgOf[f]>> : f \in Plan(cfg)}
<1>2. asked \subseteq Jobs
  BY <1>1, SharesAssumption DEF Jobs
<1>3. \A w \in asked : w[1] \in Plan(cfg) /\ w[2] = PkgOf[w[1]]
  OBVIOUS
<1>4. \A f \in Plan(cfg) : <<f, PkgOf[f]>> \in asked
  OBVIOUS
<1>5. CASE receiving'
  <2>1. Enqueued(at, cfg) = [at EXCEPT !.browse = @ \cup Plan(cfg), !.wanted = @ \cup asked]
    BY <1>5 DEF Enqueued
  <2> HIDE DEF asked
  <2>2. at \in Parts /\ at = [stubs |-> at.stubs, wanted |-> at.wanted, browse |-> at.browse,
                             swept |-> at.swept, torn |-> at.torn]
    BY DEF Parts
  <2>3. Enqueued(at, cfg) = [stubs |-> at.stubs, wanted |-> at.wanted \cup asked,
                             browse |-> at.browse \cup Plan(cfg), swept |-> at.swept, torn |-> at.torn]
    BY <2>1, <2>2
  <2>4. Enqueued(at, cfg) \in Parts
    BY <2>2, <2>3, <1>1, <1>2 DEF Parts
  <2> DEFINE new == Enqueued(at, cfg)
  <2>5. /\ new.stubs = at.stubs /\ new.torn = at.torn
        /\ new.wanted = at.wanted \cup asked /\ new.browse = at.browse \cup Plan(cfg)
    BY <2>3
  <2> HIDE DEF new
  <2>6. \A w \in new.wanted \ at.wanted : w[1] \in Plan(cfg) /\ w[2] = PkgOf[w[1]] /\ w[1] \in new.browse
    BY <2>5, <1>3
  <2>7. QED
    BY <2>4, <2>5, <2>6, <1>4, <1>5 DEF new
<1>6. CASE ~receiving'
  BY <1>6 DEF Enqueued
<1>7. QED
  BY <1>5, <1>6

\* completeReceivedClosures starts a pass over the record, or leaves every folder
\* that landed with nothing but what its listing names.
LEMMA CompletesFacts ==
  ASSUME NEW st \in Stubs, NEW cfg \in SUBSET Folders, Completes(st, cfg)
  PROVE  \/ /\ pass' = [NoPass EXCEPT !.pc = "list", !.cfg = cfg] /\ stubs' = st
            /\ cfg # {}
         \/ pass' = NoPass /\ stubs' = Pruned(st, cfg)
BY DEF Completes, ReceivedPackagesIncomplete, ReceivedPackageFolders, Plan

--------------------------------------------------------------------------------
(* What every slot that asks for a snapshot, or drops one, keeps *)

\* Stubs that lost node files at most.
Thinner(st, old) ==
  /\ st \in Stubs
  /\ \A p \in Packages : /\ st[p].dir = old[p].dir /\ st[p].nodes \subseteq old[p].nodes
                         /\ old[p] = NoStub => st[p] = NoStub

LEMMA ThinnerSame == ASSUME NEW st \in Stubs PROVE Thinner(st, st)
BY DEF Thinner

LEMMA ThinnerTrans ==
  ASSUME NEW a, NEW b, NEW c, Thinner(a, b), Thinner(b, c) PROVE Thinner(a, c)
BY DEF Thinner

LEMMA PrunedThinner ==
  ASSUME NEW st \in Stubs, NEW cfg \in SUBSET Folders PROVE Thinner(Pruned(st, cfg), st)
BY PrunedFacts DEF Thinner

LEMMA PartsFacts ==
  ASSUME IInv, NEW at \in {Now, Dropped}
  PROVE  /\ at \in Parts
         /\ at.stubs \in {stubs, NoStubs}
         /\ at.wanted \subseteq wanted
         /\ torn => at.torn
         /\ \A w \in at.wanted : w[1] \in Folders => at.torn \/ w[1] \in at.browse
<1>1. TypeOK /\ InFolders /\ Asked
  BY DEF IInv
<1>2. CASE at = Now
  <2>1. at.stubs = stubs /\ at.wanted = wanted /\ at.torn = torn /\ at.browse = browse
    BY <1>2 DEF Now
  <2>2. QED
    BY <2>1, <1>1, <1>2, NowFacts DEF Asked, FolderJobs
<1>3. CASE at = Dropped
  BY <1>1, <1>3, DroppedFacts
<1>4. QED
  BY <1>2, <1>3

LEMMA AskingKeeps ==
  ASSUME IInv, NEW at \in {Now, Dropped}, NEW cfg \in SUBSET Folders,
         NEW got \in {at, Enqueued(at, cfg)}, Becomes(got), Thinner(stubs', at.stubs),
         UNCHANGED library
  PROVE  /\ wanted' \in SUBSET Jobs /\ browse' \in SUBSET Folders
         /\ swept' \in BOOLEAN /\ torn' \in BOOLEAN /\ stubs' \in Stubs
         /\ Installed' /\ InFolders' /\ Asked'
         /\ \A w \in wanted' : w[1] \in Nodes => w \in wanted
         /\ torn' = at.torn /\ (torn => torn')
         /\ at.wanted \subseteq wanted'
         /\ ~receiving' => wanted' = at.wanted
<1>1. /\ at \in Parts /\ at.stubs \in {stubs, NoStubs} /\ at.wanted \subseteq wanted
      /\ torn => at.torn
      /\ \A w \in at.wanted : w[1] \in Folders => at.torn \/ w[1] \in at.browse
  BY PartsFacts
<1>2. /\ got \in Parts /\ got.torn = at.torn /\ at.wanted \subseteq got.wanted
      /\ at.browse \subseteq got.browse
      /\ \A w \in got.wanted \ at.wanted :
            receiving' /\ w[1] \in Plan(cfg) /\ w[2] = PkgOf[w[1]] /\ w[1] \in got.browse
  BY <1>1, EnqueuedFacts
<1>3. wanted' = got.wanted /\ browse' = got.browse /\ swept' = got.swept /\ torn' = got.torn
  BY DEF Becomes
<1>4. /\ wanted' \in SUBSET Jobs /\ browse' \in SUBSET Folders
      /\ swept' \in BOOLEAN /\ torn' \in BOOLEAN /\ stubs' \in Stubs
  BY <1>2, <1>3 DEF Parts, Thinner
<1>5. Plan(cfg) \subseteq Folders /\ \A f \in Plan(cfg) : PkgOf[f] \notin library
  BY DEF Plan
<1>6. \A p \in library : stubs'[p] = NoStub
  <2>1. TAKE p \in library
  <2>2. p \in Packages /\ stubs[p] = NoStub
    BY DEF IInv, TypeOK, Installed
  <2>3. at.stubs[p] = NoStub
    BY <1>1, <2>2 DEF NoStubs
  <2>4. QED
    BY <2>2, <2>3 DEF Thinner
<1>7. Installed'
  <2>1. SUFFICES ASSUME NEW p \in library, NEW w \in wanted', w[1] \in Folders PROVE w[2] # p
    BY <1>6 DEF Installed, FolderJobs
  <2>2. CASE w \in wanted
    BY <2>1, <2>2 DEF IInv, Installed, FolderJobs
  <2>3. CASE w \notin wanted
    BY <2>1, <2>3, <1>1, <1>2, <1>3, <1>5
  <2>4. QED
    BY <2>2, <2>3
<1>8. InFolders'
  <2>1. SUFFICES ASSUME NEW p \in Packages, ~stubs'[p].dir PROVE stubs'[p].nodes = {}
    BY DEF InFolders
  <2>2. ~at.stubs[p].dir /\ stubs'[p].nodes \subseteq at.stubs[p].nodes
    BY <2>1 DEF Thinner
  <2>3. at.stubs[p].nodes = {}
    BY <1>1, <2>2 DEF NoStubs, NoStub, IInv, InFolders
  <2>4. QED
    BY <2>2, <2>3
<1>9. Asked'
  <2>1. SUFFICES ASSUME NEW w \in wanted', w[1] \in Folders
                 PROVE  w[2] = PkgOf[w[1]] /\ (torn' \/ w[1] \in browse')
    BY DEF Asked, FolderJobs
  <2>2. CASE w \in at.wanted
    BY <2>1, <2>2, <1>1, <1>2, <1>3 DEF IInv, Asked, FolderJobs
  <2>3. CASE w \notin at.wanted
    BY <2>1, <2>3, <1>2, <1>3
  <2>4. QED
    BY <2>2, <2>3
<1>10. \A w \in wanted' : w[1] \in Nodes => w \in wanted
  BY <1>1, <1>2, <1>3, <1>5, SharesAssumption
<1>11. ~receiving' => wanted' = at.wanted
  BY <1>2, <1>3
<1>12. QED
  BY <1>1, <1>2, <1>3, <1>4, <1>7, <1>8, <1>9, <1>10, <1>11

--------------------------------------------------------------------------------
(* The slots of the GUI thread *)

LEMMA InitIInv == Init => IInv
<1> SUFFICES ASSUME Init PROVE IInv
  OBVIOUS
<1>1. Len(Snapshots) \in Nat /\ MaxToggles \in Nat
  BY SharesAssumption
<1>2. stubs \in Stubs
  BY DEF Init, NoStubs, NoStub, Stubs
<1>3. TypeOK
  <2>1. 0 \in 0..Len(Snapshots) /\ 0 \in 0..MaxToggles
    BY <1>1
  <2>2. NoPass \in [pc : {"off", "list", "land", "wait", "posted"}, cfg : SUBSET Folders,
                   todo : SUBSET Folders, left : SUBSET (Nodes \X Packages)]
    BY DEF NoPass
  <2>3. QED
    BY <1>2, <2>1, <2>2 DEF Init, TypeOK, Stubs
<1>4. Stopped /\ Installed /\ Asked /\ Waited /\ Followed /\ MixedForNow
  BY DEF Init, Stopped, Installed, Asked, Waited, Followed, MixedForNow, FolderJobs, NoPass
<1>5. InFolders
  BY DEF Init, InFolders, NoStubs, NoStub
<1>6. QED
  BY <1>3, <1>4, <1>5 DEF IInv

LEMMA SnapshotTyped ==
  ASSUME TypeOK, NEW i \in 1..sent
  PROVE  Snapshots[i] \in SUBSET Folders /\ i \in 0..Len(Snapshots)
<1>1. i \in 1..Len(Snapshots)
  BY SharesAssumption DEF TypeOK
<1>2. QED
  BY <1>1, SharesAssumption

LEMMA ShareKeeps == IInv /\ Share => IInv'
<1> SUFFICES ASSUME IInv, Share PROVE IInv'
  OBVIOUS
<1> USE DEF Share, configVars, diskVars, guiVars
<1>1. TypeOK'
  BY SharesAssumption DEF IInv, TypeOK
<1>2. QED
  BY <1>1 DEF IInv, Stopped, Installed, InFolders, Asked, Waited, Followed, MixedForNow, FolderJobs

LEMMA ApplySnapshotKeeps ==
  ASSUME IInv, NEW i \in 1..sent, ApplySnapshot(i)
  PROVE  IInv'
<1> DEFINE at == IF record = {} THEN Now ELSE Dropped
           new == Snapshots[i]
           got == Enqueued(at, new)
<1>1. TypeOK /\ new \in SUBSET Folders /\ i \in 0..Len(Snapshots)
  BY SnapshotTyped DEF IInv
<1>2. at \in {Now, Dropped} /\ at \in Parts
  BY PartsFacts
<1>3. /\ ready /\ receiving /\ receiving' = receiving /\ lastSeq' = i /\ record' = new
      /\ Becomes(got) /\ stubs' = at.stubs
      /\ UNCHANGED <<sent, library, held, ready, timer, again, pass, late, toggles>>
      /\ dirty' \in {dirty, dirty \/ pass.pc # "off"}
  BY DEF ApplySnapshot, RemembersDrop
<1> HIDE DEF at
<1>4. Thinner(stubs', at.stubs)
  BY <1>2, <1>3, ThinnerSame DEF Parts
<1>5. /\ wanted' \in SUBSET Jobs /\ browse' \in SUBSET Folders
      /\ swept' \in BOOLEAN /\ torn' \in BOOLEAN /\ stubs' \in Stubs
      /\ Installed' /\ InFolders' /\ Asked'
      /\ \A w \in wanted' : w[1] \in Nodes => w \in wanted
  BY <1>1, <1>2, <1>3, <1>4, AskingKeeps
<1>6. \A f \in Plan(new) : <<f, PkgOf[f]>> \in wanted'
  BY <1>1, <1>2, <1>3, EnqueuedFacts DEF Becomes
<1>7. TypeOK'
  BY <1>1, <1>3, <1>5 DEF TypeOK, Stubs, Jobs
<1>8. Stopped'
  BY <1>3 DEF Stopped
<1>9. Waited'
  BY <1>3, <1>5 DEF IInv, Waited
<1>10. Followed'
  BY <1>3, <1>6 DEF Followed, Plan
<1>11. MixedForNow'
  <2>1. SUFFICES ASSUME NEW f \in new
                 PROVE  \/ stubs'[PkgOf[f]].nodes \subseteq Lists[f]
                        \/ <<f, PkgOf[f]>> \in wanted'
    BY <1>3 DEF MixedForNow
  <2>2. CASE PkgOf[f] \in library
    <3>1. stubs'[PkgOf[f]] = NoStub
      BY <2>2, <1>3, <1>5 DEF Installed
    <3>2. QED
      BY <3>1 DEF NoStub
  <2>3. CASE PkgOf[f] \notin library
    BY <2>3, <1>6 DEF Plan
  <2>4. QED
    BY <2>2, <2>3
<1>12. QED
  BY <1>5, <1>7, <1>8, <1>9, <1>10, <1>11 DEF IInv

LEMMA ApplyQuietlyKeeps ==
  ASSUME IInv, NEW i \in 1..sent, ApplyQuietly(i)
  PROVE  IInv'
<1> USE DEF ApplyQuietly, diskVars
<1>1. TypeOK /\ Snapshots[i] \in SUBSET Folders /\ i \in 0..Len(Snapshots)
  BY SnapshotTyped DEF IInv
<1>2. record' \in {{}, record} /\ receiving /\ receiving' = receiving
  BY <1>1
<1>3. TypeOK'
  BY <1>1 DEF TypeOK
<1>4. Stopped' /\ Installed' /\ InFolders' /\ Asked' /\ Waited'
  BY <1>2 DEF IInv, Stopped, Installed, InFolders, Asked, Waited, FolderJobs
<1>5. Followed' /\ MixedForNow'
  <2>1. CASE record' = {}
    BY <2>1 DEF Followed, MixedForNow
  <2>2. CASE record' = record
    BY <2>2 DEF IInv, Followed, MixedForNow
  <2>3. QED
    BY <2>1, <2>2, <1>2
<1>6. QED
  BY <1>3, <1>4, <1>5 DEF IInv

LEMMA ReconcileKeeps == IInv /\ Reconcile => IInv'
<1> SUFFICES ASSUME IInv, Reconcile PROVE IInv'
  OBVIOUS
<1> DEFINE got == Enqueued(Now, record)
<1>1. TypeOK /\ record \in SUBSET Folders
  BY DEF IInv, TypeOK
<1>2. /\ ready' = TRUE /\ Becomes(got) /\ UNCHANGED <<receiving, record, stubs, library, held>>
      /\ UNCHANGED <<sent, lastSeq, timer, again, dirty, pass, late, toggles>>
  BY DEF Reconcile, configVars, diskVars
<1>3. Now \in Parts /\ Now.stubs = stubs /\ Now.wanted = wanted /\ Now.torn = torn
  BY <1>1, NowFacts DEF Now
<1>4. Thinner(stubs', Now.stubs)
  BY <1>2, <1>3, ThinnerSame DEF Parts
<1>5. /\ wanted' \in SUBSET Jobs /\ browse' \in SUBSET Folders
      /\ swept' \in BOOLEAN /\ torn' \in BOOLEAN
      /\ Installed' /\ InFolders' /\ Asked'
      /\ \A w \in wanted' : w[1] \in Nodes => w \in wanted
      /\ torn => torn' /\ wanted \subseteq wanted'
      /\ ~receiving' => wanted' = wanted
  BY <1>1, <1>2, <1>3, <1>4, AskingKeeps
<1>6. receiving' => \A f \in Plan(record) : <<f, PkgOf[f]>> \in wanted'
  BY <1>1, <1>2, <1>3, EnqueuedFacts DEF Becomes
<1>7. TypeOK'
  BY <1>1, <1>2, <1>5 DEF TypeOK, Jobs
<1>8. Stopped'
  <2>1. SUFFICES ASSUME ~receiving PROVE Stopped'
    BY <1>2 DEF Stopped
  <2>2. QED
    BY <2>1, <1>2, <1>5 DEF IInv, Stopped, FolderJobs
<1>9. Waited'
  BY <1>2, <1>5 DEF IInv, Waited
<1>10. record # {} => receiving
  BY DEF IInv, Stopped
<1>11. Followed'
  BY <1>2, <1>6, <1>10 DEF Followed, Plan
<1>12. MixedForNow'
  <2>1. SUFFICES ASSUME NEW f \in record
                 PROVE  \/ stubs[PkgOf[f]].nodes \subseteq Lists[f]
                        \/ <<f, PkgOf[f]>> \in wanted'
    BY <1>2 DEF MixedForNow
  <2>2. CASE PkgOf[f] \in library
    <3>1. stubs[PkgOf[f]] = NoStub
      BY <2>2 DEF IInv, Installed
    <3>2. QED
      BY <3>1 DEF NoStub
  <2>3. CASE PkgOf[f] \notin library
    BY <2>3, <1>2, <1>6, <1>10 DEF Plan
  <2>4. QED
    BY <2>2, <2>3
<1>13. QED
  BY <1>5, <1>7, <1>8, <1>9, <1>11, <1>12 DEF IInv

LEMMA ReceiveOnKeeps == IInv /\ ReceiveOn => IInv'
<1> SUFFICES ASSUME IInv, ReceiveOn PROVE IInv'
  OBVIOUS
<1> DEFINE got == Enqueued(Now, record)
<1>1. TypeOK /\ record = {}
  BY DEF IInv, Stopped, ReceiveOn
<1>2. /\ receiving' = TRUE /\ Becomes(got) /\ UNCHANGED <<record, stubs, library, held>>
      /\ UNCHANGED <<sent, ready, lastSeq, timer, again, dirty, pass, late>>
      /\ toggles' \in 0..MaxToggles
  BY <1>1, SharesAssumption DEF ReceiveOn, Toggled, diskVars, TypeOK
<1>3. Now \in Parts /\ Now.stubs = stubs /\ Now.wanted = wanted /\ Now.torn = torn
  BY <1>1, NowFacts DEF Now
<1>4. Thinner(stubs', Now.stubs)
  BY <1>2, <1>3, ThinnerSame DEF Parts
<1>5. record \in SUBSET Folders
  BY <1>1
<1>6. /\ wanted' \in SUBSET Jobs /\ browse' \in SUBSET Folders
      /\ swept' \in BOOLEAN /\ torn' \in BOOLEAN
      /\ Installed' /\ InFolders' /\ Asked'
      /\ \A w \in wanted' : w[1] \in Nodes => w \in wanted
  BY <1>2, <1>3, <1>4, <1>5, AskingKeeps
<1>7. TypeOK'
  BY <1>1, <1>2, <1>6 DEF TypeOK, Jobs
<1>8. Waited'
  BY <1>2, <1>6 DEF IInv, Waited
<1>9. Stopped' /\ Followed' /\ MixedForNow'
  BY <1>1, <1>2 DEF Stopped, Followed, MixedForNow
<1>10. QED
  BY <1>6, <1>7, <1>8, <1>9 DEF IInv

LEMMA ReceiveOffKeeps == IInv /\ ReceiveOff => IInv'
<1> SUFFICES ASSUME IInv, ReceiveOff PROVE IInv'
  OBVIOUS
<1>1. TypeOK /\ InFolders
  BY DEF IInv
<1>2. /\ receiving' = FALSE /\ Becomes(Dropped) /\ stubs' = Dropped.stubs
      /\ dirty' = (dirty \/ pass.pc # "off") /\ record' = {} /\ lastSeq' = 0
      /\ UNCHANGED <<sent, library, held, ready, timer, again, pass, late>>
      /\ toggles' \in 0..MaxToggles
  BY <1>1, SharesAssumption DEF ReceiveOff, Toggled, RemembersDrop, TypeOK
<1>3. /\ Dropped \in Parts
      /\ Dropped.stubs = NoStubs \/ Dropped.torn
      /\ \A w \in Dropped.wanted : w[1] \in Folders => Dropped.torn
  BY <1>1, DroppedFacts
<1>4. Thinner(stubs', Dropped.stubs)
  BY <1>2, <1>3, ThinnerSame DEF Parts
<1>5. /\ wanted' \in SUBSET Jobs /\ browse' \in SUBSET Folders
      /\ swept' \in BOOLEAN /\ torn' \in BOOLEAN /\ stubs' \in Stubs
      /\ Installed' /\ InFolders' /\ Asked'
      /\ \A w \in wanted' : w[1] \in Nodes => w \in wanted
      /\ torn' = Dropped.torn /\ wanted' = Dropped.wanted
  BY <1>2, <1>3, <1>4, AskingKeeps
<1>6. TypeOK'
  <2>1. lastSeq' \in 0..Len(Snapshots)
    BY <1>2, SharesAssumption
  <2>2. dirty' \in BOOLEAN
    BY <1>2, Zenon
  <2>3. dirty' => pass'.pc # "off"
    BY <1>1, <1>2 DEF TypeOK
  <2>4. record' \subseteq Folders /\ receiving' \in BOOLEAN
    BY <1>2
  <2>5. QED
    BY <1>1, <1>2, <1>5, <2>1, <2>2, <2>3, <2>4 DEF TypeOK, Jobs, Stubs
<1>7. Waited'
  BY <1>2, <1>5 DEF IInv, Waited
<1>8. Stopped'
  BY <1>2, <1>3, <1>5 DEF Stopped, FolderJobs
<1>9. Followed' /\ MixedForNow'
  BY <1>2 DEF Followed, MixedForNow
<1>10. QED
  BY <1>5, <1>6, <1>7, <1>8, <1>9 DEF IInv

LEMMA CrashKeeps == IInv /\ Crash => IInv'
<1> SUFFICES ASSUME IInv, Crash PROVE IInv'
  OBVIOUS
<1> USE DEF Crash, configVars, diskVars
<1>1. toggles' \in 0..MaxToggles /\ 0 \in 0..Len(Snapshots)
  BY SharesAssumption DEF IInv, TypeOK, Toggled
<1>2. TypeOK'
  BY <1>1 DEF IInv, TypeOK, NoPass
<1>3. Stopped'
  BY DEF IInv, Stopped, FolderJobs, NoPass
<1>4. Installed' /\ InFolders' /\ Asked' /\ Waited' /\ Followed' /\ MixedForNow'
  BY DEF IInv, Installed, InFolders, Asked, Waited, Followed, MixedForNow, FolderJobs, NoPass
<1>5. QED
  BY <1>2, <1>3, <1>4 DEF IInv

--------------------------------------------------------------------------------
(* Landing, and the pass *)

LEMMA LandsKeeps ==
  ASSUME IInv, NEW w \in Jobs, Lands(w)
  PROVE  IInv'
<1>1. /\ ready /\ w \in wanted /\ wanted' = wanted \ {w}
      /\ UNCHANGED <<sent, receiving, record, library, ready, lastSeq, browse, swept, again, dirty,
                     pass, late, torn, toggles>>
  BY DEF Lands, configVars
<1>2. PkgOf \in [Folders -> Packages] /\ Folders \cap Nodes = {}
  BY SharesAssumption
<1>3. TypeOK /\ stubs \in [Packages -> [dir : BOOLEAN, nodes : SUBSET Nodes]]
  BY DEF IInv, TypeOK
<1>4. w[1] \in Folders \cup Nodes /\ w[2] \in Packages /\ w = <<w[1], w[2]>>
  BY DEF Jobs
<1>5. CASE w[1] \in Folders
  <2>1. w[2] = PkgOf[w[1]] /\ (torn \/ w[1] \in browse) /\ w[2] \notin library
    BY <1>1, <1>5 DEF IInv, Asked, Installed, FolderJobs
  <2>2. PICK got \in SUBSET Lists[w[1]] :
          stubs' = [stubs EXCEPT ![w[2]] =
                      [dir |-> TRUE, nodes |-> got \cup (@.nodes \cap Lists[w[1]])]]
    BY <1>5 DEF Lands
  <2>3. held' = held \cup {w[1]} /\ timer' = (timer \/ w[1] \in browse)
    BY <1>5 DEF Lands
  <2>4. Lists[w[1]] \subseteq Nodes
    BY <1>5, SharesAssumption
  <2> DEFINE nds == got \cup (stubs[w[2]].nodes \cap Lists[w[1]])
             stub == [dir |-> TRUE, nodes |-> nds]
  <2>5. nds \subseteq Lists[w[1]] /\ stub \in [dir : BOOLEAN, nodes : SUBSET Nodes]
    BY <2>4
  <2>6. stubs' = [stubs EXCEPT ![w[2]] = stub]
    BY <2>2
  <2> HIDE DEF nds
  <2>7. stubs' \in [Packages -> [dir : BOOLEAN, nodes : SUBSET Nodes]]
        /\ stubs'[w[2]].dir /\ stubs'[w[2]].nodes = nds
        /\ \A p \in Packages : p # w[2] => stubs'[p] = stubs[p]
    BY <1>3, <1>4, <2>5, <2>6
  <2> HIDE DEF stub
  <2>8. timer' \in BOOLEAN /\ (timer => timer') /\ (timer' \/ torn)
    <3>1. timer' \in BOOLEAN
      BY <2>3, Zenon
    <3>2. QED
      BY <3>1, <2>1, <2>3
  <2>9. TypeOK'
    BY <1>1, <1>3, <1>5, <2>3, <2>7, <2>8 DEF TypeOK
  <2>10. Stopped'
    BY <1>1, <1>5 DEF IInv, Stopped, FolderJobs
  <2>11. Installed'
    BY <1>1, <1>3, <2>1, <2>7 DEF IInv, Installed, FolderJobs, TypeOK
  <2>12. InFolders'
    BY <2>7 DEF IInv, InFolders
  <2>13. Asked' /\ Waited'
    BY <1>1 DEF IInv, Asked, Waited, FolderJobs
  <2>14. Followed'
    <3>1. SUFFICES ASSUME NEW f \in record
                   PROVE  PkgOf[f] \in library \/ f \in held' \/ <<f, PkgOf[f]>> \in wanted'
      BY <1>1 DEF Followed
    <3>2. CASE f = w[1]
      BY <3>2, <2>3
    <3>3. CASE f # w[1]
      <4>1. PkgOf[f] \in library \/ f \in held \/ <<f, PkgOf[f]>> \in wanted
        BY <1>1 DEF IInv, Followed
      <4>2. <<f, PkgOf[f]>> # w
        BY <3>3
      <4>3. QED
        BY <4>1, <4>2, <1>1, <2>3
    <3>4. QED
      BY <3>2, <3>3
  <2>15. MixedForNow'
    BY <1>1, <2>8 DEF MixedForNow
  <2>16. QED
    BY <2>9, <2>10, <2>11, <2>12, <2>13, <2>14, <2>15 DEF IInv
<1>6. CASE w[1] \notin Folders
  <2>1. w[1] \in Nodes /\ (pass.pc # "off" \/ late # {})
    BY <1>1, <1>4, <1>6 DEF IInv, Waited
  <2>2. UNCHANGED <<held, timer>>
        /\ stubs' = IF w[2] \in library THEN stubs
                    ELSE [stubs EXCEPT ![w[2]] = [dir |-> TRUE, nodes |-> @.nodes \cup {w[1]}]]
    BY <1>6 DEF Lands
  <2> DEFINE nds == stubs[w[2]].nodes \cup {w[1]}
             stub == [dir |-> TRUE, nodes |-> nds]
  <2>3. stub \in [dir : BOOLEAN, nodes : SUBSET Nodes]
    BY <1>3, <1>4, <2>1
  <2>4. stubs' = IF w[2] \in library THEN stubs ELSE [stubs EXCEPT ![w[2]] = stub]
    BY <2>2
  <2>5. stub.dir
    OBVIOUS
  <2> HIDE DEF stub
  <2>6. /\ stubs' \in [Packages -> [dir : BOOLEAN, nodes : SUBSET Nodes]]
        /\ \A p \in Packages : stubs'[p] = stubs[p] \/ (stubs'[p].dir /\ p \notin library)
    BY <1>3, <1>4, <2>3, <2>4, <2>5
  <2>7. TypeOK'
    BY <1>1, <1>3, <2>2, <2>6 DEF TypeOK
  <2>8. Stopped'
    BY <1>1, <2>1 DEF IInv, Stopped, FolderJobs
  <2>9. Installed'
    BY <1>1, <1>3, <2>6 DEF IInv, Installed, FolderJobs, TypeOK
  <2>10. InFolders'
    BY <2>6 DEF IInv, InFolders
  <2>11. Asked' /\ Waited'
    BY <1>1 DEF IInv, Asked, Waited, FolderJobs
  <2>12. Followed'
    <3>1. SUFFICES ASSUME NEW f \in record
                   PROVE  PkgOf[f] \in library \/ f \in held \/ <<f, PkgOf[f]>> \in wanted'
      BY <1>1, <2>2 DEF Followed
    <3>2. <<f, PkgOf[f]>> # w
      BY <1>3, <1>6 DEF TypeOK
    <3>3. QED
      BY <3>2, <1>1 DEF IInv, Followed
  <2>13. MixedForNow'
    BY <1>1, <2>1 DEF MixedForNow
  <2>14. QED
    BY <2>7, <2>8, <2>9, <2>10, <2>11, <2>12, <2>13 DEF IInv
<1>7. QED
  BY <1>5, <1>6

LEMMA InstallKeeps ==
  ASSUME IInv, NEW p \in Packages, Install(p)
  PROVE  IInv'
<1>1. /\ p \notin library /\ library' = library \cup {p}
      /\ stubs' = [stubs EXCEPT ![p] = NoStub] /\ wanted' = {w \in wanted : w[2] # p}
      /\ UNCHANGED <<sent, receiving, record, held, ready, lastSeq, browse, swept, timer, again,
                     dirty, pass, late, torn>>
      /\ record # {}
  BY DEF Install, configVars, guiVars
<1>2. stubs \in [Packages -> [dir : BOOLEAN, nodes : SUBSET Nodes]] /\ TypeOK
      /\ NoStub \in [dir : BOOLEAN, nodes : SUBSET Nodes]
  BY DEF IInv, TypeOK, NoStub
<1>3. /\ stubs' \in [Packages -> [dir : BOOLEAN, nodes : SUBSET Nodes]]
      /\ stubs'[p] = NoStub /\ \A q \in Packages : q # p => stubs'[q] = stubs[q]
  BY <1>1, <1>2
<1>4. toggles' \in 0..MaxToggles
  BY <1>2, SharesAssumption DEF Install, Toggled, TypeOK
<1>5. TypeOK'
  BY <1>1, <1>2, <1>3, <1>4 DEF TypeOK
<1>6. Stopped'
  BY <1>1 DEF IInv, Stopped
<1>7. Installed'
  BY <1>1, <1>2, <1>3 DEF IInv, Installed, FolderJobs, TypeOK
<1>8. InFolders'
  BY <1>1, <1>3 DEF IInv, InFolders, NoStub
<1>9. Asked' /\ Waited'
  BY <1>1 DEF IInv, Asked, Waited, FolderJobs
<1>10. Followed'
  BY <1>1 DEF IInv, Followed
<1>11. MixedForNow'
  <2>1. \A f \in record : PkgOf[f] \in Packages
    BY <1>2, SharesAssumption DEF TypeOK
  <2>2. \A f \in record : stubs'[PkgOf[f]].nodes \subseteq stubs[PkgOf[f]].nodes
    BY <2>1, <1>3 DEF NoStub
  <2>3. \A f \in record : PkgOf[f] = p => stubs'[PkgOf[f]].nodes \subseteq Lists[f]
    BY <1>3 DEF NoStub
  <2>4. \A f \in record : PkgOf[f] # p /\ <<f, PkgOf[f]>> \in wanted => <<f, PkgOf[f]>> \in wanted'
    BY <1>1
  <2>5. QED
    BY <1>1, <2>2, <2>3, <2>4 DEF IInv, MixedForNow
<1>12. QED
  BY <1>5, <1>6, <1>7, <1>8, <1>9, <1>10, <1>11 DEF IInv

--------------------------------------------------------------------------------
LEMMA CompletesTyped ==
  ASSUME NEW st \in Stubs, NEW cfg \in SUBSET Folders, Completes(st, cfg)
  PROVE  /\ Thinner(stubs', st)
         /\ pass' \in [pc : {"off", "list"}, cfg : SUBSET Folders, todo : SUBSET Folders,
                       left : SUBSET (Nodes \X Packages)]
         /\ pass'.left = {}
         /\ cfg = {} => pass' = NoPass /\ stubs' = st
         /\ pass'.pc = "off" =>
              \A f \in ReceivedPackageFolders(st, cfg) : stubs'[PkgOf[f]].nodes \subseteq Lists[f]
<1>1. CASE pass' = [NoPass EXCEPT !.pc = "list", !.cfg = cfg] /\ stubs' = st /\ cfg # {}
  <2>1. pass' = [pc |-> "list", cfg |-> cfg, todo |-> {}, left |-> {}]
    BY <1>1 DEF NoPass
  <2>2. pass' \in [pc : {"off", "list"}, cfg : SUBSET Folders, todo : SUBSET Folders,
                   left : SUBSET (Nodes \X Packages)]
    BY <2>1
  <2>3. pass'.left = {} /\ pass'.pc = "list"
    BY <2>1
  <2>4. Thinner(stubs', st)
    BY <1>1, ThinnerSame
  <2>5. QED
    BY <1>1, <2>2, <2>3, <2>4
<1>2. CASE pass' = NoPass /\ stubs' = Pruned(st, cfg)
  BY <1>2, PrunedFacts, PrunedThinner DEF NoPass
<1>3. QED
  BY <1>1, <1>2, CompletesFacts

\* What landed, as the plan and the listings have it: nothing else is in the way of
\* the record's stubs once they are pruned.
LEMMA Landed ==
  ASSUME NEW st \in Stubs, NEW cfg \in SUBSET Folders, NEW f \in cfg,
         PkgOf[f] \notin library, f \in held,
         \A p \in Packages : ~st[p].dir => st[p].nodes = {}
  PROVE  st[PkgOf[f]].nodes = {} \/ f \in ReceivedPackageFolders(st, cfg)
BY SharesAssumption DEF ReceivedPackageFolders, Plan

LEMMA TimerFiresKeeps == IInv /\ TimerFires => IInv'
<1> SUFFICES ASSUME IInv, TimerFires PROVE IInv'
  OBVIOUS
<1>1. /\ timer' = FALSE
      /\ UNCHANGED <<sent, receiving, record, library, held, ready, lastSeq, browse, swept, dirty,
                     wanted, late, torn, toggles>>
  BY DEF TimerFires, configVars
<1>2. TypeOK /\ stubs \in Stubs /\ record \in SUBSET Folders
  BY DEF IInv, TypeOK, Stubs
<1>3. CASE pass.pc # "off"
  <2>1. again' = TRUE /\ UNCHANGED <<stubs, pass>>
    BY <1>3 DEF TimerFires
  <2>2. TypeOK'
    BY <1>1, <1>2, <2>1 DEF TypeOK
  <2>3. QED
    BY <1>1, <1>3, <2>1, <2>2 DEF IInv, Stopped, Installed, InFolders, Asked, Waited, Followed,
                                  MixedForNow, FolderJobs
<1>4. CASE pass.pc = "off"
  <2>1. Completes(stubs, record) /\ UNCHANGED again
    BY <1>4 DEF TimerFires
  <2>2. /\ Thinner(stubs', stubs)
        /\ pass' \in [pc : {"off", "list"}, cfg : SUBSET Folders, todo : SUBSET Folders,
                      left : SUBSET (Nodes \X Packages)]
        /\ pass'.left = {}
        /\ record = {} => pass' = NoPass /\ stubs' = stubs
        /\ pass'.pc = "off" =>
             \A f \in ReceivedPackageFolders(stubs, record) :
                stubs'[PkgOf[f]].nodes \subseteq Lists[f]
    BY <1>2, <2>1, CompletesTyped
  <2>3. ~dirty /\ pass.left = {}
    BY <1>2, <1>4 DEF TypeOK, IInv, Waited
  <2>4. TypeOK'
    BY <1>1, <1>2, <2>1, <2>2, <2>3 DEF TypeOK, Thinner, Stubs
  <2>5. Stopped'
    BY <1>1, <1>2, <1>4, <2>2 DEF IInv, Stopped, FolderJobs, NoPass
  <2>6. Installed'
    BY <1>1, <1>2, <2>2 DEF IInv, Installed, FolderJobs, Thinner, TypeOK
  <2>7. InFolders'
    BY <2>2 DEF IInv, InFolders, Thinner
  <2>8. Asked' /\ Followed'
    BY <1>1 DEF IInv, Asked, Followed, FolderJobs
  <2>9. Waited'
    BY <1>1, <2>2, <2>3 DEF IInv, Waited
  <2>10. MixedForNow'
    <3>1. SUFFICES ASSUME ready, pass'.pc = "off", NEW f \in record,
                          <<f, PkgOf[f]>> \notin wanted
                   PROVE  stubs'[PkgOf[f]].nodes \subseteq Lists[f]
      BY <1>1 DEF MixedForNow
    <3>2. PkgOf[f] \in Packages /\ stubs'[PkgOf[f]].nodes \subseteq stubs[PkgOf[f]].nodes
      BY <1>2, <2>2, SharesAssumption DEF Thinner
    <3>3. CASE PkgOf[f] \in library
      BY <3>2, <3>3 DEF IInv, Installed, NoStub
    <3>4. CASE PkgOf[f] \notin library
      <4>1. f \in held
        BY <3>1, <3>4 DEF IInv, Followed
      <4>2. stubs[PkgOf[f]].nodes = {} \/ f \in ReceivedPackageFolders(stubs, record)
        BY <1>2, <3>4, <4>1, Landed DEF IInv, InFolders
      <4>3. QED
        BY <2>2, <3>1, <3>2, <4>2
    <3>5. QED
      BY <3>3, <3>4
  <2>11. QED
    BY <2>4, <2>5, <2>6, <2>7, <2>8, <2>9, <2>10 DEF IInv
<1>5. QED
  BY <1>3, <1>4

LEMMA PassThreadKeeps == IInv /\ PassThread => IInv'
<1> SUFFICES ASSUME IInv, PassThread PROVE IInv'
  OBVIOUS
<1> USE DEF PassStep, configVars, diskVars, guiVars
<1>1. TypeOK
  BY DEF IInv
<1>2. ASSUME pass'.pc # "off", pass.pc # "off", pass'.pc \in {"land", "wait", "posted"},
             UNCHANGED <<sent, receiving, record, stubs, library, held, ready, lastSeq, browse,
                         swept, timer, again, dirty, torn, toggles>>,
             wanted \subseteq wanted', \A w \in wanted' \ wanted : w[1] \in Nodes
      PROVE  Stopped' /\ Installed' /\ InFolders' /\ Asked' /\ Followed' /\ MixedForNow'
  <2>1. FolderJobs' = FolderJobs
    BY <1>2, SharesAssumption DEF FolderJobs
  <2>2. QED
    BY <1>2, <2>1 DEF IInv, Stopped, Installed, InFolders, Asked, Followed, MixedForNow
<1>3. CASE PassLists
  <2>1. pass' = [pass EXCEPT !.pc = "land", !.todo = ReceivedPackageFolders(stubs, pass.cfg)]
        /\ pass.pc = "list" /\ UNCHANGED <<wanted, late>>
    BY <1>3 DEF PassLists
  <2>2. ReceivedPackageFolders(stubs, pass.cfg) \subseteq Folders
    BY <1>1 DEF TypeOK, ReceivedPackageFolders, Plan
  <2> DEFINE rpf == ReceivedPackageFolders(stubs, pass.cfg)
  <2> HIDE DEF rpf
  <2>3. /\ pass'.pc = "land" /\ pass'.left = pass.left
        /\ pass' \in [pc : {"off", "list", "land", "wait", "posted"}, cfg : SUBSET Folders,
                      todo : SUBSET Folders, left : SUBSET (Nodes \X Packages)]
    BY <1>1, <2>1, <2>2 DEF TypeOK, rpf
  <2>4. TypeOK'
    BY <1>1, <1>3, <2>1, <2>3 DEF TypeOK, PassLists
  <2>5. Waited'
    BY <2>1, <2>3 DEF IInv, Waited
  <2>6. QED
    BY <1>2, <1>3, <2>1, <2>3, <2>4, <2>5 DEF IInv, PassLists
<1>4. CASE PassLands
  <2>1. PICK f \in pass.todo :
          /\ pass' = [pass EXCEPT !.pc = "wait", !.todo = @ \ {f},
                                  !.left = {<<n, PkgOf[f]>> : n \in Missing(stubs, f)}]
          /\ wanted' = wanted \cup {<<n, PkgOf[f]>> : n \in Missing(stubs, f)}
          /\ late' = late \ {<<n, PkgOf[f]>> : n \in Missing(stubs, f)}
    BY <1>4 DEF PassLands
  <2>2. /\ pass.pc = "land"
        /\ UNCHANGED <<sent, receiving, record, stubs, library, held, ready, lastSeq, browse,
                       swept, timer, again, dirty, torn, toggles>>
    BY <1>4 DEF PassLands
  <2> DEFINE batch == {<<n, PkgOf[f]>> : n \in Missing(stubs, f)}
  <2>3. f \in Folders /\ PkgOf[f] \in Packages /\ Lists[f] \subseteq Nodes
    BY <1>1, SharesAssumption DEF TypeOK
  <2>4. batch \subseteq Nodes \X Packages /\ \A w \in batch : w[1] \in Nodes
    BY <2>3 DEF Missing
  <2>5. wanted' = wanted \cup batch /\ late' = late \ batch
        /\ pass' = [pass EXCEPT !.pc = "wait", !.todo = @ \ {f}, !.left = batch]
    BY <2>1
  <2> HIDE DEF batch
  <2>6. /\ pass'.pc = "wait" /\ pass'.left = batch
        /\ pass' \in [pc : {"off", "list", "land", "wait", "posted"}, cfg : SUBSET Folders,
                      todo : SUBSET Folders, left : SUBSET (Nodes \X Packages)]
    BY <1>1, <2>4, <2>5 DEF TypeOK
  <2>7. TypeOK'
    BY <1>1, <2>2, <2>4, <2>5, <2>6 DEF TypeOK
  <2>8. pass.left = {}
    BY <2>2 DEF IInv, Waited
  <2>9. Waited'
    BY <2>5, <2>6, <2>8 DEF IInv, Waited
  <2>10. QED
    BY <1>2, <2>2, <2>4, <2>5, <2>6, <2>7, <2>9 DEF IInv
<1>5. CASE PassWaits
  <2>1. /\ pass.pc = "wait" /\ pass' = [pass EXCEPT !.pc = "land", !.left = {}]
        /\ UNCHANGED wanted
        /\ late' = late \cup (pass.left \cap wanted)
        /\ UNCHANGED <<sent, receiving, record, stubs, library, held, ready, lastSeq, browse,
                       swept, timer, again, dirty, torn, toggles>>
    BY <1>5 DEF PassWaits
  <2>2. /\ pass'.pc = "land" /\ pass'.left = {}
        /\ pass' \in [pc : {"off", "list", "land", "wait", "posted"}, cfg : SUBSET Folders,
                      todo : SUBSET Folders, left : SUBSET (Nodes \X Packages)]
    BY <1>1, <2>1 DEF TypeOK
  <2>3. TypeOK'
    BY <1>1, <2>1, <2>2 DEF TypeOK
  <2>4. Waited'
    BY <2>1, <2>2 DEF IInv, Waited
  <2>5. Stopped' /\ Installed' /\ InFolders' /\ Asked' /\ Followed' /\ MixedForNow'
    BY <1>2, <2>1, <2>2
  <2>6. QED
    BY <2>3, <2>4, <2>5 DEF IInv
<1>6. CASE PassPosts
  <2>1. /\ pass.pc = "land" /\ pass' = [pass EXCEPT !.pc = "posted"]
        /\ UNCHANGED <<wanted, late>>
        /\ UNCHANGED <<sent, receiving, record, stubs, library, held, ready, lastSeq, browse,
                       swept, timer, again, dirty, torn, toggles>>
    BY <1>6 DEF PassPosts
  <2>2. /\ pass'.pc = "posted" /\ pass'.left = pass.left
        /\ pass' \in [pc : {"off", "list", "land", "wait", "posted"}, cfg : SUBSET Folders,
                      todo : SUBSET Folders, left : SUBSET (Nodes \X Packages)]
    BY <1>1, <2>1 DEF TypeOK
  <2>3. TypeOK'
    BY <1>1, <2>1, <2>2 DEF TypeOK
  <2>4. Waited'
    BY <2>1, <2>2 DEF IInv, Waited
  <2>5. QED
    BY <1>2, <2>1, <2>2, <2>3, <2>4 DEF IInv
<1>7. QED
  BY <1>3, <1>4, <1>5, <1>6 DEF PassThread

LEMMA PassEndedKeeps == IInv /\ PassEnded => IInv'
<1> SUFFICES ASSUME IInv, PassEnded PROVE IInv'
  OBVIOUS
<1> DEFINE at == IF dirty THEN Dropped ELSE Now
           got == IF dirty THEN Enqueued(at, record) ELSE at
           st == Pruned(at.stubs, record)
<1>1. TypeOK /\ record \in SUBSET Folders
  BY DEF IInv, TypeOK
<1>2. at \in {Now, Dropped} /\ got \in {at, Enqueued(at, record)}
  OBVIOUS
<1>3. /\ pass.pc = "posted" /\ dirty' = FALSE /\ again' = FALSE
      /\ UNCHANGED <<sent, receiving, record, library, held, ready, lastSeq, timer, late, toggles>>
      /\ Becomes(got) /\ Completes(st, record)
  BY DEF PassEnded, configVars
<1>4. /\ at \in Parts /\ at.stubs \in Stubs /\ at.stubs \in {stubs, NoStubs}
      /\ ~dirty => at.stubs = stubs /\ at.wanted = wanted /\ got = at
      /\ dirty => at.stubs = NoStubs \/ at.torn
      /\ dirty => \A w \in at.wanted : w[1] \in Folders => at.torn
  <2>1. at \in Parts /\ at.stubs \in {stubs, NoStubs}
    BY PartsFacts
  <2>2. dirty => /\ at.stubs = NoStubs \/ at.torn
                 /\ \A w \in at.wanted : w[1] \in Folders => at.torn
    BY <1>1, DroppedFacts DEF IInv
  <2>3. ~dirty => at.stubs = stubs /\ at.wanted = wanted
    BY DEF Now
  <2>4. QED
    BY <2>1, <2>2, <2>3 DEF Parts
<1>5. dirty => got = Enqueued(at, record)
  OBVIOUS
<1> HIDE DEF at, got
<1>6. st \in Stubs /\ Thinner(st, at.stubs) /\ (record = {} => st = at.stubs)
  BY <1>1, <1>4, PrunedFacts, PrunedThinner
<1> HIDE DEF st
<1>7. /\ Thinner(stubs', st)
      /\ pass' \in [pc : {"off", "list"}, cfg : SUBSET Folders, todo : SUBSET Folders,
                    left : SUBSET (Nodes \X Packages)]
      /\ pass'.left = {}
      /\ record = {} => pass' = NoPass /\ stubs' = st
      /\ pass'.pc = "off" =>
           \A f \in ReceivedPackageFolders(st, record) : stubs'[PkgOf[f]].nodes \subseteq Lists[f]
  BY <1>1, <1>3, <1>6, CompletesTyped
<1>8. Thinner(stubs', at.stubs)
  BY <1>6, <1>7, ThinnerTrans
<1>9. /\ wanted' \in SUBSET Jobs /\ browse' \in SUBSET Folders
      /\ swept' \in BOOLEAN /\ torn' \in BOOLEAN /\ stubs' \in Stubs
      /\ Installed' /\ InFolders' /\ Asked'
      /\ \A w \in wanted' : w[1] \in Nodes => w \in wanted
      /\ torn' = at.torn /\ (torn => torn')
      /\ at.wanted \subseteq wanted'
      /\ ~receiving' => wanted' = at.wanted
  BY <1>1, <1>2, <1>3, <1>8, AskingKeeps
<1>10. TypeOK'
  <2>1. pass' \in [pc : {"off", "list", "land", "wait", "posted"}, cfg : SUBSET Folders,
                   todo : SUBSET Folders, left : SUBSET (Nodes \X Packages)]
    BY <1>7
  <2>2. QED
    BY <1>1, <1>3, <1>9, <2>1 DEF TypeOK, Jobs, Stubs
<1>11. Stopped'
  <2>1. SUFFICES ASSUME ~receiving
                 PROVE  /\ record = {} /\ pass'.pc = "off"
                        /\ FolderJobs' = {} \/ torn'
                        /\ stubs' = NoStubs \/ torn'
    BY <1>3 DEF Stopped
  <2>2. record = {} /\ dirty
    BY <2>1, <1>3 DEF IInv, Stopped
  <2>3. pass' = NoPass /\ stubs' = at.stubs
    BY <2>2, <1>6, <1>7
  <2>4. FolderJobs' = {} \/ torn'
    BY <2>1, <2>2, <1>3, <1>4, <1>9 DEF FolderJobs
  <2>5. QED
    BY <2>2, <2>3, <2>4, <1>4, <1>9 DEF NoPass
<1>12. pass.left = {}
  BY <1>3 DEF IInv, Waited
<1>13. Waited'
  BY <1>3, <1>7, <1>9, <1>12 DEF IInv, Waited
<1>14. Followed'
  <2>1. SUFFICES ASSUME ready, NEW f \in record, PkgOf[f] \notin library, f \notin held
                 PROVE  <<f, PkgOf[f]>> \in wanted'
    BY <1>3 DEF Followed
  <2>2. receiving' /\ f \in Plan(record)
    BY <2>1, <1>3 DEF IInv, Stopped, Plan
  <2>3. CASE dirty
    BY <2>2, <2>3, <1>1, <1>3, <1>4, <1>5, EnqueuedFacts DEF Becomes
  <2>4. CASE ~dirty
    BY <2>1, <2>4, <1>4, <1>9 DEF IInv, Followed
  <2>5. QED
    BY <2>3, <2>4
<1>15. MixedForNow'
  <2>1. SUFFICES ASSUME ready, pass'.pc = "off", NEW f \in record,
                        <<f, PkgOf[f]>> \notin wanted'
                 PROVE  stubs'[PkgOf[f]].nodes \subseteq Lists[f]
    BY <1>3 DEF MixedForNow
  <2>2. /\ PkgOf[f] \in Packages
        /\ stubs'[PkgOf[f]].nodes \subseteq st[PkgOf[f]].nodes
    BY <1>1, <1>7, SharesAssumption DEF Thinner
  <2>3. CASE PkgOf[f] \in library
    BY <2>2, <2>3, <1>3, <1>9 DEF Installed, NoStub
  <2>4. CASE PkgOf[f] \notin library
    <3>1. f \in held
      BY <2>1, <2>4, <1>3, <1>14 DEF Followed
    <3>2. \A p \in Packages : ~st[p].dir => st[p].nodes = {}
      <4>1. TAKE p \in Packages
      <4>2. ~at.stubs[p].dir => at.stubs[p].nodes = {}
        BY <1>4 DEF IInv, InFolders, NoStubs, NoStub
      <4>3. QED
        BY <4>2, <1>6 DEF Thinner
    <3>3. st[PkgOf[f]].nodes = {} \/ f \in ReceivedPackageFolders(st, record)
      BY <1>1, <1>6, <2>4, <3>1, <3>2, Landed
    <3>4. QED
      BY <1>7, <2>1, <2>2, <3>3
  <2>5. QED
    BY <2>3, <2>4
<1>16. QED
  BY <1>9, <1>10, <1>11, <1>13, <1>14, <1>15 DEF IInv

--------------------------------------------------------------------------------
(* The theorems *)

LEMMA NextKeeps == IInv /\ [Next]_vars => IInv'
<1> SUFFICES ASSUME IInv, [Next]_vars PROVE IInv'
  OBVIOUS
<1>1. CASE UNCHANGED vars
  <2>1. TypeOK'
    BY <1>1 DEF IInv, TypeOK, vars, configVars, diskVars, guiVars
  <2>2. QED
    BY <1>1, <2>1 DEF IInv, vars, configVars, diskVars, guiVars, Stopped, Installed, InFolders,
                      Asked, Waited, Followed, MixedForNow, FolderJobs
<1>2. CASE Share
  BY <1>2, ShareKeeps
<1>3. ASSUME NEW i \in 1..sent, ApplySnapshot(i) PROVE IInv'
  BY <1>3, ApplySnapshotKeeps
<1>4. ASSUME NEW i \in 1..sent, ApplyQuietly(i) PROVE IInv'
  BY <1>4, ApplyQuietlyKeeps
<1>5. CASE Reconcile
  BY <1>5, ReconcileKeeps
<1>6. CASE ReceiveOn
  BY <1>6, ReceiveOnKeeps
<1>7. CASE ReceiveOff
  BY <1>7, ReceiveOffKeeps
<1>8. ASSUME NEW w \in Jobs, Lands(w) PROVE IInv'
  BY <1>8, LandsKeeps
<1>9. CASE TimerFires
  BY <1>9, TimerFiresKeeps
<1>10. CASE PassThread
  BY <1>10, PassThreadKeeps
<1>11. CASE PassEnded
  BY <1>11, PassEndedKeeps
<1>12. ASSUME NEW p \in Packages, Install(p) PROVE IInv'
  BY <1>12, InstallKeeps
<1>13. CASE Crash
  BY <1>13, CrashKeeps
<1>14. QED
  BY <1>1, <1>2, <1>3, <1>4, <1>5, <1>6, <1>7, <1>8, <1>9, <1>10, <1>11, <1>12, <1>13
     DEF Next, Jobs

\* Every way a stub may be wrong is named by what is to come that rights it.
THEOREM SharesInvariant == Spec => []IInv
<1>1. QED
  BY InitIInv, NextKeeps, PTL DEF Spec

\* The slots, the queue and the pass keep their types, and a drop is remembered only
\* while there is a pass to drop again after (appmodel.cpp, FriendStubsDirtyPeers).
THEOREM SharesTyped == Spec => []TypeOK
<1>1. IInv => TypeOK
  BY DEF IInv
<1>2. QED
  BY <1>1, SharesInvariant, PTL

\* What lies in CATALOG of a friend is what it shares, as last heard, or nothing: in
\* whatever order snapshots arrive, receiving is switched, packages are installed and
\* landing passes end, when nothing is under way no folder mixes two generations, and
\* none is left after receiving stopped.
THEOREM NothingMixedOrLeft == Spec => []StubsAreShared
<1>1. ASSUME IInv, InTime PROVE NoMixedStub /\ StoppedLeavesNothing
  <2>1. ready /\ ~timer /\ pass.pc = "off" /\ wanted = {} /\ late = {} /\ ~torn
    BY <1>1 DEF InTime, Quiet
  <2>2. NoMixedStub
    BY <1>1, <2>1 DEF IInv, MixedForNow, NoMixedStub
  <2>3. StoppedLeavesNothing
    BY <1>1, <2>1 DEF IInv, Stopped, TypeOK, StoppedLeavesNothing
  <2>4. QED
    BY <2>2, <2>3
<1>2. IInv => StubsAreShared
  BY <1>1 DEF StubsAreShared
<1>3. QED
  BY <1>2, SharesInvariant, PTL
================================================================================
