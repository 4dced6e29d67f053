----------------------------- MODULE ReceivedShares -----------------------------
(***************************************************************************)
(* What is received from a friend (src/src/appmodel.cpp and the received   *)
(* packages of src/src/packagecatalog.cpp): the friend's snapshots, which  *)
(* arrive late, twice and out of order; the record kept of the last one;   *)
(* the stubs its package folders land as in CATALOG; the landing pass that *)
(* completes them on a thread of its own, from the record as it was; and   *)
(* what is dropped when the snapshot changes or receiving stops.           *)
(*                                                                         *)
(* A slot of the GUI thread is one action. The queue lands what is wanted  *)
(* of it, later or never, unless it is cancelled or forgotten.             *)
(***************************************************************************)
EXTENDS Naturals, Sequences

CONSTANTS Packages,   \* package names of the friend's library
          Folders,    \* package folder CIDs: the generations of the packages
          Nodes,      \* node CIDs
          PkgOf,      \* the package a folder is a generation of
          Lists,      \* the nodes a folder lists
          Snapshots,  \* what the friend shares, one after the other; {} while it starts
          MaxToggles  \* bound: receive switched, packages installed, crashes

ASSUME SharesAssumption ==
  /\ PkgOf \in [Folders -> Packages] /\ Lists \in [Folders -> SUBSET Nodes]
  /\ Snapshots \in Seq(SUBSET Folders)
  /\ \A i \in DOMAIN Snapshots, f, g \in Folders :
       f \in Snapshots[i] /\ g \in Snapshots[i] /\ PkgOf[f] = PkgOf[g] => f = g
  /\ Folders \cap Nodes = {}
  /\ MaxToggles \in Nat

VARIABLES
  sent,       \* the snapshots sent so far; any may arrive, at any time, again
  receiving,  \* the friend is in ReceiveFrom
  record,     \* FriendLibraries of the friend, {} when there is none
  stubs,      \* each package's CATALOG folder: whether it is there, the node files in it
  library,    \* the packages installed
  held,       \* the folders whose listing is here
  ready,      \* the node is up
  lastSeq,    \* FriendLibSeq, 0 when there is none
  browse,     \* FriendBrowseCids
  swept,      \* DroppedStubDirs names the friend's folder
  timer,      \* FriendReconcilePending
  again, dirty,   \* FriendClosureAgain; the friend is in FriendStubsDirtyPeers
  pass,       \* the landing pass, and the record it works from
  wanted,     \* the queue's jobs to come: <<cid, package>>
  late,       \* the node files a pass gave up waiting for
  torn,       \* a drop found nothing to go by, or the process ended before it was made good
  toggles

configVars == <<receiving, record>>
diskVars == <<stubs, library, held>>
guiVars == <<ready, lastSeq, browse, swept, timer, again, dirty>>
vars == <<sent, configVars, diskVars, guiVars, pass, wanted, late, torn, toggles>>

NoStub == [dir |-> FALSE, nodes |-> {}]
NoStubs == [p \in Packages |-> NoStub]
NoPass == [pc |-> "off", cfg |-> {}, todo |-> {}, left |-> {}]

Toggled == toggles < MaxToggles /\ toggles' = toggles + 1

--------------------------------------------------------------------------------
(* The plan, and what is on disk of it *)

\* PlanReceivedFetches: what the library holds already is not planned.
Plan(cfg) == {f \in cfg : PkgOf[f] \notin library}

\* ReceivedPackageFolders: landed, planned, and its listing is here.
ReceivedPackageFolders(st, cfg) == {f \in Plan(cfg) : st[PkgOf[f]].dir /\ f \in held}

Missing(st, f) == Lists[f] \ st[PkgOf[f]].nodes

ReceivedPackagesIncomplete(st, cfg) == \E f \in ReceivedPackageFolders(st, cfg) : Missing(st, f) # {}

\* PruneStaleReceived: a folder keeps the node files its listing names.
Pruned(st, cfg) ==
  [p \in Packages |->
     [st[p] EXCEPT !.nodes = {n \in @ : \A f \in ReceivedPackageFolders(st, cfg) :
                                           PkgOf[f] = p => n \in Lists[f]}]]

--------------------------------------------------------------------------------
(* Parts of the slots: what they make of the stubs, the queue and the flags *)

Now == [stubs |-> stubs, wanted |-> wanted, browse |-> browse, swept |-> swept, torn |-> torn]

\* mutant: the jobs that wait for the folders are left in the queue
DroppedOnly ==
  LET known == IF record # {} THEN Plan(record) # {} ELSE swept
  IN [stubs |-> IF known THEN NoStubs ELSE stubs, wanted |-> wanted,
      browse |-> browse \ Plan(record), swept |-> swept \/ known, torn |-> torn]

\* dropReceivedStubs: the jobs this flow asked for are cancelled; the friend's
\* folder, known from the record or from the last drop, goes with every job that
\* would land in it. Where all that is recorded is installed, or nothing is recorded
\* any more, it may not be known.
Dropped ==
  LET known == IF record # {} THEN Plan(record) # {} ELSE swept
      there == known /\ \E p \in Packages : stubs[p].dir
      cancelled == Plan(record) \cap browse
      left == IF there THEN {} ELSE {w \in wanted : w[1] \notin cancelled}
  IN [stubs |-> IF there THEN NoStubs ELSE stubs,
      wanted |-> left,
      browse |-> browse \ Plan(record), swept |-> swept \/ known,
      torn |-> torn \/ (~known /\ stubs # NoStubs) \/ \E w \in left : w[1] \in Folders]

\* enqueueReceivedShares: what the queue has landed already it lands again.
Enqueued(at, cfg) ==
  IF receiving' THEN [at EXCEPT !.browse = @ \cup Plan(cfg),
                                !.wanted = @ \cup {<<f, PkgOf[f]>> : f \in Plan(cfg)}]
  ELSE at

Becomes(at) ==
  /\ wanted' = at.wanted /\ browse' = at.browse /\ swept' = at.swept /\ torn' = at.torn

\* mutant: a drop in the middle of a pass is not remembered
RemembersNothing == UNCHANGED dirty

\* mutant: a drop is remembered when there is no pass to wait for
RemembersAlways == dirty' = TRUE

\* A pass in flight may write the old files back: drop once more when it ends.
RemembersDrop == dirty' = (dirty \/ pass.pc # "off")

\* completeReceivedClosures, over the stubs st.
Completes(st, cfg) ==
  IF ReceivedPackagesIncomplete(st, cfg)
  THEN pass' = [NoPass EXCEPT !.pc = "list", !.cfg = cfg] /\ stubs' = st
  ELSE pass' = NoPass /\ stubs' = Pruned(st, cfg)

--------------------------------------------------------------------------------
(* Snapshots *)

Share == sent < Len(Snapshots) /\ sent' = sent + 1
         /\ UNCHANGED <<configVars, diskVars, guiVars, pass, wanted, late, torn, toggles>>

\* mutant: the stamp of a snapshot is not compared
ApplyAnySnapshot(i) ==
  /\ ready /\ receiving /\ Snapshots[i] # {} /\ Snapshots[i] # record
  /\ lastSeq' = i
  /\ record' = Snapshots[i]
  /\ UNCHANGED receiving
  /\ LET at == IF record = {} THEN Now ELSE Dropped
     IN Becomes(Enqueued(at, Snapshots[i])) /\ stubs' = at.stubs
  /\ IF record = {} THEN UNCHANGED dirty ELSE RemembersDrop
  /\ UNCHANGED <<sent, library, held, ready, timer, again, pass, late, toggles>>

\* applyFriendLibrarySnapshot, of one that changes the record: it replaces the
\* last one's stubs.
ApplySnapshot(i) ==
  /\ ready /\ receiving /\ i > lastSeq /\ Snapshots[i] # {} /\ Snapshots[i] # record
  /\ lastSeq' = i
  /\ record' = Snapshots[i]
  /\ UNCHANGED receiving
  /\ LET at == IF record = {} THEN Now ELSE Dropped
     IN Becomes(Enqueued(at, Snapshots[i])) /\ stubs' = at.stubs
  /\ IF record = {} THEN UNCHANGED dirty ELSE RemembersDrop
  /\ UNCHANGED <<sent, library, held, ready, timer, again, pass, late, toggles>>

\* The same again, or an empty one: the stubs stay, as it is also what a friend
\* that is still starting sends.
ApplyQuietly(i) ==
  /\ ready /\ receiving /\ i > lastSeq /\ Snapshots[i] \in {{}, record}
  /\ lastSeq' = i
  /\ record' = Snapshots[i]
  /\ UNCHANGED <<sent, receiving, diskVars, ready, browse, swept, timer, again, dirty, pass, wanted,
                 late, torn, toggles>>

\* reconcileReceivedFriend, when the node is up and when the friend comes online.
Reconcile ==
  /\ ready' = TRUE
  /\ UNCHANGED configVars
  /\ Becomes(Enqueued(Now, record))
  /\ UNCHANGED <<sent, diskVars, lastSeq, timer, again, dirty, pass, late, toggles>>

ReceiveOn ==
  /\ ~receiving /\ Toggled
  /\ receiving' = TRUE
  /\ Becomes(Enqueued(Now, record))
  /\ UNCHANGED <<sent, record, diskVars, ready, lastSeq, timer, again, dirty, pass, late>>

\* stopReceivingFromFriend, and forgetFriend.
ReceiveOff ==
  /\ receiving /\ Toggled
  /\ receiving' = FALSE
  /\ Becomes(Dropped) /\ stubs' = Dropped.stubs /\ RemembersDrop
  /\ record' = {} /\ lastSeq' = 0
  /\ UNCHANGED <<sent, library, held, ready, timer, again, pass, late>>

--------------------------------------------------------------------------------
(* Landing *)

\* A folder's fetch owns its directory; a node file goes where its package is now.
\* A folder this flow asked for sets the timer (onFriendBlockLanded).
Lands(w) ==
  /\ ready /\ w \in wanted
  /\ wanted' = wanted \ {w}
  /\ IF w[1] \in Folders
     THEN /\ \E got \in SUBSET Lists[w[1]] :
               stubs' = [stubs EXCEPT ![w[2]] =
                           [dir |-> TRUE, nodes |-> got \cup (@.nodes \cap Lists[w[1]])]]
          /\ held' = held \cup {w[1]}
          /\ timer' = (timer \/ w[1] \in browse)
     ELSE /\ stubs' = IF w[2] \in library THEN stubs
                      ELSE [stubs EXCEPT ![w[2]] = [dir |-> TRUE, nodes |-> @.nodes \cup {w[1]}]]
          /\ UNCHANGED <<held, timer>>
  /\ UNCHANGED <<sent, configVars, library, ready, lastSeq, browse, swept, again, dirty, pass, late, torn, toggles>>

TimerFires ==
  /\ timer /\ timer' = FALSE
  /\ IF pass.pc # "off" THEN again' = TRUE /\ UNCHANGED <<stubs, pass>>
                        ELSE Completes(stubs, record) /\ UNCHANGED again
  /\ UNCHANGED <<sent, configVars, library, held, ready, lastSeq, browse, swept, dirty, wanted, late, torn, toggles>>

\* AdoptReceivedPackage, as it ends: the stub is the library's.
Install(p) ==
  /\ stubs[p].dir /\ p \notin library /\ Toggled
  /\ \E f \in record : PkgOf[f] = p
  /\ library' = library \cup {p}
  /\ stubs' = [stubs EXCEPT ![p] = NoStub]
  /\ wanted' = {w \in wanted : w[2] # p}
  /\ UNCHANGED <<sent, configVars, held, guiVars, pass, late, torn>>

--------------------------------------------------------------------------------
(* The landing pass: LandReceivedPackages, on a thread, and its end on the GUI's *)

PassStep(to) ==
  /\ pass' = to
  /\ UNCHANGED <<sent, configVars, diskVars, guiVars, torn, toggles>>

PassLists ==
  /\ pass.pc = "list"
  /\ PassStep([pass EXCEPT !.pc = "land", !.todo = ReceivedPackageFolders(stubs, pass.cfg)])
  /\ UNCHANGED <<wanted, late>>

\* The nodes the landing did not bring are fetched each on its own.
PassLands ==
  /\ pass.pc = "land"
  /\ \E f \in pass.todo :
       LET batch == {<<n, PkgOf[f]>> : n \in Missing(stubs, f)}
       IN /\ PassStep([pass EXCEPT !.pc = "wait", !.todo = @ \ {f}, !.left = batch])
          /\ wanted' = wanted \cup batch /\ late' = late \ batch

\* It waits for them, ten minutes at most: the jobs stay in the queue.
PassWaits ==
  /\ pass.pc = "wait"
  /\ PassStep([pass EXCEPT !.pc = "land", !.left = {}])
  /\ \/ pass.left \cap wanted = {} /\ UNCHANGED late
     \/ pass.left \cap wanted # {} /\ late' = late \cup (pass.left \cap wanted)
  /\ UNCHANGED wanted

PassPosts ==
  /\ pass.pc = "land" /\ pass.todo = {}
  /\ PassStep([pass EXCEPT !.pc = "posted"])
  /\ UNCHANGED <<wanted, late>>

\* What was dropped meanwhile is dropped again, and what is shared now asked for
\* again; what is stale goes; another pass starts if a slot asked for one, or if
\* something is still missing.
PassEnded ==
  /\ pass.pc = "posted"
  /\ dirty' = FALSE /\ again' = FALSE
  /\ UNCHANGED configVars
  /\ LET at == IF dirty THEN Dropped ELSE Now
     IN /\ Becomes(IF dirty THEN Enqueued(at, record) ELSE at)
        /\ Completes(Pruned(at.stubs, record), record)
  /\ UNCHANGED <<sent, library, held, ready, lastSeq, timer, late, toggles>>

\* The process ends and starts again: the queue and the flags are gone, the disk
\* and the configuration stay.
Crash ==
  /\ Toggled
  /\ ready' = FALSE /\ lastSeq' = 0 /\ browse' = {} /\ swept' = FALSE
  /\ timer' = FALSE /\ again' = FALSE /\ dirty' = FALSE
  /\ pass' = NoPass /\ wanted' = {} /\ late' = {}
  /\ torn' = (torn \/ dirty \/ late # {})
  /\ UNCHANGED <<sent, configVars, diskVars>>

--------------------------------------------------------------------------------
Init ==
  /\ sent = 0 /\ receiving = TRUE /\ record = {}
  /\ stubs = NoStubs /\ library = {} /\ held = {}
  /\ ready = FALSE /\ lastSeq = 0 /\ browse = {} /\ swept = FALSE
  /\ timer = FALSE /\ again = FALSE /\ dirty = FALSE
  /\ pass = NoPass /\ wanted = {} /\ late = {} /\ torn = FALSE /\ toggles = 0

PassThread == PassLists \/ PassLands \/ PassWaits \/ PassPosts

Next ==
  \/ Share \/ \E i \in 1..sent : ApplySnapshot(i) \/ ApplyQuietly(i)
  \/ Reconcile \/ ReceiveOn \/ ReceiveOff
  \/ \E w \in (Folders \cup Nodes) \X Packages : Lands(w)
  \/ TimerFires \/ PassThread \/ PassEnded
  \/ \E p \in Packages : Install(p)
  \/ Crash

Spec == Init /\ [][Next]_vars

\* The friend is online and provides what it shares; the node comes up.
FairSpec ==
  /\ Spec
  /\ \A w \in (Folders \cup Nodes) \X Packages : WF_vars(Lands(w))
  /\ WF_vars(TimerFires) /\ WF_vars(PassThread) /\ WF_vars(PassEnded)
  /\ WF_vars(Reconcile /\ ~ready)

--------------------------------------------------------------------------------
(* Correctness *)

TypeOK ==
  /\ sent \in 0..Len(Snapshots) /\ receiving \in BOOLEAN /\ record \subseteq Folders
  /\ stubs \in [Packages -> [dir : BOOLEAN, nodes : SUBSET Nodes]]
  /\ library \subseteq Packages /\ held \subseteq Folders
  /\ ready \in BOOLEAN /\ lastSeq \in 0..Len(Snapshots) /\ browse \subseteq Folders
  /\ swept \in BOOLEAN /\ timer \in BOOLEAN /\ again \in BOOLEAN /\ dirty \in BOOLEAN
  /\ pass \in [pc : {"off", "list", "land", "wait", "posted"}, cfg : SUBSET Folders,
               todo : SUBSET Folders, left : SUBSET (Nodes \X Packages)]
  /\ wanted \subseteq (Folders \cup Nodes) \X Packages
  /\ late \subseteq Nodes \X Packages /\ torn \in BOOLEAN /\ toggles \in 0..MaxToggles
  /\ dirty => pass.pc # "off"

Quiet == ready /\ ~timer /\ pass.pc = "off" /\ wanted = {}

\* Nothing but what a pass gave up waiting for, or what a crash cut short, is left.
InTime == Quiet /\ late = {} /\ ~torn

\* "A CHANGED snapshot replaces the last one's stubs, never joins them": when nothing
\* is under way, a package's folder holds no node file of another generation, though
\* the pass that was in flight wrote the last one's back.
NoMixedStub == \A f \in record : stubs[PkgOf[f]].nodes \subseteq Lists[f]

\* "Their data must not keep arriving": once receiving is off, nothing the queue or
\* a pass in flight still brings leaves a stub behind.
StoppedLeavesNothing == ~receiving => stubs = NoStubs

\* What lies in CATALOG of this friend is what it shares, as last heard, or nothing.
StubsAreShared == InTime => NoMixedStub /\ StoppedLeavesNothing

\* What the friend shares is completely here.
Complete ==
  \A f \in record : \/ PkgOf[f] \in library
                    \/ stubs[PkgOf[f]].dir /\ Lists[f] \subseteq stubs[PkgOf[f]].nodes

\* While the friend provides and receiving stays on, all it shares is here in the end
\* and stays, in whatever order and however often its snapshots arrive: a pass that
\* timed out, or was asked for while one ran, is made good by another.
SharesArrive == <>[]receiving => <>[]Complete
================================================================================
