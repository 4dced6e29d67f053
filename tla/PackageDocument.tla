----------------------------- MODULE PackageDocument -----------------------------
(***************************************************************************)
(* The package editor's document (src/src/pkgdoc.cpp): the nodes of one    *)
(* package, undo and redo, and the save, which names every node anew by    *)
(* its content and follows the names through the other packages and the    *)
(* instances; with the draft the editor keeps of unsaved work              *)
(* (src/src/packageeditormodel.cpp).                                       *)
(*                                                                         *)
(* A node's CID is a hash of its bytes, so a CID is modelled by the node   *)
(* itself: its content and the names it refers to. A node made in this     *)
(* session has a draft handle until it is saved. Where nodes are on the    *)
(* canvas is left out.                                                     *)
(***************************************************************************)
EXTENDS Naturals, Sequences, FiniteSets, SequencesExt

CONSTANTS Contents,   \* what the author can put into a node
          Drafts,     \* draft handles, in the order they are made
          Starts,     \* the disks to begin with: [pkg, other, inst]
          MaxUndo,    \* undo steps kept
          MaxEdits, MaxSaves, MaxFaults, \* bounds: edits; saves; operations that fail, and a crash
          None

ASSUME DocumentAssumption ==
  /\ MaxUndo \in Nat \ {0} /\ MaxEdits \in Nat /\ MaxSaves \in Nat /\ MaxFaults \in Nat
  /\ Len(Drafts) \in Nat /\ \A i, j \in 1..Len(Drafts) : Drafts[i] = Drafts[j] => i = j
  /\ \A s \in Starts : IsFiniteSet(s.pkg) /\ s.inst = [k \in DOMAIN s.inst |-> s.inst[k]]

\* To begin with what is remembered or contained is on disk: what is not is none of the saves'.
ASSUME StartsWhole ==
  \A s \in Starts :
    /\ IsFiniteSet(s.other) /\ \A k \in DOMAIN s.inst : s.inst[k] \in s.pkg \cup s.other
    /\ \A n \in s.pkg \cup s.other :
         n = [c |-> n.c, refs |-> n.refs] /\ n.refs \subseteq s.pkg \cup s.other

VARIABLES
  pkg, other, inst,  \* the node files here and in other packages; what instances remember
  doc,               \* the nodes edited: [id, handle, node, file]
  loaded,            \* the node files of the package, as last listed
  rev, savedRev, nextRev,
  undo, redo, before, changed,
  save,              \* the save at work
  draft,             \* the work written aside: None, or [handle, node]s
  told,              \* files the author was told are left behind
  cut,               \* history: a save kept a deleted node or left an old file behind, or a
                     \* crash left names without nodes or old files beside the new
  stale,             \* history: a save removed a file that something names and that a node of
                     \* another name, brought back by undo, still gave as its own
  warned,            \* a failed save could not be fully undone (history)
  drafts, edits, saves, faults

disk == <<pkg, other, inst>>
history == <<undo, redo, before, changed>>
session == <<doc, loaded, rev, savedRev, nextRev, history>>
vars == <<disk, session, save, draft, told, cut, stale, warned, drafts, edits, saves, faults>>

Idle == [pc |-> "idle"]
Faulty == faults < MaxFaults /\ faults' = faults + 1

Handles(es) == {es[i].handle : i \in DOMAIN es}
Take == [entries |-> doc, rev |-> rev]
Dirty == rev # savedRev
Pick(M, h) == IF h \in DOMAIN M THEN M[h] ELSE h
Named == {inst[k] : k \in DOMAIN inst}
Remap(node, M) == [node EXCEPT !.refs = {Pick(M, r) : r \in @}]

--------------------------------------------------------------------------------
(* Editing *)

\* An edit: it is a step of its own once committed.
Touch(es) ==
  /\ save = Idle /\ edits < MaxEdits /\ edits' = edits + 1
  /\ doc' = es /\ changed' = TRUE /\ rev' = nextRev /\ nextRev' = nextRev + 1
  /\ UNCHANGED <<disk, loaded, savedRev, undo, redo, before, save, draft, told, cut, stale, warned, saves, faults>>

Replace ==
  /\ \E i \in DOMAIN doc : \E n \in [c : Contents, refs : SUBSET doc[i].node.refs] :
       n # doc[i].node /\ Touch([doc EXCEPT ![i].node = n])
  /\ UNCHANGED drafts

Add ==
  /\ drafts < Len(Drafts) /\ drafts' = drafts + 1
  /\ \E c \in Contents :
       Touch(Append(doc, [id |-> Drafts[drafts'], handle |-> Drafts[drafts'],
                          node |-> [c |-> c, refs |-> {}], file |-> None]))

Without(es, i) ==
  LET h == es[i].handle
      Unwired(e) == [e EXCEPT !.node.refs = @ \ {h}]
      rest == RemoveAt(es, i)
  IN [k \in DOMAIN rest |-> Unwired(rest[k])]

RemoveNode == (\E i \in DOMAIN doc : Touch(Without(doc, i))) /\ UNCHANGED drafts

\* What is reached from a set of names on disk, at any depth.
Reached(names) ==
  LET all == pkg \cup other
      Step(s) == s \cup UNION {n.refs : n \in s \cap all}
      reach[k \in 0..Cardinality(all)] == IF k = 0 THEN names ELSE Step(reach[k - 1])
  IN reach[Cardinality(all)]

Link ==
  /\ \E i \in DOMAIN doc, h \in Handles(doc) \cup other :
       /\ h # doc[i].handle /\ h \notin doc[i].node.refs
       /\ Touch([doc EXCEPT ![i].node.refs = @ \cup {h}])
  /\ UNCHANGED drafts

\* What a node of the package contains, at any depth, that is in the package too.
Contained(es, i) ==
  LET Step(s) == s \cup {k \in DOMAIN es : \E j \in s : es[k].handle \in es[j].node.refs}
      reach[n \in 0..Len(es)] == IF n = 0 THEN {i} ELSE Step(reach[n - 1])
  IN reach[Len(es)]

\* One node's layers go to another; what named the one names the other. Refused when the
\* one contains the other, other than as what it is built on.
MergeInto ==
  /\ \E from, into \in DOMAIN doc, c \in Contents :
       LET hf == doc[from].handle
           hi == doc[into].handle
           src == [doc EXCEPT ![from].node.refs = @ \ {hi}]
           Rewired(refs) == IF hf \in refs THEN (refs \ {hf}) \cup {hi} ELSE refs
           merged == [k \in DOMAIN doc |->
             IF k = into
             THEN [doc[k] EXCEPT !.node = [c |-> c, refs |-> @.refs \cup (src[from].node.refs \ {hf})]]
             ELSE [doc[k] EXCEPT !.node.refs = Rewired(@)]]
       IN /\ from # into /\ into \notin Contained(src, from)
          /\ Touch(Without(merged, from))
  /\ UNCHANGED drafts

--------------------------------------------------------------------------------
(* Undo and redo *)

Committed == IF changed THEN Append(undo, before) ELSE undo

\* mutant: every step is kept
KeepAll(u) == u

Capped(u) == IF Len(u) > MaxUndo THEN Tail(u) ELSE u

Steps == Capped(Committed)
Redone == IF changed THEN <<>> ELSE redo

Commit ==
  /\ save = Idle /\ changed
  /\ undo' = Steps /\ redo' = <<>> /\ before' = Take /\ changed' = FALSE
  /\ UNCHANGED <<disk, doc, loaded, rev, savedRev, nextRev, save, draft, told, cut, stale, warned, drafts, edits, saves, faults>>

\* mutant: the revision is not restored
RestoreEntries(s) == doc' = s.entries /\ UNCHANGED rev

Restore(s) == doc' = s.entries /\ rev' = s.rev

Travel == save = Idle /\ changed' = FALSE
          /\ UNCHANGED <<disk, loaded, savedRev, nextRev, save, draft, told, cut, stale, warned, drafts, edits, saves, faults>>

Undo ==
  /\ Travel /\ Steps # <<>>
  /\ redo' = Append(Redone, Take) /\ Restore(Last(Steps))
  /\ undo' = Front(Steps) /\ before' = Last(Steps)

Redo ==
  /\ Travel /\ Redone # <<>>
  /\ undo' = Append(Steps, Take) /\ Restore(Last(Redone))
  /\ redo' = Front(Redone) /\ before' = Last(Redone)

--------------------------------------------------------------------------------
(* The save: the plan *)

\* The other packages' nodes that are copies of one of these, or contain one, at any depth.
Pending(handles) ==
  LET Closed(s) == \A n \in other : n \in handles \/ n.refs \cap (handles \cup s) # {} => n \in s
  IN {n \in other : \A s \in SUBSET other : Closed(s) => n \in s}

\* The nodes contain each other in a circle, here or through other packages.
Circle(lib) ==
  \E s \in SUBSET DOMAIN doc, t \in SUBSET lib :
    LET handles == {doc[i].handle : i \in s}
        Waits(node) == node.refs \cap (handles \cup t) # {}
    IN /\ s # {} \/ t # {}
       /\ \A i \in s : Waits(doc[i].node)
       /\ \A n \in t : Waits(n) \/ n \in handles

\* Each is named once everything it contains is: by its content, with those names. Of two
\* nodes with one name (undo can bring that) the one that changed gives the new one.
NewNames(handles, lib) ==
  LET Node(h) == IF h \notin handles THEN h
                 ELSE LET same == {i \in DOMAIN doc : doc[i].handle = h}
                          edited == {i \in same : doc[i].node # h}
                      IN doc[Max(IF edited = {} THEN same ELSE edited)].node
      names[h \in handles \cup lib] ==
        [Node(h) EXCEPT !.refs = {IF r \in handles \cup lib THEN names[r] ELSE r : r \in @}]
  IN names

\* A file of a deleted node stays when something names it and no copy of it stays elsewhere.
KeepsOnDisk(M, files, replaced) ==
  LET named == (UNION {Remap(n, M).refs : n \in other}) \cup {Pick(M, inst[k]) : k \in DOMAIN inst}
  IN {f \in files \ replaced : f \in named /\ f \notin other \ DOMAIN M}

\* Everything is planned before the disk is touched: the renames, the writes and the
\* files that go.
Plan(lib) ==
  LET names == NewNames(Handles(doc), lib)
      M == [h \in {x \in DOMAIN names : names[x] # x} |-> names[h]]
      cids == [i \in DOMAIN doc |-> Remap(doc[i].node, M)]
      claimed == {cids[i] : i \in DOMAIN doc}
      replaced == {doc[i].file : i \in {k \in DOMAIN doc : doc[k].file \notin {None, cids[k]}}}
      kept == KeepsOnDisk(M, loaded \ claimed, replaced)
      moved == lib \cap DOMAIN M
      landed == {M[n] : n \in moved}
  IN [pc |-> "write", map |-> M, cids |-> cids, kept |-> kept, was |-> disk, done |-> {}, stuck |-> FALSE,
      todo |-> {<<"other", n>> : n \in landed \ other} \cup {<<"pkg", n>> : n \in claimed \ pkg}
               \cup {<<"inst", k>> : k \in {x \in DOMAIN inst : inst[x] \in DOMAIN M}},
      gone |-> {<<"other", n>> : n \in moved \ landed}
               \cup {<<"pkg", f>> : f \in (replaced \cup (loaded \ kept)) \ claimed}]

SaveBegins ==
  /\ save = Idle /\ saves < MaxSaves /\ saves' = saves + 1
  /\ LET lib == Pending(Handles(doc))
     IN IF Circle(lib) THEN UNCHANGED save
        ELSE LET plan == Plan(lib)
             IN save' = IF \E i, j \in DOMAIN doc : i # j /\ plan.cids[i] = plan.cids[j] THEN Idle ELSE plan
  /\ undo' = Steps /\ redo' = Redone /\ before' = Take /\ changed' = FALSE
  /\ UNCHANGED <<disk, doc, loaded, rev, savedRev, nextRev, draft, told, cut, stale, warned, drafts, edits, faults>>

--------------------------------------------------------------------------------
(* The save: the disk *)

Saves(pc) == save.pc = pc /\ UNCHANGED <<session, draft, drafts, edits, saves>>

\* mutant: the instances before the nodes they name
RankInstFirst(w) == CASE w[1] = "inst" -> 1 [] w[1] = "other" -> 2 [] w[1] = "pkg" -> 3

OnDisk(w) ==
  /\ pkg' = IF w[1] = "pkg" THEN pkg \cup {w[2]} ELSE pkg
  /\ other' = IF w[1] = "other" THEN other \cup {w[2]} ELSE other
  /\ inst' = IF w[1] = "inst" THEN [inst EXCEPT ![w[2]] = save.map[@]] ELSE inst

Rank(w) == CASE w[1] = "other" -> 1 [] w[1] = "pkg" -> 2 [] w[1] = "inst" -> 3

\* mutant: only this package's files are undone
OffDiskOwn(w) ==
  /\ pkg' = IF w[1] = "pkg" THEN pkg \ {w[2]} ELSE pkg
  /\ UNCHANGED <<other, inst>>

OffDisk(w) ==
  /\ pkg' = IF w[1] = "pkg" THEN pkg \ {w[2]} ELSE pkg
  /\ other' = IF w[1] = "other" THEN other \ {w[2]} ELSE other
  /\ inst' = IF w[1] = "inst" THEN [inst EXCEPT ![w[2]] = save.was[3][w[2]]] ELSE inst

\* Other packages' nodes, then this package's, then the instances.
Write ==
  /\ Saves("write")
  /\ \E w \in save.todo :
       /\ \A v \in save.todo : Rank(w) <= Rank(v)
       /\ OnDisk(w) /\ save' = [save EXCEPT !.todo = @ \ {w}, !.done = @ \cup {w}]
  /\ UNCHANGED <<told, cut, stale, warned, faults>>

WriteFails ==
  /\ Saves("write") /\ save.todo # {} /\ Faulty
  /\ save' = [save EXCEPT !.pc = "back"]
  /\ UNCHANGED <<disk, told, cut, stale, warned>>

\* What was written is undone, last first; what cannot be is left, and the author told.
WriteUndone ==
  /\ Saves("back")
  /\ \E w \in save.done :
       /\ \A v \in save.done : Rank(w) >= Rank(v)
       /\ \/ OffDisk(w) /\ save' = [save EXCEPT !.done = @ \ {w}] /\ UNCHANGED <<told, warned, faults>>
          \/ /\ warned' = TRUE /\ UNCHANGED faults /\ told' = told \cup {w[2]}
             /\ save' = [save EXCEPT !.done = @ \ {w}, !.stuck = TRUE] /\ UNCHANGED disk
  /\ UNCHANGED <<cut, stale>>

SaveFailed ==
  /\ Saves("back") /\ save.done = {}
  /\ save' = Idle /\ UNCHANGED <<disk, told, cut, stale, warned, faults>>

WritesLanded ==
  /\ Saves("write") /\ save.todo = {}
  /\ save' = [save EXCEPT !.pc = "remove"]
  /\ cut' = (cut \/ save.kept # {})
  /\ stale' = (stale \/ \E i \in DOMAIN doc :
                  /\ doc[i].file \in pkg \ {doc[i].handle} /\ <<"pkg", doc[i].file>> \in save.gone
                  /\ doc[i].file \in Named \cup UNION {n.refs : n \in other})
  /\ UNCHANGED <<disk, told, warned, faults>>

\* Only then what they replace goes; a file that cannot is named to the author.
Gone ==
  /\ Saves("remove")
  /\ \E w \in save.gone :
       /\ save' = [save EXCEPT !.gone = @ \ {w}]
       /\ \/ OffDisk(w) /\ UNCHANGED <<told, faults>>
          \/ Faulty /\ told' = told \cup {w[2]} /\ UNCHANGED disk
  /\ UNCHANGED <<cut, stale, warned>>

Renamed(es, M) ==
  [i \in DOMAIN es |-> [es[i] EXCEPT !.handle = Pick(M, @), !.node = Remap(@, M)]]

RenamedIn(s, M) == [s EXCEPT !.entries = Renamed(@, M)]

\* mutant: what was undone keeps its names
HistoryKeepsRedo(M) ==
  /\ undo' = [k \in DOMAIN undo |-> RenamedIn(undo[k], M)]
  /\ before' = RenamedIn(before, M) /\ UNCHANGED redo

HistoryRenamed(M) ==
  /\ undo' = [k \in DOMAIN undo |-> RenamedIn(undo[k], M)]
  /\ redo' = [k \in DOMAIN redo |-> RenamedIn(redo[k], M)]
  /\ before' = RenamedIn(before, M)

\* The document is what is on disk, its handles the CIDs; the draft is dropped.
Saved ==
  /\ save.pc = "remove" /\ save.gone = {}
  /\ doc' = [i \in DOMAIN doc |-> [Renamed(doc, save.map)[i] EXCEPT !.file = save.cids[i]]]
  /\ HistoryRenamed(save.map)
  /\ loaded' = pkg /\ savedRev' = rev /\ save' = Idle /\ draft' = None
  /\ told' = (told \cup save.kept) \cap (pkg \cup other) /\ cut' = (cut \/ told' # {})
  /\ UNCHANGED <<disk, rev, nextRev, changed, stale, warned, drafts, edits, saves, faults>>

--------------------------------------------------------------------------------
(* Drafts, closing and crashes *)

WriteDraft ==
  /\ save = Idle /\ Dirty
  /\ draft' = [i \in DOMAIN doc |-> [handle |-> doc[i].handle, node |-> doc[i].node]]
  /\ UNCHANGED <<disk, session, save, told, cut, stale, warned, drafts, edits, saves, faults>>

OpenWith(es, snapshots) ==
  /\ doc' = es /\ loaded' = pkg /\ told' = {}
  /\ savedRev' = 1 /\ rev' = 1 + Len(snapshots) /\ nextRev' = rev' + 1
  /\ undo' = snapshots /\ redo' = <<>> /\ before' = [entries |-> es, rev |-> rev'] /\ changed' = FALSE

OnFile(n) == [id |-> n, handle |-> n, node |-> n, file |-> n]

Loaded(ns) == LET files == SetToSeq(ns) IN [i \in DOMAIN files |-> OnFile(files[i])]

\* The draft's nodes replace the loaded ones of their names, the last where it has two of
\* one name; the other loaded ones go, and what names them does not any more.
Restored ==
  LET hs == SetToSeq(Handles(draft))
      Of(h) == draft[Max({i \in DOMAIN draft : draft[i].handle = h})].node
      Clean(n) == [n EXCEPT !.refs = @ \ (pkg \ Handles(draft))]
  IN [i \in DOMAIN hs |-> [id |-> hs[i], handle |-> hs[i], node |-> Clean(Of(hs[i])),
                           file |-> IF hs[i] \in pkg THEN hs[i] ELSE None]]

\* The package is loaded; the work an earlier session wrote aside is offered.
Load(offered) ==
  LET es == Loaded(pkg)
  IN \/ OpenWith(es, <<>>) /\ draft' = None
     \/ /\ offered /\ draft # None /\ UNCHANGED draft
        /\ OpenWith(Restored, IF Restored = es THEN <<>> ELSE <<[entries |-> es, rev |-> 1]>>)

\* Closed, with the changes discarded if there are any, and opened again.
Reopen ==
  /\ save = Idle /\ Load(~Dirty)
  /\ UNCHANGED <<disk, save, cut, stale, warned, drafts, edits, saves, faults>>

\* The application dies, in the middle of a save too, and is started again.
Crash ==
  /\ faults < MaxFaults /\ faults' = MaxFaults
  /\ save' = Idle /\ Load(TRUE)
  /\ cut' = (cut \/ save.pc = "remove"
                 \/ \E n \in pkg \cup other : ~(n.refs \subseteq pkg \cup other))
  /\ UNCHANGED <<disk, stale, warned, drafts, edits, saves>>

Init ==
  /\ \E s \in Starts : pkg = s.pkg /\ other = s.other /\ inst = s.inst
  /\ loaded = pkg /\ told = {} /\ cut = FALSE /\ stale = FALSE /\ warned = FALSE /\ draft = None
  /\ rev = 1 /\ savedRev = 1 /\ nextRev = 2
  /\ doc = Loaded(pkg)
  /\ undo = <<>> /\ redo = <<>> /\ before = Take /\ changed = FALSE
  /\ save = Idle /\ drafts = 0 /\ edits = 0 /\ saves = 0 /\ faults = 0

Next ==
  \/ Replace \/ Add \/ RemoveNode \/ Link \/ MergeInto
  \/ Commit \/ Undo \/ Redo
  \/ SaveBegins \/ Write \/ WriteFails \/ WriteUndone \/ SaveFailed \/ WritesLanded \/ Gone \/ Saved
  \/ WriteDraft \/ Reopen \/ Crash

Spec == Init /\ [][Next]_vars

--------------------------------------------------------------------------------
(* Properties *)

Snapshots == {undo[k] : k \in DOMAIN undo} \cup {redo[k] : k \in DOMAIN redo} \cup {before}

\* The history is capped and never of a revision to come; a save at work has only files to write
\* of this package that are not there.
TypeOK ==
  /\ {rev, savedRev} \cup {s.rev : s \in Snapshots} \subseteq 1..(nextRev - 1)
  /\ Len(undo) <= MaxUndo
  /\ save = Idle \/ (save.pc \in {"write", "back", "remove"} /\ \A w \in save.todo : w \notin {"pkg"} \X pkg)
  /\ drafts \in 0..Len(Drafts) /\ edits \in 0..MaxEdits /\ saves \in 0..MaxSaves /\ faults \in 0..MaxFaults

\* A package that says it has nothing to save is what is on disk: its nodes' files, and besides
\* them only files the author was told of.
CleanMeansSaved ==
  ~Dirty /\ save = Idle =>
    LET nodes == {doc[i].node : i \in DOMAIN doc}
    IN nodes \subseteq pkg /\ pkg \ nodes \subseteq told

\* At every step of a save, and after it failed or the application died in it, what the instances
\* remember is on disk, and everything it contains is, short of what the author was told of: files
\* a failed save could not undo, a deleted node that was kept, an old version left behind; and
\* short of a file that a node brought back by undo still gave as its own.
InstancesResolve ==
  ~warned /\ ~stale =>
    /\ Named \subseteq pkg \cup other
    /\ ~cut => Reached(Named) \subseteq pkg \cup other

\* After a save a node has its new name everywhere, in what can be undone and redone too.
OneName ==
  \A s, t \in Snapshots \cup {Take} : \A i \in DOMAIN s.entries, j \in DOMAIN t.entries :
    s.entries[i].id = t.entries[j].id => s.entries[i].handle = t.entries[j].handle

\* A save that failed left the disk as it was, unless it says what it could not undo.
FailedSaveUndone ==
  save # Idle /\ save.pc = "back" /\ save.done = {} /\ ~save.stuck => disk = save.was
================================================================================
