-------------------------- MODULE PackageDocumentProofs --------------------------
(***************************************************************************)
(* Proofs about the package editor's document, for every disk, content,    *)
(* number of edits, saves, faults and undo steps: a save that fails leaves *)
(* the disk as it was, and a package with nothing to save is what is on    *)
(* disk, through undo, redo, saves cut short, drafts and crashes. At every *)
(* step of a save what the instances remember is on disk, with all it      *)
(* contains.                                                               *)
(*                                                                         *)
(* A sequence here is over no fixed set: it is one of its own values.      *)
(***************************************************************************)
EXTENDS PackageDocument, FiniteSetTheorems, SequenceTheorems, WellFoundedInduction, TLAPS

\* The values of a sequence, and what it takes to be one of anything.
Rng(s) == {s[i] : i \in DOMAIN s}
IsSeq(s) == s \in Seq(Rng(s))

IsEntries(es) ==
  /\ IsSeq(es)
  /\ \A i \in DOMAIN es :
       es[i] = [id |-> es[i].id, handle |-> es[i].handle, node |-> es[i].node, file |-> es[i].file]

\* What the document was, is, or can be again.
States == Snapshots \cup {Take}

NodesOf(s) == {s.entries[i].node : i \in DOMAIN s.entries}

\* Who a node is in the editor, and the name it has.
NamesIn(es) == {<<es[i].id, es[i].handle>> : i \in DOMAIN es}

PkgOf(ws) == {w[2] : w \in {v \in ws : v[1] = "pkg"}}

OtherOf(ws) == {w[2] : w \in {v \in ws : v[1] = "other"}}

\* This package's files as the last save that ended left them.
Base == IF save = Idle THEN pkg ELSE save.was[1]

Claimed == {save.cids[i] : i \in DOMAIN save.cids}

--------------------------------------------------------------------------------
(* The inductive invariant *)

Typed ==
  /\ IsEntries(doc) /\ IsSeq(undo) /\ IsSeq(redo) /\ Len(undo) + Len(redo) <= MaxUndo
  /\ \A s \in Snapshots : s = [entries |-> s.entries, rev |-> s.rev] /\ IsEntries(s.entries)
  /\ nextRev \in Nat /\ savedRev \in 1..(nextRev - 1)
  /\ \A s \in States : s.rev \in 1..(nextRev - 1)
  /\ IsFiniteSet(pkg) /\ inst = [k \in DOMAIN inst |-> inst[k]] /\ (draft = None \/ IsSeq(draft))
  /\ drafts \in 0..Len(Drafts) /\ edits \in 0..MaxEdits /\ saves \in 0..MaxSaves
  /\ faults \in 0..MaxFaults

\* A revision is one document, in the history too.
OneRevision == \A s, t \in States : s.rev = t.rev => NodesOf(s) = NodesOf(t)

\* The revision saved is what the package's files were when no save was at work.
SavedKept ==
  /\ Base \subseteq loaded \cup told
  /\ \A s \in States : s.rev = savedRev => NodesOf(s) \subseteq Base /\ Base \ NodesOf(s) \subseteq told

\* The plan of a save, for the document as it is while it is at work.
Planned ==
  save # Idle =>
    /\ save = [pc |-> save.pc, map |-> save.map, cids |-> save.cids, kept |-> save.kept,
               was |-> save.was, done |-> save.done, stuck |-> save.stuck, todo |-> save.todo,
               gone |-> save.gone]
    /\ save.pc \in {"write", "back", "remove"}
    /\ save.cids = [i \in DOMAIN doc |-> Remap(doc[i].node, save.map)]
    /\ PkgOf(save.todo \cup save.done) \subseteq Claimed
    /\ PkgOf(save.gone) \cap Claimed = {}
    /\ \A w \in save.todo \cup save.done : w = <<w[1], w[2]>> /\ w[1] \in {"pkg", "other", "inst"}

\* What is written and what is still to be, while nothing is removed.
Writing ==
  save # Idle /\ save.pc # "remove" =>
    /\ save.was[1] \subseteq pkg
    /\ pkg \subseteq save.was[1] \cup PkgOf(save.done) \cup told
    /\ PkgOf(save.todo \cup save.done) \cap save.was[1] = {}
    /\ PkgOf(save.todo) \cap pkg = {}
    /\ save.pc = "write" => Claimed \subseteq pkg \cup PkgOf(save.todo)
    /\ save.was[1] \subseteq Claimed \cup save.kept \cup PkgOf(save.gone) \cup told

\* What goes, once all is written.
Removing ==
  save # Idle /\ save.pc = "remove" =>
    /\ save.todo = {}
    /\ Claimed \subseteq pkg
    /\ pkg \subseteq Claimed \cup save.kept \cup PkgOf(save.gone) \cup told

\* As long as nothing is stuck, the disk is as it was, but for what was written.
Undoable ==
  save # Idle /\ save.pc # "remove" =>
    /\ save.was = <<save.was[1], save.was[2], save.was[3]>>
    /\ OtherOf(save.todo \cup save.done) \cap save.was[2] = {}
    /\ ~save.stuck => /\ pkg \ PkgOf(save.done) = save.was[1]
                      /\ other \ OtherOf(save.done) = save.was[2]
                      /\ save.was[3] = [k \in DOMAIN save.was[3] |-> save.was[3][k]]
                      /\ inst = [k \in DOMAIN save.was[3] |-> inst[k]]
                      /\ \A k \in DOMAIN inst : inst[k] = save.was[3][k] \/ <<"inst", k>> \in save.done

IInv == Typed /\ OneRevision /\ SavedKept /\ Planned /\ Writing /\ Removing /\ Undoable

--------------------------------------------------------------------------------
(* Sequences of their own values *)

LEMMA SeqForm ==
  ASSUME NEW s, IsSeq(s)
  PROVE  /\ Len(s) \in Nat /\ DOMAIN s = 1..Len(s) /\ s = [i \in 1..Len(s) |-> s[i]]
         /\ \A i \in DOMAIN s : s[i] \in Rng(s)
<1>1. s \in Seq(Rng(s))
  BY DEF IsSeq
<1>2. Len(s) \in Nat /\ s \in [1..Len(s) -> Rng(s)] /\ DOMAIN s = 1..Len(s)
  BY <1>1, LenProperties
<1>3. QED
  BY <1>2 DEF Rng

LEMMA FunctionIsSeq ==
  ASSUME NEW n \in Nat, NEW f, f = [i \in 1..n |-> f[i]]
  PROVE  IsSeq(f) /\ Len(f) = n /\ DOMAIN f = 1..n
<1>1. DOMAIN f = 1..n
  OBVIOUS
<1>2. f \in [1..n -> Rng(f)]
  BY <1>1 DEF Rng
<1>3. f \in Seq(Rng(f))
  BY <1>2
<1>4. Len(f) = n
  BY <1>1, <1>3, LenProperties
<1>5. QED
  BY <1>1, <1>3, <1>4 DEF IsSeq

LEMMA AppendForm ==
  ASSUME NEW s, IsSeq(s), NEW e
  PROVE  /\ IsSeq(Append(s, e)) /\ Len(Append(s, e)) = Len(s) + 1
         /\ Rng(Append(s, e)) = Rng(s) \cup {e}
<1> DEFINE S == Rng(s) \cup {e}
<1>1. s \in Seq(S)
  BY SeqMonotonic DEF IsSeq
<1>2. /\ Append(s, e) \in Seq(S) /\ Len(Append(s, e)) = Len(s) + 1
      /\ \A i \in 1..Len(s) : Append(s, e)[i] = s[i]
      /\ Append(s, e)[Len(s) + 1] = e
  BY <1>1, AppendProperties
<1>3. DOMAIN Append(s, e) = 1..(Len(s) + 1) /\ Len(s) \in Nat /\ DOMAIN s = 1..Len(s)
  BY <1>1, <1>2, LenProperties
<1>4. Rng(Append(s, e)) = S
  BY <1>2, <1>3 DEF Rng
<1>5. QED
  BY <1>2, <1>4 DEF IsSeq

LEMMA PartOfSeq ==
  ASSUME NEW s, IsSeq(s), s # <<>>
  PROVE  /\ IsSeq(Front(s)) /\ Rng(Front(s)) \subseteq Rng(s) /\ Len(Front(s)) = Len(s) - 1
         /\ IsSeq(Tail(s)) /\ Rng(Tail(s)) \subseteq Rng(s) /\ Len(Tail(s)) = Len(s) - 1
         /\ Last(s) \in Rng(s)
<1>1. s \in Seq(Rng(s)) /\ Len(s) \in Nat \ {0} /\ DOMAIN s = 1..Len(s)
  BY SeqForm, EmptySeq DEF IsSeq
<1>2. Front(s) \in Seq(Rng(s)) /\ Len(Front(s)) = Len(s) - 1
  BY <1>1, SubSeqProperties DEF Front
<1>3. Tail(s) \in Seq(Rng(s)) /\ Len(Tail(s)) = Len(s) - 1
  BY <1>1, HeadTailProperties
<1>4. ASSUME NEW t \in Seq(Rng(s)) PROVE IsSeq(t) /\ Rng(t) \subseteq Rng(s)
  <2>1. DOMAIN t = 1..Len(t) /\ t \in [1..Len(t) -> Rng(s)] /\ Len(t) \in Nat
    BY <1>4, LenProperties
  <2>2. Rng(t) \subseteq Rng(s) /\ t = [i \in 1..Len(t) |-> t[i]]
    BY <2>1 DEF Rng
  <2>3. QED
    BY <2>1, <2>2, FunctionIsSeq
<1>5. Last(s) \in Rng(s)
  BY <1>1 DEF Last, Rng
<1>6. QED
  BY <1>2, <1>3, <1>4, <1>5

LEMMA EmptyForm == IsSeq(<<>>) /\ Rng(<<>>) = {} /\ Len(<<>>) = 0
<1>1. DOMAIN <<>> = {}
  OBVIOUS
<1>2. Rng(<<>>) = {}
  BY <1>1 DEF Rng
<1>3. QED
  BY <1>2, EmptySeq DEF IsSeq

LEMMA OneForm == ASSUME NEW e PROVE IsSeq(<<e>>) /\ Rng(<<e>>) = {e} /\ Len(<<e>>) = 1
<1>1. <<e>> \in Seq({e}) /\ Len(<<e>>) = 1
  OBVIOUS
<1>2. DOMAIN <<e>> = 1..1 /\ <<e>>[1] = e
  OBVIOUS
<1>3. Rng(<<e>>) = {e}
  BY <1>2 DEF Rng
<1>4. QED
  BY <1>1, <1>3 DEF IsSeq

\* The nodes' files, in some order, each once.
LEMMA SetToSeqForm ==
  ASSUME NEW S, IsFiniteSet(S)
  PROVE  IsSeq(SetToSeq(S)) /\ Rng(SetToSeq(S)) = S
<1> DEFINE n == Cardinality(S)
           f == SetToSeq(S)
<1>1. n \in Nat /\ ExistsBijection(1..n, S)
  BY FS_CardinalityType
<1>2. \E g \in [1..n -> S] : IsInjective(g)
  BY <1>1 DEF ExistsBijection, Bijection, Injection, IsInjective
<1>3. f \in [1..n -> S] /\ IsInjective(f)
  BY <1>2 DEF SetToSeq
<1>4. IsFiniteSet(1..n) /\ Cardinality(1..n) = n
  BY <1>1, FS_Interval
<1> HIDE DEF f
<1>5. f \in Injection(1..n, S)
  BY <1>3 DEF Injection, IsInjective
<1>6. f \in Surjection(1..n, S)
  BY <1>4, <1>5, FS_Injection
<1>7. Rng(f) = S
  BY <1>3, <1>6 DEF Surjection, Rng
<1>8. f = [i \in 1..n |-> f[i]]
  BY <1>3
<1>9. IsSeq(f)
  BY <1>1, <1>8, FunctionIsSeq
<1>10. QED
  BY <1>7, <1>9 DEF f

LEMMA ImageFinite ==
  ASSUME NEW s, IsSeq(s)
  PROVE  IsFiniteSet(Rng(s))
<1>1. Len(s) \in Nat /\ DOMAIN s = 1..Len(s) /\ s \in [1..Len(s) -> Rng(s)]
  BY SeqForm
<1>2. s \in Surjection(1..Len(s), Rng(s))
  BY <1>1 DEF Surjection, Rng
<1>3. IsFiniteSet(1..Len(s))
  BY <1>1, FS_Interval
<1>4. QED
  BY <1>2, <1>3, FS_Surjection

--------------------------------------------------------------------------------
(* Documents *)

\* A function over a sequence's indices that makes entries.
LEMMA EntriesFrom ==
  ASSUME NEW n \in Nat, NEW f, f = [i \in 1..n |-> f[i]],
         \A i \in 1..n : f[i] = [id |-> f[i].id, handle |-> f[i].handle, node |-> f[i].node,
                                 file |-> f[i].file]
  PROVE  IsEntries(f)
BY FunctionIsSeq DEF IsEntries

LEMMA EntriesForm ==
  ASSUME NEW es, IsEntries(es)
  PROVE  /\ Len(es) \in Nat /\ DOMAIN es = 1..Len(es) /\ es = [i \in 1..Len(es) |-> es[i]]
         /\ \A i \in 1..Len(es) : es[i] = [id |-> es[i].id, handle |-> es[i].handle,
                                           node |-> es[i].node, file |-> es[i].file]
BY SeqForm DEF IsEntries

LEMMA AppendEntries ==
  ASSUME NEW es, IsEntries(es), NEW e,
         e = [id |-> e.id, handle |-> e.handle, node |-> e.node, file |-> e.file]
  PROVE  IsEntries(Append(es, e))
<1>1. IsSeq(Append(es, e)) /\ Rng(Append(es, e)) = Rng(es) \cup {e} /\ IsSeq(es)
  BY AppendForm DEF IsEntries
<1>2. ASSUME NEW i \in DOMAIN Append(es, e)
      PROVE  LET x == Append(es, e)[i]
             IN  x = [id |-> x.id, handle |-> x.handle, node |-> x.node, file |-> x.file]
  <2>1. Append(es, e)[i] \in Rng(es) \cup {e}
    BY <1>1, <1>2 DEF Rng
  <2>2. QED
    BY <2>1 DEF IsEntries, Rng
<1>3. QED
  BY <1>1, <1>2 DEF IsEntries

\* Removing one leaves the others.
LEMMA RemoveAtEntries ==
  ASSUME NEW es, IsEntries(es), NEW i \in DOMAIN es
  PROVE  IsEntries(RemoveAt(es, i)) /\ Rng(RemoveAt(es, i)) \subseteq Rng(es)
<1>1. es \in Seq(Rng(es)) /\ Len(es) \in Nat /\ i \in 1..Len(es)
  BY SeqForm DEF IsEntries, IsSeq
<1> DEFINE a == SubSeq(es, 1, i - 1)
           b == SubSeq(es, i + 1, Len(es))
<1>2. a \in Seq(Rng(es)) /\ b \in Seq(Rng(es))
  BY <1>1
<1>3. a \o b \in Seq(Rng(es))
  BY <1>2, ConcatProperties
<1> DEFINE r == RemoveAt(es, i)
<1>4. r \in Seq(Rng(es))
  BY <1>3 DEF RemoveAt
<1> HIDE DEF r
<1>5. Len(r) \in Nat /\ r \in [1..Len(r) -> Rng(es)]
  BY <1>4, LenProperties
<1>6. \A k \in 1..Len(r) : r[k] = [id |-> r[k].id, handle |-> r[k].handle, node |-> r[k].node,
                                   file |-> r[k].file]
  BY <1>5 DEF Rng, IsEntries
<1>7. r = [k \in 1..Len(r) |-> r[k]]
  BY <1>5
<1>8. IsEntries(r) /\ Rng(r) \subseteq Rng(es)
  BY <1>5, <1>6, <1>7, EntriesFrom DEF Rng
<1>9. QED
  BY <1>8 DEF r

LEMMA WithoutEntries ==
  ASSUME NEW es, IsEntries(es), NEW i \in DOMAIN es
  PROVE  IsEntries(Without(es, i)) /\ NamesIn(Without(es, i)) \subseteq NamesIn(es)
<1> DEFINE rest == RemoveAt(es, i)
           Unwired(e) == [e EXCEPT !.node.refs = @ \ {es[i].handle}]
           w == [k \in DOMAIN rest |-> Unwired(rest[k])]
<1>1. IsEntries(rest) /\ Rng(rest) \subseteq Rng(es)
  BY RemoveAtEntries
<1>2. Len(rest) \in Nat /\ DOMAIN rest = 1..Len(rest)
      /\ \A k \in 1..Len(rest) : rest[k] = [id |-> rest[k].id, handle |-> rest[k].handle,
                                            node |-> rest[k].node, file |-> rest[k].file]
  BY <1>1, EntriesForm
<1> HIDE DEF rest
<1>3. \A k \in 1..Len(rest) :
        /\ w[k] = [id |-> w[k].id, handle |-> w[k].handle, node |-> w[k].node, file |-> w[k].file]
        /\ w[k].id = rest[k].id /\ w[k].handle = rest[k].handle
  <2>1. TAKE k \in 1..Len(rest)
  <2> DEFINE a == rest[k].id
             b == rest[k].handle
             n == [rest[k].node EXCEPT !.refs = @ \ {es[i].handle}]
             d == rest[k].file
  <2>2. w[k] = [rest[k] EXCEPT !.node = n]
    BY <1>2
  <2> HIDE DEF n, w
  <2>3. rest[k] = [id |-> a, handle |-> b, node |-> rest[k].node, file |-> d]
    BY <1>2
  <2> HIDE DEF a, b, d
  <2>4. w[k] = [id |-> a, handle |-> b, node |-> n, file |-> d]
    BY <2>2, <2>3
  <2>5. QED
    BY <2>4 DEF a, b
<1>4. w = [k \in 1..Len(rest) |-> w[k]]
  BY <1>2
<1> HIDE DEF w
<1>5. IsEntries(w)
  BY <1>2, <1>3, <1>4, EntriesFrom
<1>6. NamesIn(w) \subseteq NamesIn(es)
  <2>1. DOMAIN w = 1..Len(rest)
    BY <1>4
  <2>2. ASSUME NEW k \in 1..Len(rest) PROVE <<w[k].id, w[k].handle>> \in NamesIn(es)
    <3>1. PICK j \in DOMAIN es : rest[k] = es[j]
      BY <1>1, <1>2 DEF Rng
    <3>2. QED
      BY <1>3, <3>1 DEF NamesIn
  <2>3. QED
    BY <2>1, <2>2 DEF NamesIn
<1>7. QED
  BY <1>5, <1>6 DEF w, Without, rest

LEMMA EntryChanged ==
  ASSUME NEW e, e = [id |-> e.id, handle |-> e.handle, node |-> e.node, file |-> e.file],
         NEW h, NEW n
  PROVE  [e EXCEPT !.handle = h, !.node = n] = [id |-> e.id, handle |-> h, node |-> n, file |-> e.file]
<1> DEFINE x == [e EXCEPT !.handle = h]
<1>1. x = [id |-> e.id, handle |-> h, node |-> e.node, file |-> e.file]
  OBVIOUS
<1> HIDE DEF x
<1>2. [x EXCEPT !.node = n] = [id |-> e.id, handle |-> h, node |-> n, file |-> e.file]
  BY <1>1
<1>3. QED
  BY <1>2 DEF x

\* A save renames the nodes of every revision in one way.
LEMMA RenamedForm ==
  ASSUME NEW es, IsEntries(es), NEW M
  PROVE  /\ IsEntries(Renamed(es, M)) /\ DOMAIN Renamed(es, M) = DOMAIN es
         /\ \A i \in DOMAIN es : /\ Renamed(es, M)[i].node = Remap(es[i].node, M)
                                /\ Renamed(es, M)[i].id = es[i].id
                                /\ Renamed(es, M)[i].handle = Pick(M, es[i].handle)
<1> DEFINE r == Renamed(es, M)
           Of(e) == [e EXCEPT !.handle = Pick(M, @), !.node = Remap(@, M)]
<1>1. Len(es) \in Nat /\ DOMAIN es = 1..Len(es)
      /\ \A i \in 1..Len(es) : es[i] = [id |-> es[i].id, handle |-> es[i].handle,
                                        node |-> es[i].node, file |-> es[i].file]
  BY EntriesForm
<1>2. r = [i \in 1..Len(es) |-> Of(es[i])]
  BY <1>1 DEF Renamed
<1>3. \A i \in 1..Len(es) : Of(es[i]) = [id |-> es[i].id, handle |-> Pick(M, es[i].handle),
                                         node |-> Remap(es[i].node, M), file |-> es[i].file]
  BY <1>1, EntryChanged
<1> HIDE DEF r, Of
<1>4. \A i \in 1..Len(es) : r[i] = [id |-> es[i].id, handle |-> Pick(M, es[i].handle),
                                    node |-> Remap(es[i].node, M), file |-> es[i].file]
  BY <1>2, <1>3
<1>5. \A i \in 1..Len(es) : r[i] = [id |-> r[i].id, handle |-> r[i].handle, node |-> r[i].node,
                                    file |-> r[i].file]
  <2>1. TAKE i \in 1..Len(es)
  <2> DEFINE a == es[i].id
             b == Pick(M, es[i].handle)
             c == Remap(es[i].node, M)
             d == es[i].file
  <2>2. r[i] = [id |-> a, handle |-> b, node |-> c, file |-> d]
    BY <1>4
  <2> HIDE DEF a, b, c, d
  <2>3. QED
    BY <2>2
<1>6. r = [i \in 1..Len(es) |-> r[i]]
  BY <1>2
<1>7. IsEntries(r)
  BY <1>1, <1>5, <1>6, EntriesFrom
<1>8. DOMAIN r = DOMAIN es
  BY <1>1, <1>6
<1>9. QED
  BY <1>1, <1>4, <1>7, <1>8 DEF r

LEMMA RenamedNodes ==
  ASSUME NEW s, IsEntries(s.entries), NEW M, s = [entries |-> s.entries, rev |-> s.rev]
  PROVE  LET t == RenamedIn(s, M)
         IN  /\ t = [entries |-> t.entries, rev |-> t.rev] /\ IsEntries(t.entries) /\ t.rev = s.rev
             /\ NodesOf(t) = {Remap(n, M) : n \in NodesOf(s)}
<1> DEFINE t == RenamedIn(s, M)
           es == s.entries
<1>1. t = [entries |-> Renamed(es, M), rev |-> s.rev]
  BY DEF RenamedIn
<1>2. t.entries = Renamed(es, M) /\ t.rev = s.rev
  BY <1>1
<1> HIDE DEF t
<1>3. NodesOf(t) = {Remap(n, M) : n \in NodesOf(s)}
  BY <1>2, RenamedForm DEF NodesOf
<1>4. QED
  BY <1>1, <1>2, <1>3, RenamedForm DEF t

\* The package as it is loaded.
LEMMA LoadedForm ==
  ASSUME NEW S, IsFiniteSet(S)
  PROVE  /\ IsEntries(Loaded(S)) /\ {Loaded(S)[i].node : i \in DOMAIN Loaded(S)} = S
         /\ NamesIn(Loaded(S)) = {<<n, n>> : n \in S}
<1> DEFINE f == SetToSeq(S)
           es == [i \in DOMAIN f |-> OnFile(f[i])]
<1>1. IsSeq(f) /\ Rng(f) = S
  BY SetToSeqForm
<1> HIDE DEF f
<1>2. Len(f) \in Nat /\ DOMAIN f = 1..Len(f)
  BY <1>1, SeqForm
<1>3. \A i \in 1..Len(f) :
        /\ es[i] = [id |-> es[i].id, handle |-> es[i].handle, node |-> es[i].node,
                    file |-> es[i].file]
        /\ es[i].node = f[i] /\ es[i].id = f[i] /\ es[i].handle = f[i]
  BY <1>2 DEF OnFile
<1>4. es = [i \in 1..Len(f) |-> es[i]] /\ DOMAIN es = 1..Len(f)
  BY <1>2
<1> HIDE DEF es
<1>5. IsEntries(es)
  BY <1>2, <1>3, <1>4, EntriesFrom
<1>6. {es[i].node : i \in DOMAIN es} = S
  BY <1>1, <1>2, <1>3, <1>4 DEF Rng
<1>7. NamesIn(es) = {<<n, n>> : n \in S}
  BY <1>1, <1>2, <1>3, <1>4 DEF Rng, NamesIn
<1>8. Loaded(S) = es
  BY DEF Loaded, es, f
<1>9. QED
  BY <1>5, <1>6, <1>7, <1>8

LEMMA RestoredForm ==
  ASSUME IsSeq(draft)
  PROVE  IsEntries(Restored) /\ NamesIn(Restored) = {<<h, h>> : h \in Handles(draft)}
<1> DEFINE hs == SetToSeq(Handles(draft))
<1>1. IsFiniteSet(Handles(draft))
  <2> DEFINE g == [i \in DOMAIN draft |-> draft[i].handle]
  <2>1. Len(draft) \in Nat /\ DOMAIN draft = 1..Len(draft)
    BY SeqForm
  <2>2. g = [i \in 1..Len(draft) |-> g[i]]
    BY <2>1
  <2>3. Handles(draft) = {g[i] : i \in DOMAIN g}
    BY DEF Handles
  <2> HIDE DEF g
  <2>4. IsFiniteSet(Rng(g))
    BY <2>1, <2>2, FunctionIsSeq, ImageFinite
  <2>5. QED
    BY <2>3, <2>4 DEF Rng
<1>2. IsSeq(hs) /\ Rng(hs) = Handles(draft)
  BY <1>1, SetToSeqForm
<1> DEFINE Of(h) == draft[Max({i \in DOMAIN draft : draft[i].handle = h})].node
           Clean(n) == [n EXCEPT !.refs = @ \ (pkg \ Handles(draft))]
           File(h) == IF h \in pkg THEN h ELSE None
           es == [i \in DOMAIN hs |-> [id |-> hs[i], handle |-> hs[i], node |-> Clean(Of(hs[i])),
                                       file |-> File(hs[i])]]
<1>3. Restored = es
  BY DEF Restored
<1> HIDE DEF hs, Of, Clean, File
<1>4. Len(hs) \in Nat /\ DOMAIN hs = 1..Len(hs)
  BY <1>2, SeqForm
<1>5. \A i \in 1..Len(hs) : /\ es[i] = [id |-> es[i].id, handle |-> es[i].handle,
                                         node |-> es[i].node, file |-> es[i].file]
                            /\ es[i].id = hs[i] /\ es[i].handle = hs[i]
  BY <1>4
<1>6. es = [i \in 1..Len(hs) |-> es[i]]
  BY <1>4
<1> HIDE DEF es
<1>7. DOMAIN es = 1..Len(hs)
  BY <1>6
<1>8. NamesIn(es) = {<<h, h>> : h \in Handles(draft)}
  BY <1>2, <1>4, <1>5, <1>7 DEF NamesIn, Rng
<1>9. QED
  BY <1>3, <1>4, <1>5, <1>6, <1>8, EntriesFrom

--------------------------------------------------------------------------------
(* Editing, undo and redo *)

LEMMA StatesForm == States = Rng(undo) \cup Rng(redo) \cup {before} \cup {Take}
BY DEF States, Snapshots, Rng

LEMMA IdleForm ==
  ASSUME save = Idle PROVE Base = pkg /\ Planned /\ Writing /\ Removing /\ Undoable
BY DEF Base, Planned, Writing, Removing, Undoable

\* What the author changed is a revision of its own, which no save knows.
LEMMA TouchKeeps ==
  ASSUME IInv, NEW es, IsEntries(es), Touch(es), drafts' \in 0..Len(Drafts)
  PROVE  IInv'
<1>1. /\ save = Idle /\ save' = Idle /\ doc' = es /\ rev' = nextRev /\ nextRev' = nextRev + 1
      /\ UNCHANGED <<pkg, other, inst, loaded, savedRev, undo, redo, before, draft, told>>
      /\ UNCHANGED <<saves, faults>> /\ edits' = edits + 1 /\ edits < MaxEdits
  BY DEF Touch, disk
<1>2. Snapshots' = Snapshots
  BY <1>1 DEF Snapshots
<1>3. States' = Snapshots \cup {Take'} /\ Take'.rev = nextRev /\ Take'.entries = es
  BY <1>1, <1>2 DEF States, Take
<1>4. nextRev \in Nat /\ savedRev \in 1..(nextRev - 1) /\ \A s \in Snapshots : s.rev \in 1..(nextRev - 1)
  BY DEF IInv, Typed, States
<1>5. Typed'
  <2>1. \A s \in States' : s.rev \in 1..(nextRev' - 1)
    BY <1>1, <1>3, <1>4
  <2>2. nextRev' \in Nat /\ savedRev' \in 1..(nextRev' - 1)
    BY <1>1, <1>4
  <2>3. edits' \in 0..MaxEdits
    <3>1. edits \in 0..MaxEdits
      BY DEF IInv, Typed
    <3>2. MaxEdits \in Nat
      BY DocumentAssumption
    <3>3. QED
      BY <1>1, <3>1, <3>2
  <2>4. QED
    BY <1>1, <1>2, <2>1, <2>2, <2>3 DEF IInv, Typed
<1>6. \A s \in Snapshots : s.rev # nextRev /\ s \in States
  BY <1>4 DEF States
<1>7. OneRevision'
  BY <1>3, <1>6 DEF IInv, OneRevision
<1>8. Base = pkg /\ Base' = pkg /\ savedRev # nextRev
  BY <1>1, <1>4, IdleForm DEF Base
<1>9. SavedKept'
  BY <1>1, <1>3, <1>6, <1>8 DEF IInv, SavedKept
<1>10. QED
  BY <1>1, <1>5, <1>7, <1>9 DEF IInv, Planned, Writing, Removing, Undoable

\* An entry with another node is an entry, and so is a document with one changed.
LEMMA NodeReplaced ==
  ASSUME NEW e, e = [id |-> e.id, handle |-> e.handle, node |-> e.node, file |-> e.file], NEW n
  PROVE  LET x == [e EXCEPT !.node = n]
         IN  x = [id |-> x.id, handle |-> x.handle, node |-> x.node, file |-> x.file]
<1> DEFINE a == e.id
           b == e.handle
           d == e.file
           x == [e EXCEPT !.node = n]
<1>1. x = [id |-> a, handle |-> b, node |-> n, file |-> d]
  OBVIOUS
<1> HIDE DEF a, b, d, x
<1>2. x = [id |-> x.id, handle |-> x.handle, node |-> x.node, file |-> x.file]
  BY <1>1
<1>3. QED
  BY <1>2 DEF x

LEMMA EntryReplaced ==
  ASSUME NEW es, IsEntries(es), NEW i \in DOMAIN es, NEW e,
         e = [id |-> e.id, handle |-> e.handle, node |-> e.node, file |-> e.file]
  PROVE  IsEntries([es EXCEPT ![i] = e])
<1> DEFINE f == [es EXCEPT ![i] = e]
<1>1. Len(es) \in Nat /\ DOMAIN es = 1..Len(es)
      /\ \A k \in 1..Len(es) : es[k] = [id |-> es[k].id, handle |-> es[k].handle,
                                        node |-> es[k].node, file |-> es[k].file]
  BY EntriesForm
<1>2. DOMAIN f = DOMAIN es /\ f = [k \in DOMAIN es |-> f[k]]
      /\ \A k \in DOMAIN es : f[k] = IF k = i THEN e ELSE es[k]
  OBVIOUS
<1> HIDE DEF f
<1>3. f = [k \in 1..Len(es) |-> f[k]]
  BY <1>1, <1>2
<1>4. \A k \in 1..Len(es) : f[k] = [id |-> f[k].id, handle |-> f[k].handle, node |-> f[k].node,
                                    file |-> f[k].file]
  BY <1>1, <1>2
<1>5. IsEntries(f)
  BY <1>1, <1>3, <1>4, EntriesFrom
<1>6. QED
  BY <1>5 DEF f

LEMMA ReplaceKeeps == IInv /\ Replace => IInv'
<1> SUFFICES ASSUME IInv, Replace PROVE IInv'
  OBVIOUS
<1>0. PICK i \in DOMAIN doc : \E n : Touch([doc EXCEPT ![i].node = n])
  BY DEF Replace
<1>1. PICK n : Touch([doc EXCEPT ![i].node = n])
  BY <1>0
<1>2. IsEntries(doc) /\ drafts \in 0..Len(Drafts) /\ drafts' = drafts
  BY DEF IInv, Typed, Replace
<1> DEFINE e == [doc[i] EXCEPT !.node = n]
<1>3. e = [id |-> e.id, handle |-> e.handle, node |-> e.node, file |-> e.file]
  BY <1>2, NodeReplaced DEF IsEntries
<1>4. [doc EXCEPT ![i].node = n] = [doc EXCEPT ![i] = e]
  OBVIOUS
<1> HIDE DEF e
<1>5. IsEntries([doc EXCEPT ![i] = e])
  BY <1>2, <1>3, EntryReplaced
<1>6. QED
  BY <1>1, <1>2, <1>4, <1>5, TouchKeeps

LEMMA AddKeeps == IInv /\ Add => IInv'
<1> SUFFICES ASSUME IInv, Add PROVE IInv'
  OBVIOUS
<1>1. IsEntries(doc) /\ drafts' \in 0..Len(Drafts)
  BY DocumentAssumption DEF IInv, Typed, Add
<1>2. PICK c \in Contents :
        Touch(Append(doc, [id |-> Drafts[drafts'], handle |-> Drafts[drafts'],
                           node |-> [c |-> c, refs |-> {}], file |-> None]))
  BY DEF Add
<1> DEFINE e == [id |-> Drafts[drafts'], handle |-> Drafts[drafts'],
                 node |-> [c |-> c, refs |-> {}], file |-> None]
<1>3. e = [id |-> e.id, handle |-> e.handle, node |-> e.node, file |-> e.file]
  OBVIOUS
<1>4. Touch(Append(doc, e))
  BY <1>2
<1> HIDE DEF e
<1>5. IsEntries(Append(doc, e))
  BY <1>1, <1>3, AppendEntries
<1>6. QED
  BY <1>1, <1>4, <1>5, TouchKeeps

LEMMA RemoveNodeKeeps == IInv /\ RemoveNode => IInv'
<1> SUFFICES ASSUME IInv, RemoveNode PROVE IInv'
  OBVIOUS
<1>1. IsEntries(doc) /\ drafts' \in 0..Len(Drafts)
  BY DEF IInv, Typed, RemoveNode
<1>2. PICK i \in DOMAIN doc : Touch(Without(doc, i))
  BY DEF RemoveNode
<1>3. QED
  BY <1>1, <1>2, WithoutEntries, TouchKeeps

LEMMA LinkKeeps == IInv /\ Link => IInv'
<1> SUFFICES ASSUME IInv, Link PROVE IInv'
  OBVIOUS
<1>1. PICK i \in DOMAIN doc, h \in Handles(doc) \cup other : Touch([doc EXCEPT ![i].node.refs = @ \cup {h}])
  BY DEF Link
<1>2. IsEntries(doc) /\ drafts \in 0..Len(Drafts) /\ drafts' = drafts
  BY DEF IInv, Typed, Link
<1> DEFINE n == [doc[i].node EXCEPT !.refs = @ \cup {h}]
           e == [doc[i] EXCEPT !.node = n]
<1>3. [doc EXCEPT ![i].node.refs = @ \cup {h}] = [doc EXCEPT ![i] = e]
  OBVIOUS
<1> HIDE DEF n
<1>4. e = [id |-> e.id, handle |-> e.handle, node |-> e.node, file |-> e.file]
  BY <1>2, NodeReplaced DEF IsEntries
<1> HIDE DEF e
<1>5. IsEntries([doc EXCEPT ![i] = e])
  BY <1>2, <1>4, EntryReplaced
<1>6. QED
  BY <1>1, <1>2, <1>3, <1>5, TouchKeeps

\* A merge puts other nodes into the entries, and then one entry goes.
LEMMA MergedForm ==
  ASSUME IInv, MergeInto
  PROVE  \E from \in DOMAIN doc : \E merged :
           /\ DOMAIN merged = DOMAIN doc
           /\ \A k \in DOMAIN doc : \E n : merged[k] = [doc[k] EXCEPT !.node = n]
           /\ IsEntries(merged) /\ Touch(Without(merged, from))
<1>1. IsEntries(doc)
  BY DEF IInv, Typed
<1>0. PICK from \in DOMAIN doc, into \in DOMAIN doc : \E A, B :
        Touch(Without([k \in DOMAIN doc |->
                         IF k = into THEN [doc[k] EXCEPT !.node = A[k]]
                         ELSE [doc[k] EXCEPT !.node = B[k]]], from))
  <2>1. PICK from \in DOMAIN doc, into \in DOMAIN doc, c \in Contents :
       LET hf == doc[from].handle
           hi == doc[into].handle
           src == [doc EXCEPT ![from].node.refs = @ \ {hi}]
           Rewired(refs) == IF hf \in refs THEN (refs \ {hf}) \cup {hi} ELSE refs
           merged == [k \in DOMAIN doc |->
             IF k = into
             THEN [doc[k] EXCEPT !.node = [c |-> c, refs |-> @.refs \cup (src[from].node.refs \ {hf})]]
             ELSE [doc[k] EXCEPT !.node.refs = Rewired(@)]]
       IN Touch(Without(merged, from))
    BY DEF MergeInto
  <2> DEFINE hf == doc[from].handle
             hi == doc[into].handle
             src == [doc EXCEPT ![from].node.refs = @ \ {hi}]
             Rewired(refs) == IF hf \in refs THEN (refs \ {hf}) \cup {hi} ELSE refs
             A == [k \in DOMAIN doc |-> [c |-> c, refs |-> doc[k].node.refs \cup (src[from].node.refs \ {hf})]]
             B == [k \in DOMAIN doc |-> [doc[k].node EXCEPT !.refs = Rewired(@)]]
  <2>2. Touch(Without([k \in DOMAIN doc |->
                         IF k = into THEN [doc[k] EXCEPT !.node = A[k]]
                         ELSE [doc[k] EXCEPT !.node = B[k]]], from))
    BY <2>1
  <2> HIDE DEF A, B
  <2>3. QED
    BY <2>2
<1>2. PICK A, B :
        Touch(Without([k \in DOMAIN doc |->
                         IF k = into THEN [doc[k] EXCEPT !.node = A[k]]
                         ELSE [doc[k] EXCEPT !.node = B[k]]], from))
  BY <1>0
<1> DEFINE merged == [k \in DOMAIN doc |-> IF k = into THEN [doc[k] EXCEPT !.node = A[k]]
                                           ELSE [doc[k] EXCEPT !.node = B[k]]]
<1>3. Len(doc) \in Nat /\ DOMAIN doc = 1..Len(doc)
      /\ \A k \in 1..Len(doc) : doc[k] = [id |-> doc[k].id, handle |-> doc[k].handle,
                                          node |-> doc[k].node, file |-> doc[k].file]
  BY <1>1, EntriesForm
<1>4. \A k \in 1..Len(doc) :
        merged[k] = [id |-> merged[k].id, handle |-> merged[k].handle, node |-> merged[k].node,
                     file |-> merged[k].file]
  <2>1. TAKE k \in 1..Len(doc)
  <2> DEFINE x == [doc[k] EXCEPT !.node = A[k]]
             y == [doc[k] EXCEPT !.node = B[k]]
  <2>2. x = [id |-> x.id, handle |-> x.handle, node |-> x.node, file |-> x.file]
    BY <1>3, NodeReplaced
  <2>3. y = [id |-> y.id, handle |-> y.handle, node |-> y.node, file |-> y.file]
    BY <1>3, NodeReplaced
  <2>4. merged[k] = x \/ merged[k] = y
    BY <1>3
  <2> HIDE DEF merged, x, y
  <2>5. QED
    BY <2>2, <2>3, <2>4
<1>5. merged = [k \in 1..Len(doc) |-> merged[k]]
  BY <1>3
<1>6. Touch(Without(merged, from))
  BY <1>2
<1> HIDE DEF merged
<1>7. IsEntries(merged) /\ from \in DOMAIN merged
  BY <1>3, <1>4, <1>5, EntriesFrom
<1>8. \A k \in DOMAIN doc : \E n : merged[k] = [doc[k] EXCEPT !.node = n]
  BY DEF merged
<1>9. DOMAIN merged = DOMAIN doc
  BY DEF merged
<1>10. QED
  BY <1>6, <1>7, <1>8, <1>9

LEMMA MergeIntoKeeps == IInv /\ MergeInto => IInv'
<1> SUFFICES ASSUME IInv, MergeInto PROVE IInv'
  OBVIOUS
<1>1. PICK from \in DOMAIN doc : \E merged :
        DOMAIN merged = DOMAIN doc /\ IsEntries(merged) /\ Touch(Without(merged, from))
  BY MergedForm
<1>2. PICK merged : DOMAIN merged = DOMAIN doc /\ IsEntries(merged) /\ Touch(Without(merged, from))
  BY <1>1
<1>3. IsEntries(Without(merged, from))
  BY <1>2, WithoutEntries
<1>4. drafts' \in 0..Len(Drafts)
  BY DEF IInv, Typed, MergeInto
<1>5. QED
  BY <1>2, <1>3, <1>4, TouchKeeps

\* What only moves between the revisions there are keeps what is said of each.
LEMMA HistoryKeeps ==
  ASSUME IInv, States' \subseteq States, Base' = Base,
         UNCHANGED <<pkg, inst, loaded, savedRev, nextRev, draft, told, drafts, edits, faults>>,
         saves' \in 0..MaxSaves,
         IsSeq(undo'), IsSeq(redo'), Len(undo') + Len(redo') <= MaxUndo
  PROVE  Typed' /\ OneRevision' /\ SavedKept'
<1>1. \A s \in States : IsEntries(s.entries)
  BY DEF IInv, Typed, States, Take
<1>2. \A s \in Snapshots' \cup {Take'} :
        s \in States /\ s = [entries |-> s.entries, rev |-> s.rev] /\ IsEntries(s.entries)
  BY <1>1 DEF IInv, Typed, States, Take
<1>3. Take'.entries = doc'
  BY DEF Take
<1>4. Typed'
  <2>1. IsEntries(doc')
    BY <1>2, <1>3
  <2>2. \A s \in Snapshots' : s = [entries |-> s.entries, rev |-> s.rev] /\ IsEntries(s.entries)
    BY <1>2
  <2>3. \A s \in States' : s.rev \in 1..(nextRev' - 1)
    BY DEF IInv, Typed
  <2>4. QED
    BY <2>1, <2>2, <2>3 DEF IInv, Typed
<1>5. OneRevision'
  BY DEF IInv, OneRevision
<1>6. SavedKept'
  BY DEF IInv, SavedKept
<1>7. QED
  BY <1>4, <1>5, <1>6 DEF IInv

LEMMA TravelKeeps ==
  ASSUME IInv, States' \subseteq States, save = Idle, save' = Idle,
         UNCHANGED <<pkg, inst, loaded, savedRev, nextRev, draft, told, drafts, edits, faults>>,
         saves' \in 0..MaxSaves,
         IsSeq(undo'), IsSeq(redo'), Len(undo') + Len(redo') <= MaxUndo
  PROVE  IInv'
<1>1. Base' = Base
  BY DEF Base
<1>2. Typed' /\ OneRevision' /\ SavedKept'
  BY <1>1, HistoryKeeps
<1>3. QED
  BY <1>2 DEF IInv, Planned, Writing, Removing, Undoable

\* Of the steps to undo the oldest goes when there are too many.
LEMMA StepsForm ==
  ASSUME IInv
  PROVE  /\ IsSeq(Steps) /\ Rng(Steps) \subseteq Rng(undo) \cup {before} /\ Len(Steps) \in Nat
         /\ IsSeq(Redone) /\ Rng(Redone) \subseteq Rng(redo) /\ Len(Redone) \in Nat
         /\ Len(Steps) + Len(Redone) <= MaxUndo
<1>1. IsSeq(undo) /\ IsSeq(redo) /\ Len(undo) + Len(redo) <= MaxUndo
      /\ Len(undo) \in Nat /\ Len(redo) \in Nat
  BY SeqForm DEF IInv, Typed
<1>2. IsSeq(Committed) /\ Rng(Committed) \subseteq Rng(undo) \cup {before}
      /\ Len(Committed) <= MaxUndo + 1 /\ Len(Committed) \in Nat
  <2>1. CASE changed
    BY <1>1, <2>1, AppendForm, DocumentAssumption DEF Committed
  <2>2. CASE ~changed
    BY <1>1, <2>2, DocumentAssumption DEF Committed
  <2>3. QED
    BY <2>1, <2>2
<1>3. IsSeq(Steps) /\ Len(Steps) <= MaxUndo /\ Rng(Steps) \subseteq Rng(undo) \cup {before}
  <2>1. CASE Len(Committed) > MaxUndo
    <3>1. Committed # <<>>
      BY <2>1, EmptyForm, DocumentAssumption
    <3>2. Steps = Tail(Committed)
      BY <2>1 DEF Steps, Capped
    <3>3. QED
      BY <1>2, <3>1, <3>2, PartOfSeq, DocumentAssumption
  <2>2. CASE ~(Len(Committed) > MaxUndo)
    BY <1>2, <2>2, DocumentAssumption DEF Steps, Capped
  <2>3. QED
    BY <2>1, <2>2
<1>4. IsSeq(Redone) /\ Rng(Redone) \subseteq Rng(redo)
  BY <1>1, EmptyForm DEF Redone
<1>5. Len(Steps) + Len(Redone) <= MaxUndo
  <2>1. CASE changed
    <3>1. Redone = <<>>
      BY <2>1 DEF Redone
    <3>2. QED
      BY <1>3, <3>1, EmptyForm, SeqForm
  <2>2. CASE ~changed
    <3>1. Redone = redo /\ Committed = undo
      BY <2>2 DEF Redone, Committed
    <3>2. Steps = undo
      BY <1>1, <3>1, DocumentAssumption DEF Steps, Capped
    <3>3. QED
      BY <1>1, <3>1, <3>2
  <2>3. QED
    BY <2>1, <2>2
<1>6. Len(Steps) \in Nat /\ Len(Redone) \in Nat
  BY <1>3, <1>4, SeqForm
<1>7. QED
  BY <1>3, <1>4, <1>5, <1>6

LEMMA CommitKeeps == IInv /\ Commit => IInv' /\ States' \subseteq States
<1> SUFFICES ASSUME IInv, Commit PROVE IInv' /\ States' \subseteq States
  OBVIOUS
<1>1. /\ save = Idle /\ undo' = Steps /\ redo' = <<>> /\ before' = Take /\ Take' = Take
      /\ save' = Idle
      /\ UNCHANGED <<pkg, inst, loaded, savedRev, nextRev, draft, told, drafts, edits, faults>>
      /\ saves' \in 0..MaxSaves
  BY DEF Commit, Take, disk, IInv, Typed
<1>2. IsSeq(undo') /\ Len(undo') <= MaxUndo /\ Rng(undo') \subseteq Rng(undo) \cup {before}
      /\ Len(undo') \in Nat
  BY <1>1, StepsForm, DocumentAssumption
<1>3. IsSeq(redo') /\ Rng(redo') = {} /\ Len(redo') = 0
  BY <1>1, EmptyForm
<1>4. States' = Rng(undo') \cup Rng(redo') \cup {before'} \cup {Take'}
  BY StatesForm DEF States, Snapshots, Rng
<1>5. States' \subseteq States
  BY <1>1, <1>2, <1>3, <1>4, StatesForm
<1>6. Len(undo') + Len(redo') <= MaxUndo
  BY <1>2, <1>3, DocumentAssumption
<1>7. QED
  BY <1>1, <1>2, <1>3, <1>5, <1>6, TravelKeeps

LEMMA UndoKeeps == IInv /\ Undo => IInv' /\ States' \subseteq States
<1> SUFFICES ASSUME IInv, Undo PROVE IInv' /\ States' \subseteq States
  OBVIOUS
<1>1. /\ save = Idle /\ save' = Idle /\ Steps # <<>>
      /\ redo' = Append(Redone, Take) /\ undo' = Front(Steps) /\ before' = Last(Steps)
      /\ doc' = Last(Steps).entries /\ rev' = Last(Steps).rev
      /\ UNCHANGED <<pkg, inst, loaded, savedRev, nextRev, draft, told, drafts, edits, faults>>
      /\ saves' \in 0..MaxSaves
  BY DEF Undo, Travel, Restore, disk, IInv, Typed
<1>2. IsSeq(Steps) /\ Rng(Steps) \subseteq Rng(undo) \cup {before} /\ Len(Steps) \in Nat
      /\ IsSeq(Redone) /\ Rng(Redone) \subseteq Rng(redo) /\ Len(Redone) \in Nat
      /\ Len(Steps) + Len(Redone) <= MaxUndo
  BY StepsForm
<1>3. IsSeq(undo') /\ Rng(undo') \subseteq Rng(Steps) /\ Last(Steps) \in Rng(Steps)
      /\ Len(undo') = Len(Steps) - 1
  BY <1>1, <1>2, PartOfSeq
<1>4. IsSeq(redo') /\ Rng(redo') = Rng(Redone) \cup {Take} /\ Len(redo') = Len(Redone) + 1
  BY <1>1, <1>2, AppendForm
<1>5. Last(Steps) \in Snapshots
  BY <1>2, <1>3 DEF Snapshots, Rng
<1>6. Take' = Last(Steps)
  BY <1>1, <1>5 DEF IInv, Typed, Take
<1>7. States' = Rng(undo') \cup Rng(redo') \cup {before'} \cup {Take'}
  BY DEF States, Snapshots, Rng
<1>8. States' \subseteq States
  BY <1>1, <1>2, <1>3, <1>4, <1>6, <1>7, StatesForm
<1>9. Len(undo') + Len(redo') <= MaxUndo
  BY <1>2, <1>3, <1>4, DocumentAssumption
<1>10. QED
  BY <1>1, <1>3, <1>4, <1>8, <1>9, TravelKeeps

LEMMA RedoKeeps == IInv /\ Redo => IInv' /\ States' \subseteq States
<1> SUFFICES ASSUME IInv, Redo PROVE IInv' /\ States' \subseteq States
  OBVIOUS
<1>1. /\ save = Idle /\ save' = Idle /\ Redone # <<>>
      /\ undo' = Append(Steps, Take) /\ redo' = Front(Redone) /\ before' = Last(Redone)
      /\ doc' = Last(Redone).entries /\ rev' = Last(Redone).rev
      /\ UNCHANGED <<pkg, inst, loaded, savedRev, nextRev, draft, told, drafts, edits, faults>>
      /\ saves' \in 0..MaxSaves
  BY DEF Redo, Travel, Restore, disk, IInv, Typed
<1>2. IsSeq(Steps) /\ Rng(Steps) \subseteq Rng(undo) \cup {before} /\ Len(Steps) \in Nat
      /\ IsSeq(Redone) /\ Rng(Redone) \subseteq Rng(redo) /\ Len(Redone) \in Nat
      /\ Len(Steps) + Len(Redone) <= MaxUndo
  BY StepsForm
<1>3. IsSeq(redo') /\ Rng(redo') \subseteq Rng(Redone) /\ Last(Redone) \in Rng(Redone)
      /\ Len(redo') = Len(Redone) - 1
  BY <1>1, <1>2, PartOfSeq
<1>4. IsSeq(undo') /\ Rng(undo') = Rng(Steps) \cup {Take} /\ Len(undo') = Len(Steps) + 1
  BY <1>1, <1>2, AppendForm
<1>5. Last(Redone) \in Snapshots
  BY <1>2, <1>3 DEF Snapshots, Rng
<1>6. Take' = Last(Redone)
  BY <1>1, <1>5 DEF IInv, Typed, Take
<1>7. States' = Rng(undo') \cup Rng(redo') \cup {before'} \cup {Take'}
  BY DEF States, Snapshots, Rng
<1>8. States' \subseteq States
  BY <1>1, <1>2, <1>3, <1>4, <1>6, <1>7, StatesForm
<1>9. Len(undo') + Len(redo') <= MaxUndo
  BY <1>2, <1>3, <1>4, DocumentAssumption
<1>10. QED
  BY <1>1, <1>3, <1>4, <1>8, <1>9, TravelKeeps

--------------------------------------------------------------------------------
(* The save: the plan *)

\* What is written is named with where it goes.
LEMMA KindsApart ==
  ASSUME NEW A, NEW B, NEW C
  PROVE  LET ws == {<<"other", n>> : n \in A} \cup {<<"pkg", n>> : n \in B} \cup {<<"inst", k>> : k \in C}
         IN  /\ PkgOf(ws) = B /\ OtherOf(ws) = A
             /\ \A w \in ws : w = <<w[1], w[2]>> /\ w[1] \in {"pkg", "other", "inst"}
<1> DEFINE ws == {<<"other", n>> : n \in A} \cup {<<"pkg", n>> : n \in B} \cup {<<"inst", k>> : k \in C}
<1>1. \A w \in ws : w = <<w[1], w[2]>> /\ w[1] \in {"pkg", "other", "inst"}
  OBVIOUS
<1>2. \A w \in ws : /\ w[1] = "pkg" => w[2] \in B
                    /\ w[1] = "other" => w[2] \in A
  OBVIOUS
<1>3. \A n \in B : <<"pkg", n>> \in ws
  OBVIOUS
<1>4. \A n \in A : <<"other", n>> \in ws
  OBVIOUS
<1> HIDE DEF ws
<1>5. \A x : <<"pkg", x>>[1] = "pkg" /\ <<"pkg", x>>[2] = x /\ <<"other", x>>[1] = "other"
             /\ <<"other", x>>[2] = x
  OBVIOUS
<1>6. PkgOf(ws) = B
  <2>1. ASSUME NEW n \in B PROVE n \in PkgOf(ws)
    <3> DEFINE v == <<"pkg", n>>
    <3>1. v \in ws /\ v[1] = "pkg" /\ v[2] = n
      BY <1>3, <1>5
    <3> HIDE DEF v
    <3>2. QED
      BY <3>1 DEF PkgOf
  <2>2. PkgOf(ws) \subseteq B
    BY <1>2 DEF PkgOf
  <2>3. QED
    BY <2>1, <2>2
<1>7. OtherOf(ws) = A
  <2>1. ASSUME NEW n \in A PROVE n \in OtherOf(ws)
    <3> DEFINE v == <<"other", n>>
    <3>1. v \in ws /\ v[1] = "other" /\ v[2] = n
      BY <1>4, <1>5
    <3> HIDE DEF v
    <3>2. QED
      BY <3>1 DEF OtherOf
  <2>2. OtherOf(ws) \subseteq A
    BY <1>2 DEF OtherOf
  <2>3. QED
    BY <2>1, <2>2
<1>8. QED
  BY <1>1, <1>6, <1>7 DEF ws

\* What a plan says of the files, whichever names it gives.
LEMMA PlanForm ==
  ASSUME NEW lib
  PROVE  LET p == Plan(lib)
             claimed == {p.cids[i] : i \in DOMAIN p.cids}
         IN  /\ p = [pc |-> p.pc, map |-> p.map, cids |-> p.cids, kept |-> p.kept, was |-> p.was,
                     done |-> p.done, stuck |-> p.stuck, todo |-> p.todo, gone |-> p.gone]
             /\ p.pc = "write" /\ p.done = {} /\ p.stuck = FALSE /\ p.was = <<pkg, other, inst>>
             /\ p.cids = [i \in DOMAIN doc |-> Remap(doc[i].node, p.map)]
             /\ PkgOf(p.todo) = claimed \ pkg /\ OtherOf(p.todo) \cap other = {}
             /\ \A w \in p.todo : w = <<w[1], w[2]>> /\ w[1] \in {"pkg", "other", "inst"}
             /\ loaded \subseteq claimed \cup p.kept \cup PkgOf(p.gone)
             /\ PkgOf(p.gone) \cap claimed = {}
<1> DEFINE names == NewNames(Handles(doc), lib)
           M == [h \in {x \in DOMAIN names : names[x] # x} |-> names[h]]
           cids == [i \in DOMAIN doc |-> Remap(doc[i].node, M)]
           claimed == {cids[i] : i \in DOMAIN doc}
           replaced == {doc[i].file : i \in {k \in DOMAIN doc : doc[k].file \notin {None, cids[k]}}}
           kept == KeepsOnDisk(M, loaded \ claimed, replaced)
           moved == lib \cap DOMAIN M
           landed == {M[n] : n \in moved}
           was == <<pkg, other, inst>>
           todo == {<<"other", n>> : n \in landed \ other} \cup {<<"pkg", n>> : n \in claimed \ pkg}
               \cup {<<"inst", k>> : k \in {x \in DOMAIN inst : inst[x] \in DOMAIN M}}
           gone == {<<"other", n>> : n \in moved \ landed}
               \cup {<<"pkg", f>> : f \in (replaced \cup (loaded \ kept)) \ claimed}
           p == [pc |-> "write", map |-> M, cids |-> cids, kept |-> kept, was |-> was, done |-> {},
                 stuck |-> FALSE, todo |-> todo, gone |-> gone]
<1>1. Plan(lib) = p
  BY DEF Plan, disk
<1>2. kept \subseteq loaded
  BY DEF KeepsOnDisk
<1>3. PkgOf(todo) = claimed \ pkg /\ OtherOf(todo) = landed \ other
      /\ \A w \in todo : w = <<w[1], w[2]>> /\ w[1] \in {"pkg", "other", "inst"}
  <2> HIDE DEF claimed, landed, M
  <2>1. QED
    BY KindsApart
<1>4. PkgOf(gone) = (replaced \cup (loaded \ kept)) \ claimed
  <2> HIDE DEF claimed, landed, moved, M, replaced, kept
  <2> DEFINE ws == gone \cup {<<"inst", k>> : k \in {}}
  <2>1. PkgOf(ws) = (replaced \cup (loaded \ kept)) \ claimed
    BY KindsApart
  <2>2. ws = gone
    OBVIOUS
  <2>3. QED
    BY <2>1, <2>2
<1>5. claimed = {cids[i] : i \in DOMAIN cids}
  OBVIOUS
<1>6. cids = [i \in DOMAIN doc |-> Remap(doc[i].node, M)]
  OBVIOUS
<1> HIDE DEF todo, gone, kept, claimed, was, cids, M
<1>7. /\ p.pc = "write" /\ p.map = M /\ p.cids = cids /\ p.kept = kept /\ p.was = was /\ p.done = {}
      /\ p.stuck = FALSE /\ p.todo = todo /\ p.gone = gone
  OBVIOUS
<1>8. p = [pc |-> p.pc, map |-> p.map, cids |-> p.cids, kept |-> p.kept, was |-> p.was,
           done |-> p.done, stuck |-> p.stuck, todo |-> p.todo, gone |-> p.gone]
  BY <1>7
<1> HIDE DEF p
<1>9. QED
  BY <1>1, <1>2, <1>3, <1>4, <1>5, <1>6, <1>7, <1>8 DEF was

LEMMA SaveBeginsKeeps == IInv /\ SaveBegins => IInv' /\ States' \subseteq States
<1> SUFFICES ASSUME IInv, SaveBegins PROVE IInv' /\ States' \subseteq States
  OBVIOUS
<1>1. /\ save = Idle /\ undo' = Steps /\ redo' = Redone /\ before' = Take /\ Take' = Take
      /\ UNCHANGED <<pkg, other, inst, doc, loaded, savedRev, nextRev, draft, told, drafts, edits, faults>>
      /\ saves' \in 0..MaxSaves
  BY DocumentAssumption DEF SaveBegins, Take, disk, IInv, Typed
<1>2. IsSeq(undo') /\ IsSeq(redo') /\ Len(undo') + Len(redo') <= MaxUndo
      /\ Rng(undo') \subseteq Rng(undo) \cup {before} /\ Rng(redo') \subseteq Rng(redo)
  BY <1>1, StepsForm
<1>3. States' = Rng(undo') \cup Rng(redo') \cup {before'} \cup {Take'}
  BY DEF States, Snapshots, Rng
<1>4. States' \subseteq States
  BY <1>1, <1>2, <1>3, StatesForm
<1>5. CASE save' = Idle
  BY <1>1, <1>2, <1>4, <1>5, TravelKeeps
<1>6. CASE save' = Plan(Pending(Handles(doc))) /\ save' # Idle
  <2> DEFINE p == Plan(Pending(Handles(doc)))
             claimed == {p.cids[i] : i \in DOMAIN p.cids}
  <2>1. /\ p = [pc |-> p.pc, map |-> p.map, cids |-> p.cids, kept |-> p.kept, was |-> p.was,
                done |-> p.done, stuck |-> p.stuck, todo |-> p.todo, gone |-> p.gone]
        /\ p.pc = "write" /\ p.done = {} /\ p.stuck = FALSE /\ p.was = <<pkg, other, inst>>
        /\ p.cids = [i \in DOMAIN doc |-> Remap(doc[i].node, p.map)]
        /\ PkgOf(p.todo) = claimed \ pkg /\ OtherOf(p.todo) \cap other = {}
        /\ \A w \in p.todo : w = <<w[1], w[2]>> /\ w[1] \in {"pkg", "other", "inst"}
        /\ loaded \subseteq claimed \cup p.kept \cup PkgOf(p.gone)
        /\ PkgOf(p.gone) \cap claimed = {}
    BY PlanForm
  <2> HIDE DEF p
  <2>2. save' = p
    BY <1>6 DEF p
  <2>3. p.was[1] = pkg /\ p.was[2] = other /\ p.was[3] = inst
    BY <2>1
  <2>4. Base = pkg /\ Base' = pkg
    BY <1>1, <1>6, <2>2, <2>3 DEF Base
  <2>5. Typed' /\ OneRevision' /\ SavedKept'
    BY <1>1, <1>2, <1>4, <2>4, HistoryKeeps
  <2>6. Claimed' = claimed
    BY <2>2 DEF Claimed
  <2>7. PkgOf(p.todo \cup p.done) = PkgOf(p.todo) /\ OtherOf(p.todo \cup p.done) = OtherOf(p.todo)
        /\ PkgOf(p.done) = {} /\ OtherOf(p.done) = {}
    BY <2>1 DEF PkgOf, OtherOf
  <2> HIDE DEF claimed
  <2>8. Planned'
    BY <1>1, <2>1, <2>2, <2>6, <2>7 DEF Planned
  <2>9. pkg \subseteq loaded \cup told
    BY <2>4 DEF IInv, SavedKept
  <2>10. Writing'
    BY <1>1, <2>1, <2>2, <2>3, <2>6, <2>7, <2>9 DEF Writing
  <2>11. Removing'
    BY <2>1, <2>2 DEF Removing
  <2>12. inst = [k \in DOMAIN inst |-> inst[k]]
    BY DEF IInv, Typed
  <2>13. Undoable'
    BY <1>1, <2>1, <2>2, <2>3, <2>7, <2>12 DEF Undoable
  <2>14. QED
    BY <1>4, <2>5, <2>8, <2>10, <2>11, <2>13 DEF IInv
<1>7. QED
  BY <1>1, <1>4, <1>5, <1>6 DEF SaveBegins

--------------------------------------------------------------------------------
(* The save: the disk *)

LEMMA PairsMore ==
  ASSUME NEW ws, NEW w
  PROVE  /\ w[1] = "pkg" => PkgOf(ws \cup {w}) = PkgOf(ws) \cup {w[2]}
         /\ w[1] # "pkg" => PkgOf(ws \cup {w}) = PkgOf(ws)
         /\ w[1] = "other" => OtherOf(ws \cup {w}) = OtherOf(ws) \cup {w[2]}
         /\ w[1] # "other" => OtherOf(ws \cup {w}) = OtherOf(ws)
BY DEF PkgOf, OtherOf

LEMMA PairsOf ==
  ASSUME NEW ws, NEW w \in ws
  PROVE  /\ w[1] = "pkg" => w[2] \in PkgOf(ws)
         /\ w[1] = "other" => w[2] \in OtherOf(ws)
BY DEF PkgOf, OtherOf

\* With the pair goes what it names, and nothing else.
LEMMA PairsLess ==
  ASSUME NEW ws, NEW w \in ws, \A v \in ws : v = <<v[1], v[2]>>
  PROVE  /\ w[1] = "pkg" => PkgOf(ws \ {w}) = PkgOf(ws) \ {w[2]}
         /\ w[1] # "pkg" => PkgOf(ws \ {w}) = PkgOf(ws)
         /\ w[1] = "other" => OtherOf(ws \ {w}) = OtherOf(ws) \ {w[2]}
         /\ w[1] # "other" => OtherOf(ws \ {w}) = OtherOf(ws)
<1>1. \A v \in ws : v[1] = w[1] /\ v[2] = w[2] => v = w
  <2>1. SUFFICES ASSUME NEW v \in ws, v[1] = w[1], v[2] = w[2] PROVE v = w
    OBVIOUS
  <2>2. v = <<v[1], v[2]>> /\ w = <<w[1], w[2]>>
    OBVIOUS
  <2>3. QED
    BY <2>1, <2>2, Zenon
<1>2. ASSUME w[1] = "pkg" PROVE PkgOf(ws \ {w}) = PkgOf(ws) \ {w[2]}
  BY <1>1, <1>2 DEF PkgOf
<1>3. ASSUME w[1] # "pkg" PROVE PkgOf(ws \ {w}) = PkgOf(ws)
  BY <1>3 DEF PkgOf
<1>4. ASSUME w[1] = "other" PROVE OtherOf(ws \ {w}) = OtherOf(ws) \ {w[2]}
  BY <1>1, <1>4 DEF OtherOf
<1>5. ASSUME w[1] # "other" PROVE OtherOf(ws \ {w}) = OtherOf(ws)
  BY <1>5 DEF OtherOf
<1>6. QED
  BY <1>2, <1>3, <1>4, <1>5

\* While the disk is written the document, its history and its revisions stay.
LEMMA SaveStepKeeps ==
  ASSUME IInv, UNCHANGED <<session, draft, drafts, edits, saves>>, IsFiniteSet(pkg'),
         inst' = [k \in DOMAIN inst' |-> inst'[k]], faults' \in 0..MaxFaults,
         told \subseteq told'
  PROVE  /\ Typed' /\ OneRevision' /\ States' = States /\ loaded' = loaded /\ savedRev' = savedRev
         /\ Base' = Base => SavedKept'
<1>1. UNCHANGED <<doc, loaded, rev, savedRev, nextRev, undo, redo, before, changed>>
  BY DEF session, history
<1>2. Snapshots' = Snapshots /\ Take' = Take /\ States' = States
  BY <1>1 DEF Snapshots, Take, States
<1>3. Typed'
  BY <1>1, <1>2 DEF IInv, Typed
<1>4. OneRevision'
  BY <1>2 DEF IInv, OneRevision
<1>5. Base' = Base => SavedKept'
  BY <1>1, <1>2 DEF IInv, SavedKept
<1>6. QED
  BY <1>1, <1>2, <1>3, <1>4, <1>5

\* A save at work is a plan, whichever step it is at.
IsPlan(s) ==
  s = [pc |-> s.pc, map |-> s.map, cids |-> s.cids, kept |-> s.kept, was |-> s.was,
       done |-> s.done, stuck |-> s.stuck, todo |-> s.todo, gone |-> s.gone]

\* Its next step.
At(pc, todo, done, stuck, gone) ==
  [pc |-> pc, map |-> save.map, cids |-> save.cids, kept |-> save.kept, was |-> save.was,
   done |-> done, stuck |-> stuck, todo |-> todo, gone |-> gone]

\* What stays of a plan while its files are written.
LEMMA PlanStays ==
  ASSUME Planned, save # Idle, UNCHANGED session,
         NEW pc \in {"write", "back", "remove"}, NEW todo, NEW done, NEW stuck, NEW gone,
         save' = At(pc, todo, done, stuck, gone),
         todo \cup done \subseteq save.todo \cup save.done, gone \subseteq save.gone
  PROVE  /\ Planned' /\ Claimed' = Claimed /\ Base' = save.was[1] /\ Base = save.was[1]
         /\ save' # Idle /\ save'.pc = pc /\ save'.todo = todo /\ save'.done = done
         /\ save'.stuck = stuck /\ save'.gone = gone
         /\ save'.kept = save.kept /\ save'.was = save.was
<1> DEFINE a == save.map
           b == save.cids
           c == save.kept
           d == save.was
           t == [pc |-> pc, map |-> a, cids |-> b, kept |-> c, was |-> d, done |-> done,
                 stuck |-> stuck, todo |-> todo, gone |-> gone]
<1>1. save' = t
  BY DEF At
<1> HIDE DEF a, b, c, d
<1>2. /\ IsPlan(t) /\ t.pc = pc /\ t.todo = todo /\ t.done = done /\ t.stuck = stuck
      /\ t.gone = gone /\ t.map = a /\ t.cids = b /\ t.kept = c /\ t.was = d
  BY DEF IsPlan
<1> HIDE DEF t
<1>3. save' # Idle
  BY <1>1, <1>2 DEF Idle
<1>4. doc' = doc
  BY DEF session
<1>5. Claimed' = Claimed
  BY <1>1, <1>2 DEF Claimed, b
<1>6. PkgOf(todo \cup done) \subseteq PkgOf(save.todo \cup save.done) /\ PkgOf(gone) \subseteq PkgOf(save.gone)
  BY DEF PkgOf
<1>7. Planned'
  <2>1. save'.cids = [i \in DOMAIN doc' |-> Remap(doc'[i].node, save'.map)]
    BY <1>1, <1>2, <1>4 DEF Planned, a, b
  <2>2. IsPlan(save')
    BY <1>1, <1>2
  <2>3. QED
    BY <1>1, <1>2, <1>5, <1>6, <2>1, <2>2 DEF Planned, IsPlan
<1>8. Base' = save.was[1] /\ Base = save.was[1]
  BY <1>1, <1>2, <1>3 DEF Base, d
<1>9. QED
  BY <1>1, <1>2, <1>3, <1>5, <1>7, <1>8 DEF c, d

LEMMA AtWork ==
  ASSUME Planned, NEW pc \in {"write", "back", "remove"}, Saves(pc)
  PROVE  save # Idle /\ IsPlan(save) /\ UNCHANGED session
BY DEF Saves, Idle, Planned, IsPlan

LEMMA WriteKeeps == IInv /\ Write => IInv'
<1> SUFFICES ASSUME IInv, Write PROVE IInv'
  OBVIOUS
<1>1. Saves("write") /\ UNCHANGED <<told, cut, stale, warned, faults>>
  BY DEF Write
<1>2. PICK w \in save.todo : OnDisk(w) /\ save' = [save EXCEPT !.todo = @ \ {w}, !.done = @ \cup {w}]
  BY DEF Write
<1>3. save # Idle /\ IsPlan(save) /\ UNCHANGED session /\ save.pc = "write"
  BY <1>1, AtWork DEF IInv, Saves
<1> DEFINE todo == save.todo \ {w}
           done == save.done \cup {w}
<1>4. save' = At("write", todo, done, save.stuck, save.gone)
  BY <1>2, <1>3 DEF At, IsPlan
<1>5. todo \cup done = save.todo \cup save.done
  OBVIOUS
<1>6. /\ Planned' /\ Claimed' = Claimed /\ Base' = save.was[1] /\ Base = save.was[1]
      /\ save' # Idle /\ save'.pc = "write" /\ save'.todo = todo /\ save'.done = done
      /\ save'.stuck = save.stuck /\ save'.gone = save.gone
      /\ save'.kept = save.kept /\ save'.was = save.was
  BY <1>3, <1>4, <1>5, PlanStays DEF IInv
<1>7. (\A v \in save.todo : v = <<v[1], v[2]>>) /\ w = <<w[1], w[2]>> /\ w[1] \in {"pkg", "other", "inst"}
  BY <1>3 DEF IInv, Planned
<1>8. /\ w[1] = "pkg" => PkgOf(done) = PkgOf(save.done) \cup {w[2]}
                         /\ PkgOf(todo) = PkgOf(save.todo) \ {w[2]}
                         /\ w[2] \in PkgOf(save.todo)
      /\ w[1] # "pkg" => PkgOf(done) = PkgOf(save.done) /\ PkgOf(todo) = PkgOf(save.todo)
      /\ w[1] = "other" => /\ OtherOf(done) = OtherOf(save.done) \cup {w[2]}
                           /\ w[2] \in OtherOf(save.todo)
      /\ w[1] # "other" => OtherOf(done) = OtherOf(save.done)
  <2>1. /\ w[1] = "pkg" => PkgOf(done) = PkgOf(save.done) \cup {w[2]}
        /\ w[1] # "pkg" => PkgOf(done) = PkgOf(save.done)
        /\ w[1] = "other" => OtherOf(done) = OtherOf(save.done) \cup {w[2]}
        /\ w[1] # "other" => OtherOf(done) = OtherOf(save.done)
    BY PairsMore
  <2>2. /\ w[1] = "pkg" => PkgOf(todo) = PkgOf(save.todo) \ {w[2]}
        /\ w[1] # "pkg" => PkgOf(todo) = PkgOf(save.todo)
    BY <1>7, PairsLess
  <2>3. /\ w[1] = "pkg" => w[2] \in PkgOf(save.todo)
        /\ w[1] = "other" => w[2] \in OtherOf(save.todo)
    BY PairsOf
  <2> HIDE DEF todo, done
  <2>4. QED
    BY <2>1, <2>2, <2>3
<1>9. PkgOf(save.todo) \subseteq PkgOf(save.todo \cup save.done)
      /\ OtherOf(save.todo) \subseteq OtherOf(save.todo \cup save.done)
  BY DEF PkgOf, OtherOf
<1>10. /\ IsFiniteSet(pkg) /\ inst = [k \in DOMAIN inst |-> inst[k]] /\ faults \in 0..MaxFaults
  BY DEF IInv, Typed
<1>11. IsFiniteSet(pkg')
  BY <1>2, <1>10, FS_AddElement DEF OnDisk
<1>12. DOMAIN inst' = DOMAIN inst /\ inst' = [k \in DOMAIN inst' |-> inst'[k]]
       /\ \A k \in DOMAIN inst : inst'[k] = inst[k] \/ (w[1] = "inst" /\ k = w[2])
  BY <1>2, <1>10 DEF OnDisk
<1>13. Typed' /\ OneRevision' /\ SavedKept'
  BY <1>1, <1>6, <1>10, <1>11, <1>12, SaveStepKeeps DEF Saves
<1>14. /\ save.was[1] \subseteq pkg
       /\ pkg \subseteq save.was[1] \cup PkgOf(save.done) \cup told
       /\ PkgOf(save.todo \cup save.done) \cap save.was[1] = {}
       /\ PkgOf(save.todo) \cap pkg = {}
       /\ Claimed \subseteq pkg \cup PkgOf(save.todo)
       /\ save.was[1] \subseteq Claimed \cup save.kept \cup PkgOf(save.gone) \cup told
  BY <1>3 DEF IInv, Writing
<1>15. /\ save.was = <<save.was[1], save.was[2], save.was[3]>>
       /\ OtherOf(save.todo \cup save.done) \cap save.was[2] = {}
       /\ ~save.stuck => /\ pkg \ PkgOf(save.done) = save.was[1]
                         /\ other \ OtherOf(save.done) = save.was[2]
                         /\ save.was[3] = [k \in DOMAIN save.was[3] |-> save.was[3][k]]
                         /\ inst = [k \in DOMAIN save.was[3] |-> inst[k]]
                         /\ \A k \in DOMAIN inst : inst[k] = save.was[3][k] \/ <<"inst", k>> \in save.done
  BY <1>3 DEF IInv, Undoable
<1>16. /\ pkg' = IF w[1] = "pkg" THEN pkg \cup {w[2]} ELSE pkg
       /\ other' = IF w[1] = "other" THEN other \cup {w[2]} ELSE other
  BY <1>2 DEF OnDisk
<1> DEFINE both == save.todo \cup save.done
<1>17. todo \cup done = both
  OBVIOUS
<1>18. w \in done /\ save.done \subseteq done
  OBVIOUS
<1> HIDE DEF todo, done, both
<1>19. told' = told
  BY <1>1
<1>20. Writing'
  BY <1>6, <1>8, <1>9, <1>14, <1>16, <1>17, <1>19 DEF Writing, both
<1>21. Removing'
  BY <1>6 DEF Removing
<1>22. Undoable'
  <2>1. ~save.stuck => pkg' \ PkgOf(done) = save.was[1] /\ other' \ OtherOf(done) = save.was[2]
    <3>1. CASE w[1] = "pkg"
      BY <3>1, <1>8, <1>9, <1>14, <1>15, <1>16
    <3>2. CASE w[1] = "other"
      BY <3>2, <1>8, <1>9, <1>15, <1>16
    <3>3. CASE w[1] # "pkg" /\ w[1] # "other"
      BY <3>3, <1>8, <1>15, <1>16
    <3>4. QED
      BY <3>1, <3>2, <3>3
  <2>2. ~save.stuck => inst' = [k \in DOMAIN save.was[3] |-> inst'[k]]
    BY <1>12, <1>15
  <2>3. ~save.stuck => \A k \in DOMAIN inst' : inst'[k] = save.was[3][k] \/ <<"inst", k>> \in done
    BY <1>7, <1>12, <1>15, <1>18
  <2>4. OtherOf(todo \cup done) \cap save.was[2] = {}
    BY <1>15, <1>17 DEF both
  <2>5. QED
    BY <1>6, <1>15, <2>1, <2>2, <2>3, <2>4 DEF Undoable
<1>23. QED
  BY <1>6, <1>13, <1>20, <1>21, <1>22 DEF IInv

LEMMA WriteFailsKeeps == IInv /\ WriteFails => IInv'
<1> SUFFICES ASSUME IInv, WriteFails PROVE IInv'
  OBVIOUS
<1>1. Saves("write") /\ UNCHANGED <<pkg, other, inst, told>> /\ faults' \in 0..MaxFaults
  BY DocumentAssumption DEF WriteFails, Faulty, disk, IInv, Typed
<1>2. save # Idle /\ IsPlan(save) /\ UNCHANGED session /\ save.pc = "write"
  BY <1>1, AtWork DEF IInv, Saves
<1>3. save' = At("back", save.todo, save.done, save.stuck, save.gone)
  BY <1>2 DEF WriteFails, At, IsPlan
<1>4. /\ Planned' /\ Claimed' = Claimed /\ Base' = save.was[1] /\ Base = save.was[1]
      /\ save' # Idle /\ save'.pc = "back" /\ save'.todo = save.todo /\ save'.done = save.done
      /\ save'.stuck = save.stuck /\ save'.gone = save.gone
      /\ save'.kept = save.kept /\ save'.was = save.was
  BY <1>2, <1>3, PlanStays DEF IInv
<1>5. Typed' /\ OneRevision' /\ SavedKept'
  BY <1>1, <1>4, SaveStepKeeps DEF Saves, IInv, Typed
<1>6. Writing'
  BY <1>1, <1>2, <1>4 DEF IInv, Writing
<1>7. Removing'
  BY <1>4 DEF Removing
<1>8. Undoable'
  BY <1>1, <1>2, <1>4 DEF IInv, Undoable
<1>9. QED
  BY <1>4, <1>5, <1>6, <1>7, <1>8 DEF IInv

\* Only what the save wrote is undone, so what was there stays.
LEMMA WriteUndoneKeeps == IInv /\ WriteUndone => IInv'
<1> SUFFICES ASSUME IInv, WriteUndone PROVE IInv'
  OBVIOUS
<1>1. Saves("back")
  BY DEF WriteUndone
<1>2. PICK w \in save.done :
        \/ OffDisk(w) /\ save' = [save EXCEPT !.done = @ \ {w}] /\ UNCHANGED <<told, warned, faults>>
        \/ /\ warned' = TRUE /\ UNCHANGED faults /\ told' = told \cup {w[2]}
           /\ save' = [save EXCEPT !.done = @ \ {w}, !.stuck = TRUE] /\ UNCHANGED disk
  BY DEF WriteUndone
<1>3. save # Idle /\ IsPlan(save) /\ UNCHANGED session /\ save.pc = "back"
  BY <1>1, AtWork DEF IInv, Saves
<1> DEFINE done == save.done \ {w}
           both == save.todo \cup save.done
<1>4. save.todo \cup done \subseteq both
  OBVIOUS
<1>5. (\A v \in both : v = <<v[1], v[2]>>) /\ w = <<w[1], w[2]>> /\ w[1] \in {"pkg", "other", "inst"}
  BY <1>3 DEF IInv, Planned
<1>6. /\ w[1] = "pkg" => PkgOf(done) = PkgOf(save.done) \ {w[2]} /\ w[2] \in PkgOf(save.done)
      /\ w[1] # "pkg" => PkgOf(done) = PkgOf(save.done)
      /\ w[1] = "other" => OtherOf(done) = OtherOf(save.done) \ {w[2]} /\ w[2] \in OtherOf(save.done)
      /\ w[1] # "other" => OtherOf(done) = OtherOf(save.done)
  BY <1>5, PairsLess, PairsOf
<1>7. /\ PkgOf(save.done) \subseteq PkgOf(both) /\ OtherOf(save.done) \subseteq OtherOf(both)
      /\ PkgOf(save.todo \cup done) \subseteq PkgOf(both)
      /\ OtherOf(save.todo \cup done) \subseteq OtherOf(both)
  BY DEF PkgOf, OtherOf
<1>8. /\ IsFiniteSet(pkg) /\ inst = [k \in DOMAIN inst |-> inst[k]] /\ faults \in 0..MaxFaults
  BY DEF IInv, Typed
<1>9. /\ save.was[1] \subseteq pkg
      /\ pkg \subseteq save.was[1] \cup PkgOf(save.done) \cup told
      /\ PkgOf(both) \cap save.was[1] = {}
      /\ PkgOf(save.todo) \cap pkg = {}
      /\ save.was[1] \subseteq Claimed \cup save.kept \cup PkgOf(save.gone) \cup told
  BY <1>3 DEF IInv, Writing
<1>10. /\ save.was = <<save.was[1], save.was[2], save.was[3]>>
       /\ OtherOf(both) \cap save.was[2] = {}
       /\ ~save.stuck => /\ pkg \ PkgOf(save.done) = save.was[1]
                         /\ other \ OtherOf(save.done) = save.was[2]
                         /\ save.was[3] = [k \in DOMAIN save.was[3] |-> save.was[3][k]]
                         /\ inst = [k \in DOMAIN save.was[3] |-> inst[k]]
                         /\ \A k \in DOMAIN inst : inst[k] = save.was[3][k] \/ <<"inst", k>> \in save.done
  BY <1>3 DEF IInv, Undoable
<1>11. CASE OffDisk(w) /\ save' = [save EXCEPT !.done = @ \ {w}] /\ UNCHANGED <<told, warned, faults>>
  <2>1. save' = At("back", save.todo, done, save.stuck, save.gone)
    BY <1>3, <1>11 DEF At, IsPlan
  <2>2. /\ Planned' /\ Claimed' = Claimed /\ Base' = save.was[1] /\ Base = save.was[1]
        /\ save' # Idle /\ save'.pc = "back" /\ save'.todo = save.todo /\ save'.done = done
        /\ save'.stuck = save.stuck /\ save'.gone = save.gone
        /\ save'.kept = save.kept /\ save'.was = save.was
    BY <1>3, <1>4, <2>1, PlanStays DEF IInv
  <2>3. /\ pkg' = IF w[1] = "pkg" THEN pkg \ {w[2]} ELSE pkg
        /\ other' = IF w[1] = "other" THEN other \ {w[2]} ELSE other
        /\ inst' = IF w[1] = "inst" THEN [inst EXCEPT ![w[2]] = save.was[3][w[2]]] ELSE inst
        /\ told' = told /\ faults' = faults
    BY <1>11 DEF OffDisk
  <2>4. IsFiniteSet(pkg')
    BY <1>8, <2>3, FS_Subset
  <2>5. /\ DOMAIN inst' = DOMAIN inst /\ inst' = [k \in DOMAIN inst' |-> inst'[k]]
        /\ \A k \in DOMAIN inst : \/ inst'[k] = inst[k] /\ (w[1] # "inst" \/ k # w[2])
                                  \/ inst'[k] = save.was[3][k]
    BY <1>8, <2>3
  <2>6. Typed' /\ OneRevision' /\ SavedKept'
    BY <1>1, <1>8, <2>2, <2>3, <2>4, <2>5, SaveStepKeeps DEF Saves
  <2>7. \A k : (w[1] # "inst" \/ k # w[2]) /\ <<"inst", k>> \in save.done => <<"inst", k>> \in done
    BY <1>5
  <2> HIDE DEF done, both
  <2>8. Writing'
    BY <1>6, <1>7, <1>9, <2>2, <2>3 DEF Writing
  <2>9. Removing'
    BY <2>2 DEF Removing
  <2>10. Undoable'
    <3>1. ~save.stuck => pkg' \ PkgOf(done) = save.was[1] /\ other' \ OtherOf(done) = save.was[2]
      BY <1>6, <1>7, <1>9, <1>10, <2>3
    <3>2. ~save.stuck => inst' = [k \in DOMAIN save.was[3] |-> inst'[k]]
      BY <1>10, <2>5
    <3>3. ~save.stuck => \A k \in DOMAIN inst' : inst'[k] = save.was[3][k] \/ <<"inst", k>> \in done
      BY <1>10, <2>5, <2>7
    <3>4. OtherOf(save.todo \cup done) \cap save.was[2] = {}
      BY <1>7, <1>10
    <3>5. QED
      BY <1>10, <2>2, <3>1, <3>2, <3>3, <3>4 DEF Undoable
  <2>11. QED
    BY <2>2, <2>6, <2>8, <2>9, <2>10 DEF IInv
<1>12. CASE /\ UNCHANGED faults /\ told' = told \cup {w[2]} /\ UNCHANGED disk
            /\ save' = [save EXCEPT !.done = @ \ {w}, !.stuck = TRUE]
  <2>1. save' = At("back", save.todo, done, TRUE, save.gone)
    BY <1>3, <1>12 DEF At, IsPlan
  <2>2. /\ Planned' /\ Claimed' = Claimed /\ Base' = save.was[1] /\ Base = save.was[1]
        /\ save' # Idle /\ save'.pc = "back" /\ save'.todo = save.todo /\ save'.done = done
        /\ save'.stuck = TRUE /\ save'.gone = save.gone
        /\ save'.kept = save.kept /\ save'.was = save.was
    BY <1>3, <1>4, <2>1, PlanStays DEF IInv
  <2>3. pkg' = pkg /\ other' = other /\ inst' = inst /\ told' = told \cup {w[2]} /\ faults' = faults
    BY <1>12 DEF disk
  <2>4. Typed' /\ OneRevision' /\ SavedKept'
    BY <1>1, <1>8, <2>2, <2>3, SaveStepKeeps DEF Saves
  <2> HIDE DEF done, both
  <2>5. Writing'
    BY <1>6, <1>7, <1>9, <2>2, <2>3 DEF Writing
  <2>6. Removing' /\ Undoable'
    BY <1>7, <1>10, <2>2 DEF Removing, Undoable
  <2>7. QED
    BY <2>2, <2>4, <2>5, <2>6 DEF IInv
<1>13. QED
  BY <1>2, <1>11, <1>12

\* A save that failed leaves this package's files as they were, and those the author was told of.
LEMMA SaveFailedKeeps == IInv /\ SaveFailed => IInv'
<1> SUFFICES ASSUME IInv, SaveFailed PROVE IInv'
  OBVIOUS
<1>1. Saves("back") /\ save' = Idle /\ save.done = {} /\ UNCHANGED <<pkg, other, inst, told, faults>>
  BY DEF SaveFailed, disk
<1>2. save # Idle /\ save.pc = "back"
  BY <1>1, AtWork DEF IInv, Saves
<1>3. PkgOf(save.done) = {}
  BY <1>1 DEF PkgOf
<1>4. save.was[1] \subseteq pkg /\ pkg \subseteq save.was[1] \cup told
  BY <1>2, <1>3 DEF IInv, Writing
<1>5. Base = save.was[1] /\ Base' = pkg
  BY <1>1, <1>2 DEF Base
<1>6. Typed' /\ OneRevision' /\ States' = States /\ loaded' = loaded /\ savedRev' = savedRev
  BY <1>1, SaveStepKeeps DEF Saves, IInv, Typed
<1>7. SavedKept'
  BY <1>1, <1>4, <1>5, <1>6 DEF IInv, SavedKept
<1>8. QED
  BY <1>1, <1>6, <1>7 DEF IInv, Planned, Writing, Removing, Undoable

LEMMA WritesLandedKeeps == IInv /\ WritesLanded => IInv'
<1> SUFFICES ASSUME IInv, WritesLanded PROVE IInv'
  OBVIOUS
<1>1. Saves("write") /\ save.todo = {} /\ UNCHANGED <<pkg, other, inst, told, faults>>
  BY DEF WritesLanded, disk
<1>2. save # Idle /\ IsPlan(save) /\ UNCHANGED session /\ save.pc = "write"
  BY <1>1, AtWork DEF IInv, Saves
<1>3. save' = At("remove", save.todo, save.done, save.stuck, save.gone)
  BY <1>2 DEF WritesLanded, At, IsPlan
<1>4. /\ Planned' /\ Claimed' = Claimed /\ Base' = save.was[1] /\ Base = save.was[1]
      /\ save' # Idle /\ save'.pc = "remove" /\ save'.todo = save.todo /\ save'.done = save.done
      /\ save'.stuck = save.stuck /\ save'.gone = save.gone
      /\ save'.kept = save.kept /\ save'.was = save.was
  BY <1>2, <1>3, PlanStays DEF IInv
<1>5. Typed' /\ OneRevision' /\ SavedKept'
  BY <1>1, <1>4, SaveStepKeeps DEF Saves, IInv, Typed
<1>6. PkgOf(save.todo) = {} /\ PkgOf(save.done) \subseteq Claimed
  BY <1>1, <1>2 DEF IInv, Planned, PkgOf
<1>7. Claimed \subseteq pkg /\ pkg \subseteq Claimed \cup save.kept \cup PkgOf(save.gone) \cup told
  BY <1>2, <1>6 DEF IInv, Writing
<1>8. Removing'
  BY <1>1, <1>4, <1>7 DEF Removing
<1>9. Writing' /\ Undoable'
  BY <1>4 DEF Writing, Undoable
<1>10. QED
  BY <1>4, <1>5, <1>8, <1>9 DEF IInv

\* No file of the document as it is goes.
LEMMA GoneKeeps == IInv /\ Gone => IInv'
<1> SUFFICES ASSUME IInv, Gone PROVE IInv'
  OBVIOUS
<1>1. Saves("remove")
  BY DEF Gone
<1>2. PICK w \in save.gone :
        /\ save' = [save EXCEPT !.gone = @ \ {w}]
        /\ \/ OffDisk(w) /\ UNCHANGED <<told, faults>>
           \/ Faulty /\ told' = told \cup {w[2]} /\ UNCHANGED disk
  BY DEF Gone
<1>3. save # Idle /\ IsPlan(save) /\ UNCHANGED session /\ save.pc = "remove"
  BY <1>1, AtWork DEF IInv, Saves
<1> DEFINE gone == save.gone \ {w}
<1>4. save' = At("remove", save.todo, save.done, save.stuck, gone)
  BY <1>2, <1>3 DEF At, IsPlan
<1>5. /\ Planned' /\ Claimed' = Claimed /\ Base' = save.was[1] /\ Base = save.was[1]
      /\ save' # Idle /\ save'.pc = "remove" /\ save'.todo = save.todo /\ save'.gone = gone
      /\ save'.kept = save.kept
  <2>1. gone \subseteq save.gone
    OBVIOUS
  <2> HIDE DEF gone
  <2>2. QED
    BY <1>3, <1>4, <2>1, PlanStays DEF IInv
<1>6. PkgOf(save.gone) \subseteq PkgOf(gone) \cup {w[2]} /\ (w[1] # "pkg" => PkgOf(gone) = PkgOf(save.gone))
      /\ (w[1] = "pkg" => w[2] \in PkgOf(save.gone))
  BY DEF PkgOf
<1>7. /\ save.todo = {} /\ Claimed \subseteq pkg /\ PkgOf(save.gone) \cap Claimed = {}
      /\ pkg \subseteq Claimed \cup save.kept \cup PkgOf(save.gone) \cup told
  BY <1>3 DEF IInv, Removing, Planned
<1>8. /\ IsFiniteSet(pkg) /\ inst = [k \in DOMAIN inst |-> inst[k]] /\ faults \in 0..MaxFaults
  BY DEF IInv, Typed
<1>9. \/ /\ pkg' = IF w[1] = "pkg" THEN pkg \ {w[2]} ELSE pkg
         /\ inst' = [k \in DOMAIN inst' |-> inst'[k]] /\ told' = told
         /\ faults' \in 0..MaxFaults
      \/ pkg' = pkg /\ inst' = inst /\ told' = told \cup {w[2]} /\ faults' \in 0..MaxFaults
  BY <1>2, <1>8, DocumentAssumption DEF OffDisk, Faulty, disk
<1>10. /\ IsFiniteSet(pkg') /\ inst' = [k \in DOMAIN inst' |-> inst'[k]]
       /\ faults' \in 0..MaxFaults /\ told \subseteq told'
  BY <1>8, <1>9, FS_Subset
<1>11. Typed' /\ OneRevision' /\ SavedKept'
  BY <1>1, <1>5, <1>10, SaveStepKeeps DEF Saves
<1> HIDE DEF gone
<1>12. Claimed \subseteq pkg' /\ pkg' \subseteq Claimed \cup save.kept \cup PkgOf(gone) \cup told'
  BY <1>6, <1>7, <1>9
<1>13. Removing'
  BY <1>5, <1>7, <1>12 DEF Removing
<1>14. Writing' /\ Undoable'
  BY <1>5 DEF Writing, Undoable
<1>15. QED
  BY <1>5, <1>11, <1>13, <1>14 DEF IInv

\* A document with its nodes' files.
Filed(es, cids) == [i \in DOMAIN es |-> [es[i] EXCEPT !.file = cids[i]]]

LEMMA FiledForm ==
  ASSUME NEW es, IsEntries(es), NEW cids
  PROVE  LET t == Filed(es, cids)
         IN  /\ IsEntries(t) /\ DOMAIN t = DOMAIN es
             /\ \A i \in DOMAIN es : /\ t[i].node = es[i].node /\ t[i].id = es[i].id
                                    /\ t[i].handle = es[i].handle
<1> DEFINE Of(i) == [es[i] EXCEPT !.file = cids[i]]
           t == [i \in DOMAIN es |-> Of(i)]
<1>1. Len(es) \in Nat /\ DOMAIN es = 1..Len(es)
      /\ \A i \in 1..Len(es) : es[i] = [id |-> es[i].id, handle |-> es[i].handle,
                                        node |-> es[i].node, file |-> es[i].file]
  BY EntriesForm
<1>2. \A i \in 1..Len(es) : Of(i) = [id |-> es[i].id, handle |-> es[i].handle,
                                     node |-> es[i].node, file |-> cids[i]]
  BY <1>1
<1>3. t = [i \in 1..Len(es) |-> Of(i)]
  BY <1>1
<1> HIDE DEF t, Of
<1>4. \A i \in 1..Len(es) : t[i] = [id |-> es[i].id, handle |-> es[i].handle,
                                    node |-> es[i].node, file |-> cids[i]]
  BY <1>2, <1>3
<1>5. \A i \in 1..Len(es) : t[i] = [id |-> t[i].id, handle |-> t[i].handle, node |-> t[i].node,
                                    file |-> t[i].file]
  <2>1. TAKE i \in 1..Len(es)
  <2> DEFINE a == es[i].id
             b == es[i].handle
             c == es[i].node
             d == cids[i]
  <2>2. t[i] = [id |-> a, handle |-> b, node |-> c, file |-> d]
    BY <1>4
  <2> HIDE DEF a, b, c, d
  <2>3. QED
    BY <2>2
<1>6. t = [i \in 1..Len(es) |-> t[i]] /\ DOMAIN t = 1..Len(es)
  BY <1>3
<1>7. IsEntries(t)
  BY <1>1, <1>5, <1>6, EntriesFrom
<1>8. QED
  BY <1>1, <1>4, <1>6, <1>7 DEF Filed, t, Of

\* The history renamed is the history of the same revisions.
LEMMA RenamedSeq ==
  ASSUME NEW ss, IsSeq(ss), NEW M
  PROVE  LET t == [k \in DOMAIN ss |-> RenamedIn(ss[k], M)]
         IN  IsSeq(t) /\ Len(t) = Len(ss) /\ Rng(t) = {RenamedIn(s, M) : s \in Rng(ss)}
<1> DEFINE t == [k \in DOMAIN ss |-> RenamedIn(ss[k], M)]
<1>1. Len(ss) \in Nat /\ DOMAIN ss = 1..Len(ss)
  BY SeqForm
<1>2. t = [k \in 1..Len(ss) |-> RenamedIn(ss[k], M)]
  BY <1>1
<1> HIDE DEF t
<1>3. t = [k \in 1..Len(ss) |-> t[k]] /\ \A k \in 1..Len(ss) : t[k] = RenamedIn(ss[k], M)
  BY <1>2
<1>4. IsSeq(t) /\ Len(t) = Len(ss) /\ DOMAIN t = 1..Len(ss)
  BY <1>1, <1>3, FunctionIsSeq
<1>5. Rng(t) = {RenamedIn(s, M) : s \in Rng(ss)}
  BY <1>1, <1>3, <1>4 DEF Rng
<1>6. QED
  BY <1>4, <1>5 DEF t

\* The document is what the save wrote, and every revision there is has the new names.
LEMMA SavedKeeps == IInv /\ Saved => IInv'
<1> SUFFICES ASSUME IInv, Saved PROVE IInv'
  OBVIOUS
<1> DEFINE M == save.map
           as == Renamed(doc, M)
<1>1. /\ save.pc = "remove" /\ save.gone = {} /\ save' = Idle /\ draft' = None
      /\ doc' = [i \in DOMAIN doc |-> [Renamed(doc, save.map)[i] EXCEPT !.file = save.cids[i]]]
      /\ undo' = [k \in DOMAIN undo |-> RenamedIn(undo[k], M)]
      /\ redo' = [k \in DOMAIN redo |-> RenamedIn(redo[k], M)]
      /\ before' = RenamedIn(before, M)
      /\ loaded' = pkg /\ savedRev' = rev
      /\ told' = (told \cup save.kept) \cap (pkg \cup other)
      /\ UNCHANGED <<pkg, other, inst, rev, nextRev, drafts, edits, saves, faults>>
  BY DEF Saved, HistoryRenamed, disk
<1>2. save # Idle
  BY <1>1 DEF Idle
<1>3. /\ IsEntries(doc) /\ IsSeq(undo) /\ IsSeq(redo) /\ Len(undo) + Len(redo) <= MaxUndo
      /\ \A s \in Snapshots : s = [entries |-> s.entries, rev |-> s.rev] /\ IsEntries(s.entries)
      /\ nextRev \in Nat /\ \A s \in States : s.rev \in 1..(nextRev - 1)
  BY DEF IInv, Typed
<1>4. save.cids = [i \in DOMAIN doc |-> Remap(doc[i].node, M)]
  BY <1>2 DEF IInv, Planned
<1>5. IsEntries(as) /\ DOMAIN as = DOMAIN doc /\ \A i \in DOMAIN doc : as[i].node = Remap(doc[i].node, M)
  BY <1>3, RenamedForm
<1>6. doc' = [i \in DOMAIN as |-> [as[i] EXCEPT !.file = save.cids[i]]]
  BY <1>1, <1>5
<1> HIDE DEF as, M
<1>7. /\ IsEntries(doc') /\ DOMAIN doc' = DOMAIN doc
      /\ \A i \in DOMAIN doc : doc'[i].node = Remap(doc[i].node, M)
  <2>1. doc' = Filed(as, save.cids)
    BY <1>6 DEF Filed
  <2> DEFINE t == Filed(as, save.cids)
  <2>2. IsEntries(t)
    BY <1>5, FiledForm
  <2>3. DOMAIN t = DOMAIN as
    BY <1>5, FiledForm
  <2>4. \A i \in DOMAIN as : t[i].node = as[i].node
    BY <1>5, FiledForm
  <2> HIDE DEF t
  <2>5. doc' = t
    BY <2>1 DEF t
  <2>6. QED
    BY <1>5, <2>2, <2>3, <2>4, <2>5
<1>8. NodesOf(Take') = {Remap(n, M) : n \in NodesOf(Take)} /\ NodesOf(Take') = Claimed /\ Take'.rev = rev
  <2>1. Take.entries = doc /\ Take'.entries = doc' /\ Take'.rev = rev
    BY <1>1 DEF Take
  <2>2. NodesOf(Take') = {Remap(n, M) : n \in NodesOf(Take)}
    BY <1>7, <2>1 DEF NodesOf
  <2>3. DOMAIN save.cids = DOMAIN doc /\ \A i \in DOMAIN doc : save.cids[i] = Remap(doc[i].node, M)
    BY <1>4
  <2>4. NodesOf(Take') = Claimed
    BY <1>7, <2>1, <2>3 DEF NodesOf, Claimed
  <2>5. QED
    BY <2>1, <2>2, <2>4
<1>9. /\ IsSeq(undo') /\ Len(undo') = Len(undo) /\ Rng(undo') = {RenamedIn(s, M) : s \in Rng(undo)}
      /\ IsSeq(redo') /\ Len(redo') = Len(redo) /\ Rng(redo') = {RenamedIn(s, M) : s \in Rng(redo)}
  BY <1>1, <1>3, RenamedSeq
<1>10. Snapshots' = {RenamedIn(s, M) : s \in Snapshots}
  <2>1. Snapshots' = Rng(undo') \cup Rng(redo') \cup {before'}
        /\ Snapshots = Rng(undo) \cup Rng(redo) \cup {before}
    BY DEF Snapshots, Rng
  <2>2. QED
    BY <1>1, <1>9, <2>1
<1>11. \A s \in Snapshots :
         LET t == RenamedIn(s, M)
         IN  /\ t = [entries |-> t.entries, rev |-> t.rev] /\ IsEntries(t.entries) /\ t.rev = s.rev
             /\ NodesOf(t) = {Remap(n, M) : n \in NodesOf(s)}
  BY <1>3, RenamedNodes
<1>12. \A t \in Snapshots' : t = [entries |-> t.entries, rev |-> t.rev] /\ IsEntries(t.entries)
  BY <1>10, <1>11
<1>13. \A t \in States' : \E s \in States : t.rev = s.rev
                                           /\ NodesOf(t) = {Remap(n, M) : n \in NodesOf(s)}
  <2>1. \A t \in Snapshots' : \E s \in Snapshots : t.rev = s.rev
                                               /\ NodesOf(t) = {Remap(n, M) : n \in NodesOf(s)}
    BY <1>10, <1>11
  <2>2. Take'.rev = Take.rev
    BY <1>8 DEF Take
  <2>3. QED
    BY <1>8, <2>1, <2>2 DEF States
<1>14. Typed'
  <2>1. \A t \in States' : t.rev \in 1..(nextRev - 1)
    BY <1>3, <1>13
  <2>2. rev \in 1..(nextRev - 1)
    <3>1. Take \in States /\ Take.rev = rev
      BY DEF States, Take
    <3>2. QED
      BY <1>3, <3>1
  <2>3. QED
    BY <1>1, <1>3, <1>7, <1>9, <1>12, <2>1, <2>2 DEF IInv, Typed
<1>15. OneRevision'
  BY <1>13 DEF IInv, OneRevision
<1>16. Claimed \subseteq pkg /\ pkg \subseteq Claimed \cup save.kept \cup told
  BY <1>1, <1>2 DEF IInv, Removing, PkgOf
<1>17. SavedKept'
  <2>1. Base' = pkg
    BY <1>1 DEF Base
  <2>2. \A t \in States' : t.rev = rev => NodesOf(t) = Claimed
    BY <1>8, <1>15 DEF OneRevision, States
  <2>3. Claimed \subseteq pkg /\ pkg \ Claimed \subseteq told'
    BY <1>1, <1>16
  <2>4. QED
    BY <1>1, <2>1, <2>2, <2>3 DEF SavedKept
<1>18. QED
  BY <1>1, <1>14, <1>15, <1>17 DEF IInv, Planned, Writing, Removing, Undoable

--------------------------------------------------------------------------------
(* Drafts, closing and crashes *)

LEMMA WriteDraftKeeps == IInv /\ WriteDraft => IInv'
<1> SUFFICES ASSUME IInv, WriteDraft PROVE IInv'
  OBVIOUS
<1>1. /\ save = Idle /\ save' = Idle
      /\ UNCHANGED <<pkg, other, inst, session, told, drafts, edits, saves, faults>>
      /\ draft' = [i \in DOMAIN doc |-> [handle |-> doc[i].handle, node |-> doc[i].node]]
  BY DEF WriteDraft, disk
<1>2. UNCHANGED <<doc, loaded, rev, savedRev, nextRev, undo, redo, before>>
  BY <1>1 DEF session, history
<1>3. Snapshots' = Snapshots /\ States' = States /\ Base' = Base
  BY <1>1, <1>2 DEF Snapshots, States, Take, Base
<1>4. Len(doc) \in Nat /\ DOMAIN doc = 1..Len(doc)
  BY EntriesForm DEF IInv, Typed
<1>5. draft' = [i \in 1..Len(doc) |-> draft'[i]]
  BY <1>1, <1>4
<1>6. IsSeq(draft')
  BY <1>4, <1>5, FunctionIsSeq
<1>7. Typed'
  BY <1>1, <1>2, <1>3, <1>6 DEF IInv, Typed
<1>8. OneRevision' /\ SavedKept'
  BY <1>1, <1>2, <1>3 DEF IInv, OneRevision, SavedKept
<1>9. QED
  BY <1>1, <1>7, <1>8 DEF IInv, Planned, Writing, Removing, Undoable

\* A package opened is what is on disk, with the work found beside it as a step that can be undone.
LEMMA OpenKeeps ==
  ASSUME IsFiniteSet(pkg), inst = [k \in DOMAIN inst |-> inst[k]], pkg' = pkg, inst' = inst,
         draft' = None \/ IsSeq(draft'), drafts' \in 0..Len(Drafts), edits' \in 0..MaxEdits,
         saves' \in 0..MaxSaves, faults' \in 0..MaxFaults, save' = Idle,
         NEW es, IsEntries(es), NEW snapshots, OpenWith(es, snapshots),
         \/ snapshots = <<>> /\ {es[i].node : i \in DOMAIN es} = pkg
         \/ snapshots = <<[entries |-> Loaded(pkg), rev |-> 1]>>
  PROVE  IInv'
<1> DEFINE s0 == [entries |-> Loaded(pkg), rev |-> 1]
           b == [entries |-> es, rev |-> rev']
           ns == {es[i].node : i \in DOMAIN es}
<1>1. /\ doc' = es /\ loaded' = pkg /\ told' = {} /\ savedRev' = 1 /\ rev' = 1 + Len(snapshots)
      /\ nextRev' = rev' + 1 /\ undo' = snapshots /\ redo' = <<>> /\ before' = b
  BY DEF OpenWith
<1>2. Take' = b
  BY <1>1 DEF Take
<1>3. b.entries = es /\ b.rev = rev' /\ s0.entries = Loaded(pkg) /\ s0.rev = 1
      /\ b = [entries |-> b.entries, rev |-> b.rev] /\ s0 = [entries |-> s0.entries, rev |-> s0.rev]
  OBVIOUS
<1>4. NodesOf(b) = ns /\ NodesOf(s0) = pkg /\ IsEntries(s0.entries)
  BY <1>3, LoadedForm DEF NodesOf
<1> HIDE DEF s0, b, ns
<1>5. IsSeq(<<>>) /\ Rng(<<>>) = {} /\ Len(<<>>) = 0
  BY EmptyForm
<1>6. Snapshots' = Rng(undo') \cup Rng(redo') \cup {before'}
  BY DEF Snapshots, Rng
<1>7. Base' = pkg
  BY DEF Base
<1>8. MaxUndo \in Nat /\ MaxUndo >= 1
  BY DocumentAssumption
<1>9. CASE snapshots = <<>> /\ ns = pkg
  <2>1. Snapshots' = {b} /\ States' = {b} /\ rev' = 1 /\ nextRev' = 2
    BY <1>1, <1>2, <1>5, <1>6, <1>9 DEF States
  <2>2. Typed'
    BY <1>1, <1>3, <1>5, <1>8, <1>9, <2>1 DEF Typed
  <2>3. OneRevision' /\ SavedKept'
    BY <1>1, <1>3, <1>4, <1>7, <1>9, <2>1 DEF OneRevision, SavedKept
  <2>4. QED
    BY <2>2, <2>3 DEF IInv, Planned, Writing, Removing, Undoable
<1>10. CASE snapshots = <<s0>>
  <2>1. IsSeq(snapshots) /\ Rng(snapshots) = {s0} /\ Len(snapshots) = 1
    BY <1>10, OneForm
  <2>2. Snapshots' = {s0, b} /\ States' = {s0, b} /\ rev' = 2 /\ nextRev' = 3
    BY <1>1, <1>2, <1>5, <1>6, <2>1 DEF States
  <2>3. Typed'
    BY <1>1, <1>3, <1>4, <1>5, <1>8, <2>1, <2>2 DEF Typed
  <2>4. OneRevision' /\ SavedKept'
    BY <1>1, <1>3, <1>4, <1>7, <2>2 DEF OneRevision, SavedKept
  <2>5. QED
    BY <2>3, <2>4 DEF IInv, Planned, Writing, Removing, Undoable
<1>11. QED
  BY <1>9, <1>10 DEF s0, ns

LEMMA LoadKeeps ==
  ASSUME IsFiniteSet(pkg), inst = [k \in DOMAIN inst |-> inst[k]], pkg' = pkg, inst' = inst,
         draft = None \/ IsSeq(draft), drafts' \in 0..Len(Drafts), edits' \in 0..MaxEdits,
         saves' \in 0..MaxSaves, faults' \in 0..MaxFaults, save' = Idle,
         NEW offered, Load(offered)
  PROVE  IInv'
<1> DEFINE es == Loaded(pkg)
           one == <<[entries |-> Loaded(pkg), rev |-> 1]>>
<1>1. IsEntries(es) /\ {es[i].node : i \in DOMAIN es} = pkg
  BY LoadedForm
<1>2. \/ OpenWith(es, <<>>) /\ draft' = None
      \/ /\ draft # None /\ draft' = draft
         /\ OpenWith(Restored, IF Restored = es THEN <<>> ELSE one)
  BY DEF Load
<1> HIDE DEF es, one
<1>3. CASE OpenWith(es, <<>>) /\ draft' = None
  BY <1>1, <1>3, OpenKeeps
<1>4. CASE draft # None /\ draft' = draft /\ Restored = es /\ OpenWith(Restored, <<>>)
  BY <1>1, <1>4, OpenKeeps
<1>5. CASE draft # None /\ draft' = draft /\ OpenWith(Restored, one)
  <2>1. IsEntries(Restored)
    BY <1>5, RestoredForm
  <2>2. QED
    BY <1>5, <2>1, OpenKeeps DEF one
<1>6. QED
  BY <1>2, <1>3, <1>4, <1>5

LEMMA ReopenKeeps == IInv /\ Reopen => IInv'
BY LoadKeeps DEF Reopen, IInv, Typed, disk

\* The application may die anywhere, in a save too: what it left is what is loaded next.
LEMMA CrashKeeps == IInv /\ Crash => IInv'
<1> SUFFICES ASSUME IInv, Crash PROVE IInv'
  OBVIOUS
<1>1. /\ IsFiniteSet(pkg) /\ inst = [k \in DOMAIN inst |-> inst[k]] /\ (draft = None \/ IsSeq(draft))
      /\ drafts \in 0..Len(Drafts) /\ edits \in 0..MaxEdits /\ saves \in 0..MaxSaves
  BY DEF IInv, Typed
<1>2. /\ save' = Idle /\ Load(TRUE) /\ pkg' = pkg /\ inst' = inst
      /\ drafts' = drafts /\ edits' = edits /\ saves' = saves /\ faults' \in 0..MaxFaults
  <2>1. save' = Idle /\ Load(TRUE) /\ UNCHANGED <<disk, stale, warned, drafts, edits, saves>> /\ faults' = MaxFaults
    BY Zenon DEF Crash
  <2>2. faults' \in 0..MaxFaults
    BY <2>1, DocumentAssumption
  <2>3. QED
    BY <2>1, <2>2 DEF disk
<1>3. QED
  BY <1>1, <1>2, LoadKeeps

--------------------------------------------------------------------------------
(* The theorems *)

LEMMA InitIInv == Init => IInv
<1> SUFFICES ASSUME Init PROVE IInv
  OBVIOUS
<1>1. PICK s \in Starts : pkg = s.pkg /\ other = s.other /\ inst = s.inst
  BY DEF Init
<1>2. IsFiniteSet(pkg) /\ inst = [k \in DOMAIN inst |-> inst[k]]
  BY <1>1, DocumentAssumption
<1>3. /\ loaded = pkg /\ told = {} /\ draft = None /\ rev = 1 /\ savedRev = 1 /\ nextRev = 2
      /\ doc = Loaded(pkg) /\ undo = <<>> /\ redo = <<>> /\ before = Take /\ save = Idle
      /\ drafts = 0 /\ edits = 0 /\ saves = 0 /\ faults = 0
  BY DEF Init
<1>4. IsEntries(doc) /\ {doc[i].node : i \in DOMAIN doc} = pkg
  BY <1>2, <1>3, LoadedForm
<1>5. Take = [entries |-> Take.entries, rev |-> Take.rev] /\ Take.entries = doc /\ Take.rev = 1
  BY <1>3 DEF Take
<1>6. NodesOf(Take) = pkg
  BY <1>4, <1>5 DEF NodesOf
<1>7. IsSeq(<<>>) /\ Rng(<<>>) = {} /\ Len(<<>>) = 0
  BY EmptyForm
<1>8. Snapshots = {Take} /\ States = {Take}
  <2>1. Snapshots = Rng(undo) \cup Rng(redo) \cup {before}
    BY DEF Snapshots, Rng
  <2>2. QED
    BY <1>3, <1>7, <2>1 DEF States
<1>9. Typed
  BY <1>2, <1>3, <1>4, <1>5, <1>7, <1>8, DocumentAssumption DEF Typed
<1>10. Base = pkg
  BY <1>3 DEF Base
<1>11. OneRevision /\ SavedKept
  BY <1>3, <1>6, <1>8, <1>10 DEF OneRevision, SavedKept
<1>12. QED
  BY <1>3, <1>9, <1>11, IdleForm DEF IInv

LEMMA StepKeeps == IInv /\ [Next]_vars => IInv'
<1> SUFFICES ASSUME IInv, [Next]_vars PROVE IInv'
  OBVIOUS
<1>1. CASE Replace \/ Add \/ RemoveNode \/ Link \/ MergeInto
  BY <1>1, ReplaceKeeps, AddKeeps, RemoveNodeKeeps, LinkKeeps, MergeIntoKeeps
<1>2. CASE Commit \/ Undo \/ Redo
  BY <1>2, CommitKeeps, UndoKeeps, RedoKeeps
<1>3. CASE SaveBegins \/ Write \/ WriteFails \/ WriteUndone \/ SaveFailed
  BY <1>3, SaveBeginsKeeps, WriteKeeps, WriteFailsKeeps, WriteUndoneKeeps, SaveFailedKeeps
<1>4. CASE WritesLanded \/ Gone \/ Saved
  BY <1>4, WritesLandedKeeps, GoneKeeps, SavedKeeps
<1>5. CASE WriteDraft \/ Reopen \/ Crash
  BY <1>5, WriteDraftKeeps, ReopenKeeps, CrashKeeps
<1>6. CASE UNCHANGED vars
  <2>1. UNCHANGED <<pkg, other, inst, doc, loaded, rev, savedRev, nextRev, undo, redo, before,
                    save, draft, told, drafts, edits, saves, faults>>
    BY <1>6 DEF vars, disk, session, history
  <2>2. Snapshots' = Snapshots /\ Take' = Take /\ States' = States /\ Base' = Base /\ Claimed' = Claimed
    BY <2>1 DEF Snapshots, Take, States, Base, Claimed
  <2>3. Typed' /\ OneRevision' /\ SavedKept'
    BY <2>1, <2>2 DEF IInv, Typed, OneRevision, SavedKept
  <2>4. Planned'
    BY <2>1, <2>2 DEF IInv, Planned
  <2>5. Writing' /\ Removing'
    BY <2>1, <2>2 DEF IInv, Writing, Removing
  <2>6. Undoable'
    BY <2>1, <2>2 DEF IInv, Undoable
  <2>7. QED
    BY <2>3, <2>4, <2>5, <2>6 DEF IInv
<1>7. QED
  BY <1>1, <1>2, <1>3, <1>4, <1>5, <1>6 DEF Next

\* In every reachable state the plan of a save says what is on disk, and the revision saved is
\* what the package's files are.
THEOREM DocumentInvariant == Spec => []IInv
BY InitIInv, StepKeeps, PTL DEF Spec

\* The history is capped and never of a revision to come; a save only writes files of this
\* package that are not there.
THEOREM DocumentTyped == Spec => []TypeOK
<1>1. IInv => TypeOK
  <2> SUFFICES ASSUME IInv PROVE TypeOK
    OBVIOUS
  <2>1. \A s \in States : s.rev \in 1..(nextRev - 1)
    BY DEF IInv, Typed
  <2>2. Take \in States /\ Take.rev = rev /\ savedRev \in 1..(nextRev - 1)
    BY DEF States, Take, IInv, Typed
  <2>3. {rev, savedRev} \cup {s.rev : s \in Snapshots} \subseteq 1..(nextRev - 1)
    BY <2>1, <2>2 DEF States
  <2>4. Len(undo) \in Nat /\ Len(redo) \in Nat /\ Len(undo) + Len(redo) <= MaxUndo
    BY SeqForm DEF IInv, Typed
  <2>5. ASSUME save # Idle
        PROVE  save.pc \in {"write", "back", "remove"} /\ \A w \in save.todo : w \notin {"pkg"} \X pkg
    <3>1. save.pc \in {"write", "back", "remove"}
      BY <2>5 DEF IInv, Planned
    <3>2. PkgOf(save.todo) \cap pkg = {}
      BY <2>5 DEF IInv, Writing, Removing, PkgOf
    <3>3. ASSUME NEW w \in save.todo, w \in {"pkg"} \X pkg PROVE FALSE
      <4>1. w[1] = "pkg" /\ w[2] \in pkg
        BY <3>3
      <4>2. QED
        BY <3>2, <4>1, PairsOf
    <3>4. QED
      BY <3>1, <3>3
  <2>6. /\ drafts \in 0..Len(Drafts) /\ edits \in 0..MaxEdits /\ saves \in 0..MaxSaves
        /\ faults \in 0..MaxFaults
    BY DEF IInv, Typed
  <2>7. Len(undo) <= MaxUndo
    BY <2>4, DocumentAssumption
  <2>8. QED
    BY <2>3, <2>5, <2>6, <2>7 DEF TypeOK
<1>2. QED
  BY <1>1, DocumentInvariant, PTL

\* A package with nothing to save is what is on disk, but for the files the author was told of.
THEOREM CleanIsSaved == Spec => []CleanMeansSaved
<1>1. IInv => CleanMeansSaved
  <2> SUFFICES ASSUME IInv, ~Dirty, save = Idle
               PROVE  LET nodes == {doc[i].node : i \in DOMAIN doc}
                      IN  nodes \subseteq pkg /\ pkg \ nodes \subseteq told
    BY DEF CleanMeansSaved
  <2>1. Take \in States /\ Take.rev = savedRev /\ Take.entries = doc
    BY DEF States, Take, Dirty
  <2>2. Base = pkg
    BY DEF Base
  <2>3. NodesOf(Take) \subseteq pkg /\ pkg \ NodesOf(Take) \subseteq told
    BY <2>1, <2>2 DEF IInv, SavedKept
  <2>4. QED
    BY <2>1, <2>3 DEF NodesOf
<1>2. QED
  BY <1>1, DocumentInvariant, PTL

\* A save that failed leaves every file and instance as it was, unless it says what it could
\* not undo.
THEOREM FailedSaveLeavesNothing == Spec => []FailedSaveUndone
<1>1. IInv => FailedSaveUndone
  <2> SUFFICES ASSUME IInv, save # Idle, save.pc = "back", save.done = {}, ~save.stuck
               PROVE  disk = save.was
    BY DEF FailedSaveUndone
  <2>1. PkgOf(save.done) = {} /\ OtherOf(save.done) = {}
    BY DEF PkgOf, OtherOf
  <2>2. /\ save.was = <<save.was[1], save.was[2], save.was[3]>>
        /\ pkg = save.was[1] /\ other = save.was[2]
    BY <2>1 DEF IInv, Undoable
  <2>3. inst = save.was[3]
    <3>1. /\ save.was[3] = [k \in DOMAIN save.was[3] |-> save.was[3][k]]
          /\ inst = [k \in DOMAIN save.was[3] |-> inst[k]]
          /\ \A k \in DOMAIN inst : inst[k] = save.was[3][k]
      BY DEF IInv, Undoable
    <3>2. QED
      BY <3>1
  <2>4. QED
    BY <2>2, <2>3 DEF disk
<1>2. QED
  BY <1>1, DocumentInvariant, PTL

--------------------------------------------------------------------------------
(* One name in all the history *)

\* Every node with its name, as the document has it, had it, or can have it again.
Names == UNION {NamesIn(s.entries) : s \in States}

Given == {Drafts[k] : k \in 1..Len(Drafts)}

\* The draft handles still to be given.
Ahead == {Drafts[k] : k \in {j \in 1..Len(Drafts) : j > drafts}}

\* What is needed of names made of content: none is a draft handle.
CidsAreNoDrafts ==
  /\ pkg \cap Given = {}
  /\ save # Idle => {save.map[h] : h \in DOMAIN save.map} \cap Given = {}

\* A node has one name, and none has a name that is still to be given: a new node's is new.
Apart(ns, later) ==
  /\ \A p, q \in ns : p[1] = q[1] => p[2] = q[2]
  /\ \A p \in ns : p[1] \notin later /\ p[2] \notin later

NamesApart ==
  /\ Apart(Names, Ahead)
  /\ draft # None => Handles(draft) \cap Ahead = {}

NInv == IInv /\ NamesApart

\* A step that gives no new name.
LEMMA NoNewName ==
  ASSUME NamesApart, Names' \subseteq Names, drafts' = drafts, draft' = draft
  PROVE  NamesApart'
BY DEF NamesApart, Apart, Ahead, Handles

LEMMA FewerStates ==
  ASSUME NamesApart, States' \subseteq States, drafts' = drafts, draft' = draft
  PROVE  NamesApart'
<1>1. Names' \subseteq Names
  BY DEF Names
<1>2. QED
  BY <1>1, NoNewName

LEMMA NamesOfPlace ==
  ASSUME NEW es, NEW i \in DOMAIN es
  PROVE  <<es[i].id, es[i].handle>> \in NamesIn(es)
BY DEF NamesIn

\* An edit changes the names there are to those of the new document.
LEMMA TouchNames ==
  ASSUME NEW es, Touch(es)
  PROVE  Names' \subseteq Names \cup NamesIn(es) /\ draft' = draft
<1>1. doc' = es /\ UNCHANGED <<undo, redo, before, draft>>
  BY DEF Touch
<1>2. Snapshots' = Snapshots
  BY <1>1 DEF Snapshots
<1>3. States' = Snapshots \cup {Take'} /\ Take'.entries = es
  BY <1>1, <1>2 DEF States, Take
<1>4. QED
  BY <1>1, <1>3 DEF Names, States

LEMMA DocNames == NamesIn(doc) \subseteq Names
<1>1. Take \in States /\ Take.entries = doc
  BY DEF States, Take
<1>2. QED
  BY <1>1 DEF Names

\* An edit that makes no node gives no name.
LEMMA TouchNamesApart ==
  ASSUME NamesApart, NEW es, Touch(es), NamesIn(es) \subseteq NamesIn(doc), drafts' = drafts
  PROVE  NamesApart'
BY TouchNames, DocNames, NoNewName

\* Another node in its place leaves an entry its name.
LEMMA SameNames ==
  ASSUME NEW es, IsEntries(es), NEW f, DOMAIN f = DOMAIN es,
         \A k \in DOMAIN es : \E n : f[k] = es[k] \/ f[k] = [es[k] EXCEPT !.node = n]
  PROVE  NamesIn(f) \subseteq NamesIn(es)
<1>1. ASSUME NEW k \in DOMAIN es PROVE f[k].id = es[k].id /\ f[k].handle = es[k].handle
  <2>1. PICK n : f[k] = es[k] \/ f[k] = [es[k] EXCEPT !.node = n]
    OBVIOUS
  <2> DEFINE a == es[k].id
             b == es[k].handle
             m == es[k].node
             d == es[k].file
  <2>2. es[k] = [id |-> a, handle |-> b, node |-> m, file |-> d]
    BY DEF IsEntries
  <2> HIDE DEF a, b, m, d
  <2>3. [es[k] EXCEPT !.node = n] = [id |-> a, handle |-> b, node |-> n, file |-> d]
    BY <2>2
  <2>4. f[k].id = a /\ f[k].handle = b
    BY <2>1, <2>2, <2>3
  <2>5. QED
    BY <2>4 DEF a, b
<1>2. QED
  BY <1>1 DEF NamesIn

LEMMA ReplaceNames == NInv /\ Replace => NamesApart'
<1> SUFFICES ASSUME NInv, Replace PROVE NamesApart'
  OBVIOUS
<1>1. PICK i \in DOMAIN doc : \E n : Touch([doc EXCEPT ![i].node = n])
  BY DEF Replace
<1>2. PICK n : Touch([doc EXCEPT ![i].node = n])
  BY <1>1
<1> DEFINE f == [doc EXCEPT ![i].node = n]
<1>3. DOMAIN f = DOMAIN doc
      /\ \A k \in DOMAIN doc : f[k] = doc[k] \/ f[k] = [doc[k] EXCEPT !.node = n]
  OBVIOUS
<1>4. IsEntries(doc) /\ drafts' = drafts
  BY DEF NInv, IInv, Typed, Replace
<1>5. Touch(f)
  BY <1>2
<1> HIDE DEF f
<1>6. NamesIn(f) \subseteq NamesIn(doc)
  BY <1>3, <1>4, SameNames
<1>7. QED
  BY <1>4, <1>5, <1>6, TouchNamesApart DEF NInv

LEMMA LinkNames == NInv /\ Link => NamesApart'
<1> SUFFICES ASSUME NInv, Link PROVE NamesApart'
  OBVIOUS
<1>1. PICK i \in DOMAIN doc, h \in Handles(doc) \cup other : Touch([doc EXCEPT ![i].node.refs = @ \cup {h}])
  BY DEF Link
<1> DEFINE n == [doc[i].node EXCEPT !.refs = @ \cup {h}]
           f == [doc EXCEPT ![i].node.refs = @ \cup {h}]
<1>2. DOMAIN f = DOMAIN doc
      /\ \A k \in DOMAIN doc : f[k] = doc[k] \/ f[k] = [doc[k] EXCEPT !.node = n]
  OBVIOUS
<1>3. IsEntries(doc) /\ drafts' = drafts
  BY DEF NInv, IInv, Typed, Link
<1>4. Touch(f)
  BY <1>1
<1> HIDE DEF n, f
<1>5. NamesIn(f) \subseteq NamesIn(doc)
  BY <1>2, <1>3, SameNames
<1>6. QED
  BY <1>3, <1>4, <1>5, TouchNamesApart DEF NInv

LEMMA RemoveNodeNames == NInv /\ RemoveNode => NamesApart'
<1> SUFFICES ASSUME NInv, RemoveNode PROVE NamesApart'
  OBVIOUS
<1>1. PICK i \in DOMAIN doc : Touch(Without(doc, i))
  BY DEF RemoveNode
<1>2. IsEntries(doc) /\ drafts' = drafts
  BY DEF NInv, IInv, Typed, RemoveNode
<1>3. NamesIn(Without(doc, i)) \subseteq NamesIn(doc)
  BY <1>2, WithoutEntries
<1>4. QED
  BY <1>1, <1>2, <1>3, TouchNamesApart DEF NInv

\* A new node's handle is none there was, in the history neither.
LEMMA AddNames == NInv /\ Add => NamesApart'
<1> SUFFICES ASSUME NInv, Add PROVE NamesApart'
  OBVIOUS
<1>1. PICK c \in Contents :
        Touch(Append(doc, [id |-> Drafts[drafts'], handle |-> Drafts[drafts'],
                           node |-> [c |-> c, refs |-> {}], file |-> None]))
  BY DEF Add
<1> DEFINE d == Drafts[drafts']
           e == [id |-> d, handle |-> d, node |-> [c |-> c, refs |-> {}], file |-> None]
<1>2. e.id = d /\ e.handle = d
  OBVIOUS
<1>3. Touch(Append(doc, e))
  BY <1>1
<1>4. drafts \in 0..Len(Drafts) /\ Len(Drafts) \in Nat /\ drafts < Len(Drafts) /\ drafts' = drafts + 1
      /\ IsEntries(doc) /\ \A i, j \in 1..Len(Drafts) : Drafts[i] = Drafts[j] => i = j
  BY DocumentAssumption DEF NInv, IInv, Typed, Add
<1>5. d \in Ahead
  BY <1>4 DEF Ahead
<1>6. Ahead' \subseteq Ahead /\ d \notin Ahead'
  BY <1>4 DEF Ahead
<1> HIDE DEF d, e
<1>7. Rng(Append(doc, e)) = Rng(doc) \cup {e}
  BY <1>4, AppendForm DEF IsEntries
<1>8. NamesIn(Append(doc, e)) \subseteq NamesIn(doc) \cup {<<d, d>>}
  BY <1>2, <1>7 DEF NamesIn, Rng
<1>9. Names' \subseteq Names \cup {<<d, d>>} /\ draft' = draft
  BY <1>3, <1>8, TouchNames, DocNames
<1>10. Apart(Names', Ahead')
  BY <1>5, <1>6, <1>9 DEF NInv, NamesApart, Apart
<1>11. draft' # None => Handles(draft') \cap Ahead' = {}
  BY <1>6, <1>9 DEF NInv, NamesApart
<1>12. QED
  BY <1>10, <1>11 DEF NamesApart

LEMMA MergeIntoNames == NInv /\ MergeInto => NamesApart'
<1> SUFFICES ASSUME NInv, MergeInto PROVE NamesApart'
  OBVIOUS
<1>0. PICK from \in DOMAIN doc : \E merged :
        /\ DOMAIN merged = DOMAIN doc
        /\ \A k \in DOMAIN doc : \E n : merged[k] = [doc[k] EXCEPT !.node = n]
        /\ IsEntries(merged) /\ Touch(Without(merged, from))
  BY MergedForm DEF NInv
<1>1. PICK merged :
        /\ DOMAIN merged = DOMAIN doc
        /\ \A k \in DOMAIN doc : \E n : merged[k] = [doc[k] EXCEPT !.node = n]
        /\ IsEntries(merged) /\ Touch(Without(merged, from))
  BY <1>0
<1>2. IsEntries(doc) /\ drafts' = drafts
  BY DEF NInv, IInv, Typed, MergeInto
<1>3. NamesIn(merged) \subseteq NamesIn(doc)
  BY <1>1, <1>2, SameNames
<1>4. NamesIn(Without(merged, from)) \subseteq NamesIn(merged)
  BY <1>1, WithoutEntries
<1>5. QED
  BY <1>1, <1>2, <1>3, <1>4, TouchNamesApart DEF NInv

\* While a save is at work the document stays.
LEMMA SaveStepNames ==
  ASSUME NamesApart, UNCHANGED <<session, draft, drafts>>
  PROVE  NamesApart'
<1>1. States' = States
  BY DEF States, Snapshots, Take, session, history
<1>2. QED
  BY <1>1, FewerStates

\* A save gives a node its new name in every revision there is.
LEMMA SavedNames == NInv /\ CidsAreNoDrafts /\ Saved => NamesApart'
<1> SUFFICES ASSUME NInv, CidsAreNoDrafts, Saved PROVE NamesApart'
  OBVIOUS
<1> DEFINE M == save.map
           as == Renamed(doc, M)
<1>1. /\ save.pc = "remove" /\ draft' = None /\ drafts' = drafts
      /\ doc' = Filed(as, save.cids)
      /\ undo' = [k \in DOMAIN undo |-> RenamedIn(undo[k], M)]
      /\ redo' = [k \in DOMAIN redo |-> RenamedIn(redo[k], M)]
      /\ before' = RenamedIn(before, M)
  <2>1. DOMAIN as = DOMAIN doc
    BY RenamedForm DEF NInv, IInv, Typed
  <2>2. QED
    BY <2>1 DEF Saved, HistoryRenamed, Filed
<1>2. /\ IsEntries(doc) /\ IsSeq(undo) /\ IsSeq(redo)
      /\ \A s \in Snapshots : IsEntries(s.entries)
  BY DEF NInv, IInv, Typed
<1>3. {M[h] : h \in DOMAIN M} \cap Given = {}
  BY <1>1 DEF CidsAreNoDrafts, Idle
<1> DEFINE Renaming(p) == <<p[1], Pick(M, p[2])>>
<1>4. ASSUME NEW es, IsEntries(es)
      PROVE  NamesIn(Renamed(es, M)) \subseteq {Renaming(p) : p \in NamesIn(es)}
  <2> DEFINE r == Renamed(es, M)
  <2>1. DOMAIN r = DOMAIN es
        /\ \A i \in DOMAIN es : r[i].id = es[i].id /\ r[i].handle = Pick(M, es[i].handle)
    BY <1>4, RenamedForm
  <2> HIDE DEF r, M
  <2>2. ASSUME NEW i \in DOMAIN es PROVE <<r[i].id, r[i].handle>> \in {Renaming(p) : p \in NamesIn(es)}
    <3>1. <<es[i].id, es[i].handle>> \in NamesIn(es)
      BY DEF NamesIn
    <3>2. Renaming(<<es[i].id, es[i].handle>>) = <<r[i].id, r[i].handle>>
      BY <2>1
    <3>3. QED
      BY <3>1, <3>2
  <2>3. NamesIn(r) \subseteq {Renaming(p) : p \in NamesIn(es)}
    BY <2>1, <2>2 DEF NamesIn
  <2>4. QED
    BY <2>3 DEF r
<1>5. NamesIn(doc') \subseteq {Renaming(p) : p \in NamesIn(doc)}
  <2>1. NamesIn(Filed(as, save.cids)) \subseteq NamesIn(as)
    <3>1. IsEntries(as)
      BY <1>2, RenamedForm
    <3> DEFINE f == Filed(as, save.cids)
    <3> HIDE DEF as
    <3>2. DOMAIN f = DOMAIN as /\ \A i \in DOMAIN as : f[i].id = as[i].id /\ f[i].handle = as[i].handle
      BY <3>1, FiledForm
    <3> HIDE DEF f
    <3>3. NamesIn(f) \subseteq NamesIn(as)
      BY <3>2 DEF NamesIn
    <3>4. QED
      BY <3>3 DEF f
  <2>2. QED
    BY <1>1, <1>2, <1>4, <2>1
<1>6. ASSUME NEW s \in Snapshots
      PROVE  NamesIn(RenamedIn(s, M).entries) \subseteq {Renaming(p) : p \in NamesIn(s.entries)}
  <2>1. RenamedIn(s, M).entries = Renamed(s.entries, M)
    <3>1. s = [entries |-> s.entries, rev |-> s.rev]
      BY DEF NInv, IInv, Typed
    <3>2. QED
      BY <3>1 DEF RenamedIn
  <2>2. QED
    BY <1>2, <1>4, <2>1
<1>7. Snapshots' = {RenamedIn(s, M) : s \in Snapshots}
  <2> HIDE DEF M
  <2>1. Snapshots = Rng(undo) \cup Rng(redo) \cup {before}
        /\ Snapshots' = Rng(undo') \cup Rng(redo') \cup {before'}
    BY DEF Snapshots, Rng
  <2>2. Rng(undo') = {RenamedIn(s, M) : s \in Rng(undo)} /\ Rng(redo') = {RenamedIn(s, M) : s \in Rng(redo)}
    BY <1>1, <1>2, RenamedSeq
  <2>3. QED
    BY <1>1, <2>1, <2>2
<1>8. Names' \subseteq {Renaming(p) : p \in Names}
  <2> HIDE DEF M, Renaming
  <2>1. ASSUME NEW s \in States' PROVE NamesIn(s.entries) \subseteq {Renaming(p) : p \in Names}
    <3>1. CASE s \in Snapshots'
      <4>1. PICK t \in Snapshots : s = RenamedIn(t, M)
        BY <1>7, <3>1
      <4>2. NamesIn(t.entries) \subseteq Names
        BY DEF Names, States
      <4>3. QED
        BY <1>6, <4>1, <4>2
    <3>2. CASE s = Take'
      <4>1. s.entries = doc'
        BY <3>2 DEF Take
      <4>2. QED
        BY <1>5, <4>1, DocNames
    <3>3. QED
      BY <3>1, <3>2 DEF States
  <2>2. QED
    BY <2>1 DEF Names
<1>9. Ahead' = Ahead /\ Ahead \subseteq Given
  BY <1>1 DEF Ahead, Given
<1>10. ASSUME NEW p \in Names PROVE Renaming(p)[1] = p[1] /\ Renaming(p)[2] = Pick(M, p[2])
                                    /\ Renaming(p)[2] \notin Ahead /\ p[1] \notin Ahead
  <2>1. p[1] \notin Ahead /\ p[2] \notin Ahead
    BY DEF NInv, NamesApart, Apart
  <2>2. Pick(M, p[2]) \notin Ahead
    BY <1>3, <1>9, <2>1 DEF Pick
  <2>3. QED
    BY <2>1, <2>2
<1>11. Apart(Names', Ahead')
  <2> HIDE DEF Renaming, M
  <2>1. ASSUME NEW x \in Names', NEW y \in Names', x[1] = y[1] PROVE x[2] = y[2]
    <3>1. PICK p \in Names, q \in Names : x = Renaming(p) /\ y = Renaming(q)
      BY <1>8
    <3>2. p[2] = q[2]
      BY <1>10, <2>1, <3>1 DEF NInv, NamesApart, Apart
    <3>3. QED
      BY <1>10, <3>1, <3>2
  <2>2. \A x \in Names' : x[1] \notin Ahead' /\ x[2] \notin Ahead'
    BY <1>8, <1>9, <1>10
  <2>3. QED
    BY <2>1, <2>2 DEF Apart
<1>12. QED
  BY <1>1, <1>11 DEF NamesApart

LEMMA WriteDraftNames == NInv /\ WriteDraft => NamesApart'
<1> SUFFICES ASSUME NInv, WriteDraft PROVE NamesApart'
  OBVIOUS
<1>1. /\ UNCHANGED <<session, drafts>>
      /\ draft' = [i \in DOMAIN doc |-> [handle |-> doc[i].handle, node |-> doc[i].node]]
  BY DEF WriteDraft
<1>2. States' = States /\ Ahead' = Ahead
  BY <1>1 DEF States, Snapshots, Take, session, history, Ahead
<1>3. Names' = Names
  BY <1>2 DEF Names
<1>4. Handles(draft') \cap Ahead = {}
  <2>1. ASSUME NEW i \in DOMAIN doc PROVE doc[i].handle \notin Ahead
    <3>1. <<doc[i].id, doc[i].handle>> \in Names
      BY DocNames, NamesOfPlace
    <3>2. QED
      BY <3>1 DEF NInv, NamesApart, Apart
  <2>2. QED
    BY <1>1, <2>1 DEF Handles
<1>5. QED
  BY <1>2, <1>3, <1>4 DEF NInv, NamesApart

\* What is loaded or restored is who its name says.
LEMMA LoadNames ==
  ASSUME NInv, CidsAreNoDrafts, NEW offered, Load(offered), drafts' = drafts
  PROVE  NamesApart'
<1> DEFINE es == Loaded(pkg)
           known == {<<n, n>> : n \in pkg}
           ours == {<<h, h>> : h \in Handles(draft)}
<1>1. Ahead' = Ahead /\ Ahead \subseteq Given /\ pkg \cap Given = {}
  BY DEF Ahead, Given, CidsAreNoDrafts
<1>2. NamesIn(es) = known
  BY LoadedForm DEF NInv, IInv, Typed
<1>3. ASSUME NEW d, NEW snapshots, OpenWith(d, snapshots), NEW ns,
             NamesIn(d) \subseteq ns, known \subseteq ns,
             snapshots = <<>> \/ snapshots = <<[entries |-> es, rev |-> 1]>>,
             \A p \in ns : p[1] = p[2] /\ p[1] \notin Ahead
      PROVE  Apart(Names', Ahead')
  <2>1. /\ doc' = d /\ undo' = snapshots /\ redo' = <<>> /\ before' = [entries |-> d, rev |-> rev']
    BY <1>3 DEF OpenWith
  <2>2. before'.entries = d /\ Take'.entries = d
    BY <2>1 DEF Take
  <2>3. Snapshots' = Rng(undo') \cup Rng(redo') \cup {before'} /\ Rng(redo') = {}
    BY <2>1, EmptyForm DEF Snapshots, Rng
  <2>4. Rng(undo') \subseteq {[entries |-> es, rev |-> 1]}
    BY <1>3, <2>1, EmptyForm, OneForm
  <2> HIDE DEF es, known
  <2>5. \A s \in States' : s.entries = d \/ s.entries = es
    BY <2>2, <2>3, <2>4 DEF States
  <2>6. Names' \subseteq ns
    BY <1>2, <1>3, <2>5 DEF Names
  <2>7. QED
    BY <1>1, <1>3, <2>6 DEF Apart
<1>4. \A p \in known : p[1] = p[2] /\ p[1] \notin Ahead
  BY <1>1
<1>5. \/ OpenWith(es, <<>>) /\ draft' = None
      \/ /\ draft # None /\ draft' = draft
         /\ OpenWith(Restored, IF Restored = es THEN <<>> ELSE <<[entries |-> es, rev |-> 1]>>)
  BY DEF Load
<1>6. CASE OpenWith(es, <<>>) /\ draft' = None
  <2>1. Apart(Names', Ahead')
    BY <1>2, <1>3, <1>4, <1>6
  <2>2. QED
    BY <1>6, <2>1 DEF NamesApart
<1>7. CASE /\ draft # None /\ draft' = draft
           /\ OpenWith(Restored, IF Restored = es THEN <<>> ELSE <<[entries |-> es, rev |-> 1]>>)
  <2>1. NamesIn(Restored) = ours
    BY <1>7, RestoredForm DEF NInv, IInv, Typed
  <2>2. Handles(draft) \cap Ahead = {} /\ Handles(draft') = Handles(draft)
    BY <1>7 DEF NInv, NamesApart, Handles
  <2>3. \A p \in known \cup ours : p[1] = p[2] /\ p[1] \notin Ahead
    BY <1>4, <2>2
  <2> DEFINE snapshots == IF Restored = es THEN <<>> ELSE <<[entries |-> es, rev |-> 1]>>
             ns == known \cup ours
  <2>4. /\ OpenWith(Restored, snapshots) /\ NamesIn(Restored) \subseteq ns /\ known \subseteq ns
        /\ snapshots = <<>> \/ snapshots = <<[entries |-> es, rev |-> 1]>>
        /\ \A p \in ns : p[1] = p[2] /\ p[1] \notin Ahead
    BY <1>7, <2>1, <2>3
  <2> HIDE DEF snapshots, ns, known, es
  <2>5. Apart(Names', Ahead')
    BY <1>3, <2>4
  <2>6. QED
    BY <1>1, <1>7, <2>2, <2>5 DEF NamesApart
<1>8. QED
  BY <1>5, <1>6, <1>7

LEMMA StepNames == NInv /\ CidsAreNoDrafts /\ [Next]_vars => NamesApart'
<1> SUFFICES ASSUME NInv, CidsAreNoDrafts, [Next]_vars PROVE NamesApart'
  OBVIOUS
<1>1. CASE Replace \/ Add \/ RemoveNode \/ Link \/ MergeInto
  BY <1>1, ReplaceNames, AddNames, RemoveNodeNames, LinkNames, MergeIntoNames
<1>2. CASE Commit
  BY <1>2, CommitKeeps, FewerStates DEF NInv, Commit
<1>3. CASE Undo \/ Redo
  BY <1>3, UndoKeeps, RedoKeeps, FewerStates DEF NInv, Undo, Redo, Travel
<1>4. CASE SaveBegins
  BY <1>4, SaveBeginsKeeps, FewerStates DEF NInv, SaveBegins
<1>5. CASE Write \/ WriteFails \/ WriteUndone \/ SaveFailed \/ WritesLanded \/ Gone
  BY <1>5, SaveStepNames DEF NInv, Write, WriteFails, WriteUndone, SaveFailed, WritesLanded, Gone, Saves
<1>6. CASE Saved
  BY <1>6, SavedNames
<1>7. CASE WriteDraft
  BY <1>7, WriteDraftNames
<1>8. CASE Reopen \/ Crash
  BY <1>8, LoadNames DEF Reopen, Crash
<1>9. CASE UNCHANGED vars
  BY <1>9, SaveStepNames DEF NInv, vars
<1>10. QED
  BY <1>1, <1>2, <1>3, <1>4, <1>5, <1>6, <1>7, <1>8, <1>9 DEF Next

\* As long as no CID is a draft handle, a node has one name in the document and in all that can
\* be undone and redone.
LEMMA NamesStayApart == Spec /\ []CidsAreNoDrafts => []OneName
<1>1. Init /\ CidsAreNoDrafts => NamesApart
  <2> SUFFICES ASSUME Init, CidsAreNoDrafts PROVE NamesApart
    OBVIOUS
  <2>1. IInv /\ doc = Loaded(pkg) /\ undo = <<>> /\ redo = <<>> /\ before = Take /\ draft = None
    BY InitIInv DEF Init
  <2>2. States = {Take} /\ Take.entries = doc
    BY <2>1, StatesForm, EmptyForm DEF Take
  <2>3. Names = {<<n, n>> : n \in pkg}
    BY <2>1, <2>2, LoadedForm DEF Names, IInv, Typed
  <2>4. Ahead \cap pkg = {}
    BY DEF Ahead, Given, CidsAreNoDrafts
  <2>5. QED
    BY <2>1, <2>3, <2>4 DEF NamesApart, Apart
<1>2. NamesApart => OneName
  <2> SUFFICES ASSUME NamesApart, NEW s \in Snapshots \cup {Take}, NEW t \in Snapshots \cup {Take},
                      NEW i \in DOMAIN s.entries, NEW j \in DOMAIN t.entries,
                      s.entries[i].id = t.entries[j].id
               PROVE  s.entries[i].handle = t.entries[j].handle
    BY DEF OneName
  <2>1. NamesIn(s.entries) \subseteq Names /\ NamesIn(t.entries) \subseteq Names
    BY DEF Names, States
  <2>2. <<s.entries[i].id, s.entries[i].handle>> \in Names /\ <<t.entries[j].id, t.entries[j].handle>> \in Names
    BY <2>1, NamesOfPlace
  <2>3. QED
    BY <2>2 DEF NamesApart, Apart
<1>3. IInv /\ NamesApart /\ CidsAreNoDrafts /\ [Next]_vars => NamesApart'
  BY StepNames DEF NInv
<1>4. QED
  BY <1>1, <1>2, <1>3, DocumentInvariant, PTL DEF Spec

--------------------------------------------------------------------------------
(* What instances name is on disk *)

IsNode(n) == n = [c |-> n.c, refs |-> n.refs]

\* What a set of nodes contains is in it.
Whole(ns) == \A n \in ns : n.refs \subseteq ns

\* What the nodes of a revision contain is in it or in a set of names.
Within(es, ns) == \A i \in DOMAIN es : es[i].node.refs \subseteq Handles(es) \cup ns

--------------------------------------------------------------------------------

Less == {p \in Nat \X Nat : p[1] < p[2]}

LEMMA LessIsWellFounded == IsWellFoundedOn(Less, Nat)
BY NatLessThanWellFounded DEF OpToRel, Less

LEMMA LeastOf ==
  ASSUME NEW S, S \subseteq Nat, S # {}
  PROVE  \E m \in S : \A k \in S : m <= k
<1>1. PICK m \in S : \A k \in S : ~(<<k, m>> \in Less)
  BY LessIsWellFounded, WFMin
<1>2. \A k \in S : ~(k < m)
  BY <1>1 DEF Less
<1>3. QED
  BY <1>2

LEMMA GreatestOf ==
  ASSUME NEW n \in Nat, NEW S, S \subseteq 1..n, S # {}
  PROVE  Max(S) \in S
<1> DEFINE T == {n - k : k \in S}
<1>1. \A k \in S : n - k \in Nat /\ k \in Nat
  OBVIOUS
<1>2. T \subseteq Nat /\ T # {}
  BY <1>1
<1>3. PICK m \in T : \A k \in T : m <= k
  <2> HIDE DEF T
  <2>1. QED
    BY <1>2, LeastOf
<1>4. PICK x \in S : m = n - x
  BY <1>3
<1>5. \A k \in S : n - x <= n - k
  BY <1>3, <1>4
<1>6. \A k \in S : x >= k
  BY <1>1, <1>5
<1>7. QED
  BY <1>6 DEF Max

\* A step of Reached.
Deeper(all, s) == s \cup UNION {n.refs : n \in s \cap all}

LEMMA ReachedIs ==
  ASSUME NEW all, IsFiniteSet(all), all = pkg \cup other, NEW names
  PROVE  \E reach : /\ reach = [k \in 0..Cardinality(all) |->
                                  IF k = 0 THEN names ELSE Deeper(all, reach[k - 1])]
                    /\ Reached(names) = reach[Cardinality(all)]
<1> DEFINE N == Cardinality(all)
           Good(k) == \E f : f = [j \in 0..k |-> IF j = 0 THEN names ELSE Deeper(all, f[j - 1])]
           Bad == {k \in Nat : ~Good(k)}
<1>1. N \in Nat
  BY FS_CardinalityType
<1>2. Bad = {}
  <2>1. SUFFICES ASSUME Bad # {} PROVE FALSE
    OBVIOUS
  <2>2. PICK m \in Bad : \A k \in Bad : m <= k
    <3> HIDE DEF Good
    <3>1. QED
      BY <2>1, LeastOf
  <2>3. Good(0)
    <3> DEFINE f == [j \in 0..0 |-> names]
    <3>1. f = [j \in 0..0 |-> IF j = 0 THEN names ELSE Deeper(all, f[j - 1])]
      OBVIOUS
    <3>2. QED
      BY <3>1
  <2>4. m # 0 /\ m \in Nat /\ m - 1 \in Nat
    <3> HIDE DEF Good
    <3>1. QED
      BY <2>2, <2>3
  <2>5. Good(m - 1)
    <3> HIDE DEF Good
    <3>1. QED
      BY <2>2, <2>4
  <2>6. PICK f : f = [j \in 0..(m - 1) |-> IF j = 0 THEN names ELSE Deeper(all, f[j - 1])]
    BY <2>5
  <2> DEFINE g == [j \in 0..m |-> IF j = m THEN Deeper(all, f[m - 1]) ELSE f[j]]
  <2>7. \A j \in 0..m : g[j] = IF j = 0 THEN names ELSE Deeper(all, g[j - 1])
    <3>1. TAKE j \in 0..m
    <3>2. CASE j = m
      <4>1. g[j - 1] = f[m - 1] /\ g[j] = Deeper(all, f[m - 1])
        BY <3>2, <2>4
      <4>2. QED
        BY <4>1, <3>2, <2>4
    <3>3. CASE j # m
      <4>1. j \in 0..(m - 1) /\ g[j] = f[j]
        BY <3>3, <2>4
      <4>2. f[j] = IF j = 0 THEN names ELSE Deeper(all, f[j - 1])
        BY <4>1, <2>6
      <4>3. j # 0 => g[j - 1] = f[j - 1]
        BY <3>3, <4>1, <2>4
      <4>4. QED
        BY <4>1, <4>2, <4>3
    <3>4. QED
      BY <3>2, <3>3
  <2>8. g = [j \in 0..m |-> IF j = 0 THEN names ELSE Deeper(all, g[j - 1])]
    <3>1. g = [j \in 0..m |-> g[j]]
      OBVIOUS
    <3> HIDE DEF g
    <3>2. QED
      BY <2>7, <3>1
  <2>9. Good(m)
    <3> HIDE DEF g
    <3>1. QED
      BY <2>8
  <2>10. QED
    BY <2>2, <2>9
<1>3. Good(N)
  <2> HIDE DEF Good
  <2>1. QED
    BY <1>1, <1>2
<1> DEFINE reach == CHOOSE f : f = [k \in 0..N |-> IF k = 0 THEN names ELSE Deeper(all, f[k - 1])]
<1>4. reach = [k \in 0..N |-> IF k = 0 THEN names ELSE Deeper(all, reach[k - 1])]
  BY <1>3
<1>5. Reached(names) = reach[N]
  BY DEF Reached, Deeper
<1>6. QED
  <2> HIDE DEF reach
  <2>1. QED
    BY <1>4, <1>5

\* What a set that is whole names is reached from it, and nothing else is.
LEMMA ReachedWithin ==
  ASSUME IsFiniteSet(pkg \cup other), NEW ns, Whole(ns), NEW names, names \subseteq ns
  PROVE  Reached(names) \subseteq ns
<1> DEFINE all == pkg \cup other
           N == Cardinality(all)
<1>1. N \in Nat
  BY FS_CardinalityType
<1>2. PICK reach : /\ reach = [k \in 0..N |-> IF k = 0 THEN names ELSE Deeper(all, reach[k - 1])]
                   /\ Reached(names) = reach[N]
  <2> HIDE DEF all
  <2>1. all = pkg \cup other /\ IsFiniteSet(all)
    BY DEF all
  <2>2. QED
    BY <2>1, ReachedIs
<1> HIDE DEF all, N
<1> DEFINE Out == {k \in 0..N : ~(reach[k] \subseteq ns)}
<1>3. Out = {}
  <2>1. SUFFICES ASSUME Out # {} PROVE FALSE
    OBVIOUS
  <2>0. Out \subseteq Nat
    BY <1>1
  <2>2. PICK m \in Out : \A k \in Out : m <= k
    <3> HIDE DEF Out
    <3>1. QED
      BY <2>0, <2>1, LeastOf
  <2>3. m # 0
    BY <1>1, <1>2, <2>2
  <2>4. m - 1 \in 0..N /\ reach[m - 1] \subseteq ns
    BY <1>1, <2>2, <2>3
  <2>5. reach[m] = Deeper(all, reach[m - 1])
    BY <1>2, <2>2, <2>3
  <2>6. reach[m] \subseteq ns
    BY <2>4, <2>5 DEF Deeper, Whole
  <2>7. QED
    BY <2>2, <2>6
<1>4. N \in 0..N
  BY <1>1
<1>5. reach[N] \subseteq ns
  BY <1>3, <1>4
<1>6. QED
  BY <1>2, <1>5

\* The copies of a package's nodes and what contains one, elsewhere: nothing else does.
LEMMA PendingForm ==
  ASSUME NEW hs
  PROVE  /\ Pending(hs) \subseteq other
         /\ \A n \in other : n \in hs \/ n.refs \cap (hs \cup Pending(hs)) # {} => n \in Pending(hs)
<1> DEFINE lib == Pending(hs)
           Closed(s) == \A n \in other : n \in hs \/ n.refs \cap (hs \cup s) # {} => n \in s
<1>1. lib = {n \in other : \A s \in SUBSET other : Closed(s) => n \in s}
  BY DEF Pending
<1>2. ASSUME NEW n \in other, n \in hs \/ n.refs \cap (hs \cup lib) # {} PROVE n \in lib
  <2>1. SUFFICES ASSUME NEW s \in SUBSET other, Closed(s) PROVE n \in s
    BY <1>1
  <2>2. lib \subseteq s
    BY <1>1, <2>1
  <2>3. n \in hs \/ n.refs \cap (hs \cup s) # {}
    BY <1>2, <2>2
  <2>4. QED
    BY <2>1, <2>3
<1>3. QED
  BY <1>1, <1>2

\* Which entry gives a name its node.
Source(hs, h) ==
  LET same == {i \in DOMAIN doc : doc[i].handle = h}
      edited == {i \in same : doc[i].node # h}
  IN Max(IF edited = {} THEN same ELSE edited)

NodeOf(hs, h) == IF h \notin hs THEN h ELSE doc[Source(hs, h)].node

LEMMA SourceForm ==
  ASSUME IsEntries(doc), NEW h \in Handles(doc)
  PROVE  /\ Source(Handles(doc), h) \in DOMAIN doc
         /\ doc[Source(Handles(doc), h)].handle = h
<1> DEFINE same == {i \in DOMAIN doc : doc[i].handle = h}
           edited == {i \in same : doc[i].node # h}
           S == IF edited = {} THEN same ELSE edited
<1>1. Len(doc) \in Nat /\ DOMAIN doc = 1..Len(doc)
  BY EntriesForm
<1>2. same # {} /\ same \subseteq 1..Len(doc)
  BY <1>1 DEF Handles
<1>3. S # {} /\ S \subseteq same
  BY <1>2
<1>4. Source(Handles(doc), h) = Max(S)
  BY DEF Source
<1> HIDE DEF S
<1>5. Max(S) \in S
  BY <1>1, <1>2, <1>3, GreatestOf
<1>6. QED
  BY <1>3, <1>4, <1>5

\* Without a circle some node of any is named without the others.
LEMMA SomeFirst ==
  ASSUME IsEntries(doc), NEW lib, ~Circle(lib),
         NEW X, X \subseteq Handles(doc) \cup lib, X # {}
  PROVE  \E x \in X : NodeOf(Handles(doc), x).refs \cap X = {}
<1> DEFINE hs == Handles(doc)
           s == {Source(hs, h) : h \in X \cap hs}
           t == X \cap lib
           handles == {doc[i].handle : i \in s}
           Waits(node) == node.refs \cap (handles \cup t) # {}
<1>1. \A h \in X \cap hs : Source(hs, h) \in DOMAIN doc /\ doc[Source(hs, h)].handle = h
  BY SourceForm
<1>2. s \subseteq DOMAIN doc /\ t \subseteq lib /\ handles = X \cap hs
  BY <1>1
<1>3. handles \cup t = X
  BY <1>2
<1>4. s # {} \/ t # {}
  BY <1>2, <1>3
<1>5. ~(/\ \A i \in s : Waits(doc[i].node)
        /\ \A n \in t : Waits(n) \/ n \in handles)
  <2> HIDE DEF s, t
  <2>1. QED
    BY <1>2, <1>4 DEF Circle
<1> HIDE DEF handles, t
<1>6. CASE \E i \in s : ~Waits(doc[i].node)
  <2>1. PICK h \in X \cap hs : ~Waits(doc[Source(hs, h)].node)
    BY <1>6
  <2>2. NodeOf(hs, h) = doc[Source(hs, h)].node
    BY <2>1 DEF NodeOf
  <2>3. QED
    BY <1>3, <2>1, <2>2
<1>7. CASE \E n \in t : ~Waits(n) /\ n \notin handles
  <2>1. PICK n \in t : ~Waits(n) /\ n \notin handles
    BY <1>7
  <2>2. n \in X /\ n \notin hs
    BY <1>2, <1>3, <2>1
  <2>3. NodeOf(hs, n) = n
    BY <2>2 DEF NodeOf
  <2>4. QED
    BY <1>3, <2>1, <2>2, <2>3
<1>8. QED
  BY <1>5, <1>6, <1>7

\* The names a node is given, from the names of what it contains.
Made(hs, D, f, h) == [NodeOf(hs, h) EXCEPT !.refs = {IF r \in D THEN f[r] ELSE r : r \in @}]

\* They are the names of a set of nodes that contain no others.
Naming(hs, D, A, f) ==
  /\ A \subseteq D /\ \A h \in A : NodeOf(hs, h).refs \cap D \subseteq A
  /\ f = [h \in A |-> Made(hs, D, f, h)]

LEMMA MadeAlike ==
  ASSUME NEW hs, NEW D, NEW f, NEW g, NEW h, \A r \in NodeOf(hs, h).refs \cap D : f[r] = g[r]
  PROVE  Made(hs, D, f, h) = Made(hs, D, g, h)
<1> DEFINE n == NodeOf(hs, h)
           F == {IF r \in D THEN f[r] ELSE r : r \in n.refs}
           G == {IF r \in D THEN g[r] ELSE r : r \in n.refs}
<1>1. F = G
  OBVIOUS
<1>2. Made(hs, D, f, h) = [n EXCEPT !.refs = F] /\ Made(hs, D, g, h) = [n EXCEPT !.refs = G]
  BY DEF Made
<1> HIDE DEF F, G
<1>3. QED
  BY <1>1, <1>2

\* Every node of a document without a circle is given one name, and its name is made of theirs.
LEMMA NamesMade ==
  ASSUME IsEntries(doc), NEW lib, ~Circle(lib)
  PROVE  LET hs == Handles(doc)
             D == hs \cup lib
             names == NewNames(hs, lib)
         IN names = [h \in D |-> Made(hs, D, names, h)]
<1> DEFINE hs == Handles(doc)
           D == hs \cup lib
           names == CHOOSE f : f = [h \in D |-> Made(hs, D, f, h)]
           Node(h) == NodeOf(hs, h)
<1>1. \A X : X \subseteq D /\ X # {} => \E x \in X : Node(x).refs \cap X = {}
  BY SomeFirst
<1>2. NewNames(hs, lib) = names
  BY DEF NewNames, Made, NodeOf, Source
<1> SUFFICES names = [h \in D |-> Made(hs, D, names, h)]
  BY <1>2
<1> HIDE DEF hs, D
<1>3. ASSUME NEW A, NEW f, Naming(hs, D, A, f), NEW B, NEW g, Naming(hs, D, B, g), NEW h \in A \cap B
      PROVE  f[h] = g[h]
  <2> DEFINE X == {x \in A \cap B : f[x] # g[x]}
  <2>1. SUFFICES ASSUME X # {} PROVE FALSE
    BY <1>3
  <2>2. X \subseteq D
    BY <1>3 DEF Naming
  <2>3. PICK x \in X : Node(x).refs \cap X = {}
    <3> HIDE DEF X
    <3>1. QED
      BY <1>1, <2>1, <2>2
  <2>4. \A r \in Node(x).refs \cap D : f[r] = g[r]
    BY <1>3, <2>3 DEF Naming
  <2>5. Made(hs, D, f, x) = Made(hs, D, g, x)
    BY <2>4, MadeAlike
  <2>6. f[x] = Made(hs, D, f, x) /\ g[x] = Made(hs, D, g, x)
    BY <1>3, <2>3 DEF Naming
  <2>7. QED
    BY <2>3, <2>5, <2>6
<1> DEFINE Good == {A \in SUBSET D : \E f : Naming(hs, D, A, f)}
           U == UNION Good
           Fit(A) == CHOOSE f : Naming(hs, D, A, f)
           Part(h) == CHOOSE A \in Good : h \in A
           g == [h \in U |-> Fit(Part(h))[h]]
<1>4. \A A \in Good : Naming(hs, D, A, Fit(A))
  OBVIOUS
<1>5. \A h \in U : Part(h) \in Good /\ h \in Part(h)
  OBVIOUS
<1> HIDE DEF Fit, Part
<1>6. U \subseteq D /\ \A h \in U : Node(h).refs \cap D \subseteq U
  BY <1>4 DEF Naming
<1>7. \A A \in Good : \A h \in A : g[h] = Fit(A)[h]
  <2>1. TAKE A \in Good
  <2>2. TAKE h \in A
  <2>3. Naming(hs, D, A, Fit(A)) /\ h \in U
    BY <1>4
  <2>4. Naming(hs, D, Part(h), Fit(Part(h))) /\ h \in Part(h)
    BY <1>4, <1>5, <2>3
  <2>5. Fit(Part(h))[h] = Fit(A)[h]
    BY <1>3, <2>3, <2>4
  <2>6. QED
    BY <2>3, <2>5
<1>8. \A h \in U : g[h] = Made(hs, D, g, h)
  <2>1. TAKE h \in U
  <2>2. PICK A \in Good : h \in A
    OBVIOUS
  <2>3. Naming(hs, D, A, Fit(A))
    BY <1>4
  <2>4. \A r \in Node(h).refs \cap D : Fit(A)[r] = g[r]
    BY <1>7, <2>2, <2>3 DEF Naming
  <2>5. Made(hs, D, Fit(A), h) = Made(hs, D, g, h)
    BY <2>4, MadeAlike
  <2>6. Fit(A)[h] = Made(hs, D, Fit(A), h)
    BY <2>2, <2>3 DEF Naming
  <2>7. QED
    BY <1>7, <2>2, <2>5, <2>6
<1>9. U = D
  <2>1. SUFFICES ASSUME U # D PROVE FALSE
    OBVIOUS
  <2> HIDE DEF U
  <2>2. PICK x \in D \ U : Node(x).refs \cap (D \ U) = {}
    BY <1>1, <1>6, <2>1
  <2> DEFINE A == U \cup {x}
             f == [h \in A |-> IF h \in U THEN g[h] ELSE Made(hs, D, g, x)]
  <2>3. A \subseteq D /\ \A h \in A : Node(h).refs \cap D \subseteq U
    BY <1>6, <2>2
  <2>4. \A h \in U : f[h] = g[h]
    OBVIOUS
  <2>5. ASSUME NEW h \in A PROVE f[h] = Made(hs, D, f, h)
    <3>1. \A r \in Node(h).refs \cap D : g[r] = f[r]
      BY <2>3, <2>4
    <3>2. f[h] = Made(hs, D, g, h)
      BY <1>8, <2>2
    <3> HIDE DEF f
    <3>3. Made(hs, D, g, h) = Made(hs, D, f, h)
      BY <3>1, MadeAlike
    <3>4. QED
      BY <3>2, <3>3
  <2>6. f = [h \in A |-> Made(hs, D, f, h)]
    <3>1. f = [h \in A |-> f[h]]
      OBVIOUS
    <3> HIDE DEF f
    <3>2. QED
      BY <2>5, <3>1
  <2>7. Naming(hs, D, A, f)
    BY <2>3, <2>6 DEF Naming
  <2>8. A \in Good
    BY <2>3, <2>7
  <2>9. x \in U
    BY <2>8 DEF U
  <2>10. QED
    BY <2>2, <2>9
<1>10. g = [h \in D |-> Made(hs, D, g, h)]
  <2>1. g = [h \in D |-> g[h]]
    BY <1>9
  <2> HIDE DEF g
  <2>2. QED
    BY <1>8, <1>9, <2>1
<1>11. QED
  BY <1>10

\* What a plan is made of.
ClaimedBy(p) == {p.cids[i] : i \in DOMAIN p.cids}
ReplacedBy(p) == {doc[i].file : i \in {k \in DOMAIN doc : doc[k].file \notin {None, p.cids[k]}}}
Moved(lib, M) == lib \cap DOMAIN M
Landed(lib, M) == {M[n] : n \in Moved(lib, M)}

IsMapOf(M, names) == M = [h \in {x \in DOMAIN names : names[x] # x} |-> names[h]]

PlanOf(p, lib) ==
  /\ IsMapOf(p.map, NewNames(Handles(doc), lib))
  /\ ClaimedBy(p) = {Remap(doc[i].node, p.map) : i \in DOMAIN doc}
  /\ p.kept = KeepsOnDisk(p.map, loaded \ ClaimedBy(p), ReplacedBy(p))
  /\ OtherOf(p.todo) = Landed(lib, p.map) \ other
  /\ OtherOf(p.gone) = Moved(lib, p.map) \ Landed(lib, p.map)
  /\ PkgOf(p.gone) = (ReplacedBy(p) \cup (loaded \ p.kept)) \ ClaimedBy(p)
  /\ \A k \in DOMAIN inst : inst[k] \in DOMAIN p.map => <<"inst", k>> \in p.todo
  /\ \A w \in p.todo : w[1] = "inst" => w[2] \in DOMAIN inst /\ inst[w[2]] \in DOMAIN p.map
  /\ \A w \in p.gone : w = <<w[1], w[2]>> /\ w[1] # "inst"

LEMMA PlanParts ==
  ASSUME NEW lib, NEW p, p = Plan(lib)
  PROVE  PlanOf(p, lib)
<1> DEFINE names == NewNames(Handles(doc), lib)
           M == [h \in {x \in DOMAIN names : names[x] # x} |-> names[h]]
           cids == [i \in DOMAIN doc |-> Remap(doc[i].node, M)]
           claimed == {cids[i] : i \in DOMAIN doc}
           replaced == {doc[i].file : i \in {k \in DOMAIN doc : doc[k].file \notin {None, cids[k]}}}
           kept == KeepsOnDisk(M, loaded \ claimed, replaced)
           moved == lib \cap DOMAIN M
           landed == {M[n] : n \in moved}
           was == <<pkg, other, inst>>
           todo == {<<"other", n>> : n \in landed \ other} \cup {<<"pkg", n>> : n \in claimed \ pkg}
               \cup {<<"inst", k>> : k \in {x \in DOMAIN inst : inst[x] \in DOMAIN M}}
           gone == {<<"other", n>> : n \in moved \ landed}
               \cup {<<"pkg", f>> : f \in (replaced \cup (loaded \ kept)) \ claimed}
           q == [pc |-> "write", map |-> M, cids |-> cids, kept |-> kept, was |-> was, done |-> {},
                 stuck |-> FALSE, todo |-> todo, gone |-> gone]
<1>1. p = q
  BY DEF Plan, disk
<1>2. OtherOf(todo) = landed \ other
  <2> HIDE DEF claimed, landed, M
  <2>1. QED
    BY KindsApart
<1>3. PkgOf(gone) = (replaced \cup (loaded \ kept)) \ claimed /\ OtherOf(gone) = moved \ landed
      /\ \A w \in gone : w = <<w[1], w[2]>> /\ w[1] # "inst"
  <2> HIDE DEF claimed, landed, moved, M, replaced, kept
  <2> DEFINE ws == gone \cup {<<"inst", k>> : k \in {}}
  <2>1. PkgOf(ws) = (replaced \cup (loaded \ kept)) \ claimed /\ OtherOf(ws) = moved \ landed
        /\ \A w \in ws : w = <<w[1], w[2]>>
    BY KindsApart
  <2>2. ws = gone /\ \A w \in gone : w[1] # "inst"
    OBVIOUS
  <2>3. QED
    BY <2>1, <2>2
<1>4. /\ \A k \in DOMAIN inst : inst[k] \in DOMAIN M => <<"inst", k>> \in todo
      /\ \A w \in todo : w[1] = "inst" => w[2] \in DOMAIN inst /\ inst[w[2]] \in DOMAIN M
  <2> HIDE DEF claimed, landed, M
  <2>1. QED
    OBVIOUS
<1>5. claimed = {cids[i] : i \in DOMAIN cids} /\ claimed = {Remap(doc[i].node, M) : i \in DOMAIN doc}
  OBVIOUS
<1> HIDE DEF todo, gone, M, cids
<1>6. q.map = M /\ q.cids = cids /\ q.kept = kept /\ q.todo = todo /\ q.gone = gone
  OBVIOUS
<1> HIDE DEF q
<1>7. p.map = M /\ p.cids = cids /\ p.kept = kept /\ p.todo = todo /\ p.gone = gone
  BY <1>1, <1>6
<1>8. ClaimedBy(p) = claimed /\ ReplacedBy(p) = replaced
  BY <1>5, <1>7 DEF ClaimedBy, ReplacedBy
<1>9. Moved(lib, p.map) = moved /\ Landed(lib, p.map) = landed
  BY <1>7 DEF Moved, Landed
<1>10. IsMapOf(p.map, names)
  BY <1>7 DEF M, IsMapOf
<1> HIDE DEF claimed, replaced, moved, landed, names
<1>11. p.kept = KeepsOnDisk(p.map, loaded \ ClaimedBy(p), ReplacedBy(p))
  BY <1>7, <1>8 DEF kept
<1>12. PkgOf(p.gone) = (ReplacedBy(p) \cup (loaded \ p.kept)) \ ClaimedBy(p)
  BY <1>3, <1>7, <1>8
<1>13. /\ ClaimedBy(p) = {Remap(doc[i].node, p.map) : i \in DOMAIN doc}
       /\ OtherOf(p.todo) = Landed(lib, p.map) \ other
       /\ OtherOf(p.gone) = Moved(lib, p.map) \ Landed(lib, p.map)
       /\ \A k \in DOMAIN inst : inst[k] \in DOMAIN p.map => <<"inst", k>> \in p.todo
       /\ \A w \in p.todo : w[1] = "inst" => w[2] \in DOMAIN inst /\ inst[w[2]] \in DOMAIN p.map
       /\ \A w \in p.gone : w = <<w[1], w[2]>> /\ w[1] # "inst"
  BY <1>2, <1>3, <1>4, <1>5, <1>7, <1>8, <1>9
<1>14. QED
  BY <1>10, <1>11, <1>12, <1>13 DEF PlanOf, names

LEMMA RemapForm ==
  ASSUME NEW n, IsNode(n), NEW M
  PROVE  IsNode(Remap(n, M)) /\ Remap(n, M).refs = {Pick(M, r) : r \in n.refs}
<1> DEFINE c == n.c
           rs == {Pick(M, r) : r \in n.refs}
           m == Remap(n, M)
<1>1. n = [c |-> c, refs |-> n.refs]
  BY DEF IsNode
<1>2. m = [n EXCEPT !.refs = rs]
  BY DEF Remap
<1> HIDE DEF c, rs, m
<1>3. m = [c |-> c, refs |-> rs]
  BY <1>1, <1>2
<1>4. m.c = c /\ m.refs = rs
  BY <1>3
<1>5. IsNode(m)
  BY <1>3, <1>4 DEF IsNode
<1>6. QED
  BY <1>4, <1>5 DEF m, rs

\* A new name is the node's content with the new names of what it contains.
LEMMA NewNamesForm ==
  ASSUME IsEntries(doc), NEW lib, ~Circle(lib),
         NEW M, IsMapOf(M, NewNames(Handles(doc), lib))
  PROVE  /\ DOMAIN M \subseteq Handles(doc) \cup lib
         /\ \A h \in Handles(doc) : \E i \in DOMAIN doc : Pick(M, h) = Remap(doc[i].node, M)
         /\ \A n \in lib \ Handles(doc) : Pick(M, n) = Remap(n, M)
<1> DEFINE hs == Handles(doc)
           D == hs \cup lib
           names == NewNames(hs, lib)
<1>1. names = [h \in D |-> Made(hs, D, names, h)]
  BY NamesMade
<1>2. M = [h \in {x \in DOMAIN names : names[x] # x} |-> names[h]]
  BY DEF IsMapOf
<1>3. \A h \in hs : Source(hs, h) \in DOMAIN doc /\ doc[Source(hs, h)].handle = h
  BY SourceForm
<1> HIDE DEF names, hs
<1>4. DOMAIN names = D
  BY <1>1
<1>5. \A h : Pick(M, h) = IF h \in D THEN names[h] ELSE h
  BY <1>2, <1>4 DEF Pick
<1>6. ASSUME NEW h \in D PROVE Pick(M, h) = Remap(NodeOf(hs, h), M)
  <2> DEFINE n == NodeOf(hs, h)
             A == {IF r \in D THEN names[r] ELSE r : r \in n.refs}
             B == {Pick(M, r) : r \in n.refs}
  <2> HIDE DEF n
  <2>1. A = B
    BY <1>5
  <2>2. names[h] = [n EXCEPT !.refs = A]
    BY <1>1 DEF Made, n
  <2>3. Remap(n, M) = [n EXCEPT !.refs = B]
    BY DEF Remap
  <2> HIDE DEF A, B
  <2>4. names[h] = Remap(n, M)
    BY <2>1, <2>2, <2>3
  <2>5. QED
    BY <1>5, <1>6, <2>4 DEF n
<1>7. \A h \in hs : \E i \in DOMAIN doc : Pick(M, h) = Remap(doc[i].node, M)
  BY <1>3, <1>6 DEF NodeOf
<1>8. \A n \in lib \ hs : Pick(M, n) = Remap(n, M)
  BY <1>6 DEF NodeOf
<1>9. DOMAIN M \subseteq D
  BY <1>2, <1>4
<1>10. QED
  BY <1>7, <1>8, <1>9 DEF hs

\* What the plan calls the other packages' nodes, and where it puts and takes them.
LEMMA PlanNames ==
  ASSUME IsEntries(doc), \A i \in DOMAIN doc : IsNode(doc[i].node), \A n \in other : IsNode(n),
         NEW lib, lib = Pending(Handles(doc)), ~Circle(lib), NEW p, p = Plan(lib)
  PROVE  LET claimed == ClaimedBy(p)
             after == {Pick(p.map, n) : n \in other}
         IN  /\ \A h \in Handles(doc) : Pick(p.map, h) \in claimed
             /\ \A h \in DOMAIN p.map : Pick(p.map, h) \in claimed \cup after
             /\ \A n \in claimed \cup after : IsNode(n)
             /\ \A n \in other : \/ Pick(p.map, n) \in claimed
                                 \/ Pick(p.map, n).refs = {Pick(p.map, r) : r \in n.refs}
             /\ after \cap OtherOf(p.gone) = {} /\ OtherOf(p.todo) \subseteq after
             /\ other \subseteq after \cup OtherOf(p.gone) /\ after \subseteq other \cup OtherOf(p.todo)
             /\ \A k \in DOMAIN inst : inst[k] = Pick(p.map, inst[k]) \/ <<"inst", k>> \in p.todo
<1> DEFINE M == p.map
           hs == Handles(doc)
           claimed == ClaimedBy(p)
           after == {Pick(M, n) : n \in other}
           moved == lib \cap DOMAIN M
           landed == {M[n] : n \in moved}
<1>0. PlanOf(p, lib)
  BY PlanParts
<1>1. /\ IsMapOf(M, NewNames(hs, lib))
      /\ claimed = {Remap(doc[i].node, M) : i \in DOMAIN doc}
      /\ OtherOf(p.todo) = landed \ other /\ OtherOf(p.gone) = moved \ landed
      /\ \A k \in DOMAIN inst : inst[k] \in DOMAIN M => <<"inst", k>> \in p.todo
  BY <1>0 DEF PlanOf, Moved, Landed
<1>2. /\ lib \subseteq other
      /\ \A n \in other : n \in hs \/ n.refs \cap (hs \cup lib) # {} => n \in lib
  BY PendingForm
<1>3. /\ DOMAIN M \subseteq hs \cup lib
      /\ \A h \in hs : \E i \in DOMAIN doc : Pick(M, h) = Remap(doc[i].node, M)
      /\ \A n \in lib \ hs : Pick(M, n) = Remap(n, M)
  <2> HIDE DEF hs
  <2> DEFINE m == M
  <2>1. IsMapOf(m, NewNames(hs, lib))
    BY <1>1
  <2> HIDE DEF m
  <2>2. /\ DOMAIN m \subseteq hs \cup lib
        /\ \A h \in hs : \E i \in DOMAIN doc : Pick(m, h) = Remap(doc[i].node, m)
        /\ \A n \in lib \ hs : Pick(m, n) = Remap(n, m)
    BY <2>1, NewNamesForm DEF hs
  <2>3. QED
    BY <2>2 DEF m
<1> DEFINE todo == p.todo
           gone == p.gone
<1> HIDE DEF M, hs, claimed, todo, gone
<1>4. \A h : Pick(M, h) = IF h \in DOMAIN M THEN M[h] ELSE h
  BY DEF Pick
<1>5. \A h \in hs : Pick(M, h) \in claimed
  BY <1>1, <1>3
<1>6. \A h \in DOMAIN M : Pick(M, h) \in claimed \cup after
  BY <1>2, <1>3, <1>5
<1>7. other \cap DOMAIN M = moved
  BY <1>2, <1>3
<1>8. after = landed \cup (other \ DOMAIN M)
  BY <1>2, <1>4, <1>7
<1>9. /\ after \cap OtherOf(gone) = {} /\ OtherOf(todo) \subseteq after
      /\ other \subseteq after \cup OtherOf(gone) /\ after \subseteq other \cup OtherOf(todo)
  <2>1. OtherOf(todo) = landed \ other /\ OtherOf(gone) = moved \ landed
    BY <1>1 DEF todo, gone
  <2> HIDE DEF after, moved, landed
  <2>2. moved \subseteq DOMAIN M
    BY DEF moved
  <2>3. QED
    BY <1>7, <1>8, <2>1, <2>2
<1>10. \A k \in DOMAIN inst : inst[k] = Pick(M, inst[k]) \/ <<"inst", k>> \in todo
  BY <1>1, <1>4 DEF todo
<1>11. \A n \in claimed : IsNode(n)
  BY <1>1, RemapForm
<1>12. ASSUME NEW n \in other
       PROVE  /\ Pick(M, n) \in claimed \/ Pick(M, n).refs = {Pick(M, r) : r \in n.refs}
              /\ IsNode(Pick(M, n))
  <2>1. CASE n \in hs
    BY <1>5, <1>11, <2>1
  <2>2. CASE n \in lib \ hs
    <3>1. Pick(M, n) = Remap(n, M)
      BY <1>3, <2>2
    <3>2. QED
      BY <3>1, RemapForm
  <2>3. CASE n \notin lib /\ n \notin hs
    <3>1. Pick(M, n) = n
      BY <1>3, <1>4, <2>3
    <3>2. \A r \in n.refs : Pick(M, r) = r
      BY <1>2, <1>3, <1>4, <2>3
    <3>3. {Pick(M, r) : r \in n.refs} = n.refs
      BY <3>2
    <3>4. QED
      BY <3>1, <3>3
  <2>4. QED
    BY <2>1, <2>2, <2>3
<1>13. \A n \in after : IsNode(n)
  BY <1>12
<1>14. /\ \A h \in hs : Pick(M, h) \in claimed
       /\ \A h \in DOMAIN M : Pick(M, h) \in claimed \cup after
       /\ \A n \in claimed \cup after : IsNode(n)
       /\ \A n \in other : Pick(M, n) \in claimed \/ Pick(M, n).refs = {Pick(M, r) : r \in n.refs}
  BY <1>5, <1>6, <1>11, <1>12, <1>13
<1>15. QED
  BY <1>9, <1>10, <1>14 DEF M, hs, claimed, todo, gone

\* The files entries say are theirs under another name.
Foreign == {doc[i].file : i \in {k \in DOMAIN doc : doc[k].file # doc[k].handle}}

\* A file that something will name stays, is kept or is written, but for one of those.
LEMMA PlanKeeps ==
  ASSUME IsEntries(doc), \A i \in DOMAIN doc : IsNode(doc[i].node), \A n \in other : IsNode(n),
         NEW lib, lib = Pending(Handles(doc)), ~Circle(lib), NEW p, p = Plan(lib), NEW v \in pkg
  PROVE  LET claimed == ClaimedBy(p)
             after == {Pick(p.map, n) : n \in other}
             slipped == PkgOf(p.gone) \cap pkg \cap Foreign
         IN  (v = Pick(p.map, v)
                /\ v \in (UNION {Remap(n, p.map).refs : n \in other}) \cup {Pick(p.map, inst[k]) : k \in DOMAIN inst})
             => /\ v \in claimed \cup after \cup (pkg \ PkgOf(p.gone)) \cup slipped
                /\ pkg \subseteq loaded => v \in claimed \cup after \cup (pkg \cap p.kept) \cup slipped
<1> DEFINE M == p.map
           claimed == ClaimedBy(p)
           after == {Pick(M, n) : n \in other}
           slipped == PkgOf(p.gone) \cap pkg \cap Foreign
           replaced == ReplacedBy(p)
           named == (UNION {Remap(n, M).refs : n \in other}) \cup {Pick(M, inst[k]) : k \in DOMAIN inst}
<1> SUFFICES ASSUME v = Pick(M, v), v \in named
             PROVE  /\ v \in claimed \cup after \cup (pkg \ PkgOf(p.gone)) \cup slipped
                    /\ pkg \subseteq loaded => v \in claimed \cup after \cup (pkg \cap p.kept) \cup slipped
  OBVIOUS
<1>1. p.kept = KeepsOnDisk(M, loaded \ claimed, replaced)
      /\ PkgOf(p.gone) = (replaced \cup (loaded \ p.kept)) \ claimed
  BY PlanParts DEF PlanOf
<1>2. \A h \in Handles(doc) : Pick(M, h) \in claimed
  BY PlanNames
<1>3. p.kept = {f \in (loaded \ claimed) \ replaced : f \in named /\ f \notin other \ DOMAIN M}
  <2> HIDE DEF M, claimed, replaced
  <2>1. QED
    BY <1>1 DEF KeepsOnDisk
<1>4. CASE v \in Handles(doc)
  BY <1>2, <1>4
<1>5. CASE v \in other
  BY <1>5
<1>6. CASE v \notin Handles(doc) /\ v \notin other /\ v \notin claimed
  <2>1. CASE v \in replaced
    <3>1. v \in Foreign
      BY <1>6, <2>1 DEF Foreign, Handles, ReplacedBy
    <3>2. v \in PkgOf(p.gone)
      BY <1>1, <1>6, <2>1
    <3>3. QED
      BY <3>1, <3>2
  <2>2. CASE v \notin replaced /\ v \in loaded
    <3> HIDE DEF claimed, replaced, named, M
    <3>1. v \in p.kept
      BY <1>3, <1>6, <2>2
    <3>2. v \notin PkgOf(p.gone)
      BY <1>1, <2>2, <3>1
    <3>3. QED
      BY <3>1, <3>2
  <2>3. CASE v \notin replaced /\ v \notin loaded
    <3> HIDE DEF claimed, replaced, named, M
    <3>1. v \notin PkgOf(p.gone)
      BY <1>1, <2>3
    <3>2. QED
      BY <2>3, <3>1
  <2>4. QED
    BY <2>1, <2>2, <2>3
<1>7. QED
  BY <1>4, <1>5, <1>6

\* With a plan everything that will be named is there after it: what it writes, what it
\* leaves, what it keeps.
LEMMA PlanWhole ==
  ASSUME IsEntries(doc), \A i \in DOMAIN doc : IsNode(doc[i].node), \A n \in other : IsNode(n),
         NEW lib, lib = Pending(Handles(doc)), ~Circle(lib), NEW p, p = Plan(lib)
  PROVE  LET arrived == ClaimedBy(p) \cup {Pick(p.map, n) : n \in other}
             slipped == PkgOf(p.gone) \cap pkg \cap Foreign
         IN  /\ Within(doc, other) => \A n \in ClaimedBy(p) : n.refs \subseteq arrived
             /\ Within(doc, other) /\ Whole(pkg \cup other) /\ pkg \subseteq loaded =>
                  \A n \in {Pick(p.map, m) : m \in other} :
                    n.refs \subseteq arrived \cup (pkg \cap p.kept) \cup slipped
             /\ \A k \in DOMAIN inst : inst[k] \in pkg \cup other =>
                  /\ Pick(p.map, inst[k]) \in arrived \cup (pkg \ PkgOf(p.gone)) \cup slipped
                  /\ pkg \subseteq loaded =>
                       Pick(p.map, inst[k]) \in arrived \cup (pkg \cap p.kept) \cup slipped
<1> DEFINE M == p.map
           claimed == ClaimedBy(p)
           after == {Pick(M, n) : n \in other}
           arrived == claimed \cup after
           slipped == PkgOf(p.gone) \cap pkg \cap Foreign
           insts == {Pick(M, inst[k]) : k \in DOMAIN inst}
           named == (UNION {Remap(n, M).refs : n \in other}) \cup insts
<1>1. /\ \A h \in Handles(doc) : Pick(M, h) \in claimed
      /\ \A h \in DOMAIN M : Pick(M, h) \in claimed \cup after
      /\ \A n \in other : Pick(M, n) \in claimed \/ Pick(M, n).refs = {Pick(M, r) : r \in n.refs}
  BY PlanNames
<1>2. claimed = {Remap(doc[i].node, M) : i \in DOMAIN doc}
  BY PlanParts DEF PlanOf
<1>3. \A v \in pkg : v = Pick(M, v) /\ v \in named =>
        /\ v \in arrived \cup (pkg \ PkgOf(p.gone)) \cup slipped
        /\ pkg \subseteq loaded => v \in arrived \cup (pkg \cap p.kept) \cup slipped
  BY PlanKeeps
<1> HIDE DEF M, claimed, slipped
<1>4. \A h : h \in DOMAIN M \/ Pick(M, h) = h
  BY DEF Pick
<1>5. ASSUME Within(doc, other), NEW n \in claimed PROVE n.refs \subseteq arrived
  <2>1. PICK i \in DOMAIN doc : n = Remap(doc[i].node, M)
    BY <1>2, <1>5
  <2>2. n.refs = {Pick(M, r) : r \in doc[i].node.refs}
    BY <2>1, RemapForm
  <2>3. \A r \in doc[i].node.refs : Pick(M, r) \in arrived
    BY <1>1, <1>5 DEF Within
  <2>4. QED
    BY <2>2, <2>3
<1>6. ASSUME NEW u \in pkg \cup other, Pick(M, u) \in named
      PROVE  /\ Pick(M, u) \in arrived \cup (pkg \ PkgOf(p.gone)) \cup slipped
             /\ pkg \subseteq loaded => Pick(M, u) \in arrived \cup (pkg \cap p.kept) \cup slipped
  <2>1. CASE u \in other \/ u \in DOMAIN M
    BY <1>1, <2>1
  <2>2. CASE u \in pkg /\ u \notin DOMAIN M
    <3>1. Pick(M, u) = u
      BY <1>4, <2>2
    <3> HIDE DEF named, arrived
    <3>2. QED
      BY <1>3, <1>6, <2>2, <3>1
  <2>3. QED
    BY <1>6, <2>1, <2>2
<1>7. ASSUME Within(doc, other), Whole(pkg \cup other), pkg \subseteq loaded, NEW m \in other
      PROVE  Pick(M, m).refs \subseteq arrived \cup (pkg \cap p.kept) \cup slipped
  <2>1. CASE Pick(M, m) \in claimed
    BY <1>5, <1>7, <2>1
  <2>2. CASE Pick(M, m).refs = {Pick(M, r) : r \in m.refs}
    <3>1. Remap(m, M).refs = {Pick(M, r) : r \in m.refs}
      BY RemapForm
    <3>2. \A r \in m.refs : Pick(M, r) \in named
      BY <1>7, <3>1
    <3>3. \A r \in m.refs : r \in pkg \cup other
      BY <1>7 DEF Whole
    <3> HIDE DEF named, arrived
    <3>4. \A r \in m.refs : Pick(M, r) \in arrived \cup (pkg \cap p.kept) \cup slipped
      BY <1>6, <1>7, <3>2, <3>3
    <3>5. QED
      BY <2>2, <3>4
  <2>3. QED
    BY <1>1, <1>7, <2>1, <2>2
<1>8. ASSUME NEW k \in DOMAIN inst, inst[k] \in pkg \cup other
      PROVE  /\ Pick(M, inst[k]) \in arrived \cup (pkg \ PkgOf(p.gone)) \cup slipped
             /\ pkg \subseteq loaded => Pick(M, inst[k]) \in arrived \cup (pkg \cap p.kept) \cup slipped
  <2>1. Pick(M, inst[k]) \in insts
    BY <1>8, Zenon
  <2> HIDE DEF insts
  <2>2. Pick(M, inst[k]) \in named
    BY <2>1
  <2> HIDE DEF named, arrived
  <2>3. QED
    BY <1>6, <1>8, <2>2
<1>9. \A n \in after : Within(doc, other) /\ Whole(pkg \cup other) /\ pkg \subseteq loaded =>
        n.refs \subseteq arrived \cup (pkg \cap p.kept) \cup slipped
  BY <1>7
<1>10. QED
  BY <1>5, <1>8, <1>9 DEF M, claimed, slipped

--------------------------------------------------------------------------------
(* The inductive invariant of what instances name *)

Sound == ~warned /\ ~stale /\ ~cut

\* The other packages' files as the last save that ended left them.
Libs == IF save = Idle THEN other ELSE save.was[2]

\* What the other packages' nodes are called after the save, and all it leaves.
After == {Pick(save.map, n) : n \in save.was[2]}
Arrived == Claimed \cup After

\* The files a save takes away though something may name them: the finding.
Slipped == PkgOf(save.gone) \cap save.was[1] \cap Foreign

Shaped ==
  /\ IsFiniteSet(other) /\ \A n \in pkg \cup other : IsNode(n)
  /\ \A s \in States : \A i \in DOMAIN s.entries : IsNode(s.entries[i].node)
  /\ draft # None => \A i \in DOMAIN draft : IsNode(draft[i].node)

\* What the document contains, was or can be again, and the draft, is in it or elsewhere.
WorkWithin ==
  Sound => /\ \A s \in States : Within(s.entries, Libs)
           /\ draft # None => Within(draft, Libs)

Resting ==
  save = Idle =>
    /\ ~warned /\ ~stale => Named \subseteq pkg \cup other
    /\ Sound => told = {} /\ Whole(pkg \cup other)

\* A plan names and moves the other packages' nodes.
Renaming ==
  save # Idle =>
    /\ save.stuck => warned
    /\ \A w \in save.gone : w = <<w[1], w[2]>> /\ w[1] # "inst"
    /\ \A n \in After : IsNode(n)
    /\ After \cap OtherOf(save.gone) = {}
    /\ OtherOf(save.todo \cup save.done) \subseteq After

\* The instances follow what is written.
FollowingIn(was, old) ==
  /\ DOMAIN inst = DOMAIN was /\ save.was[2] \subseteq After \cup OtherOf(save.gone)
  /\ ~warned => /\ save.was[2] \subseteq other
                /\ \A k \in DOMAIN inst : inst[k] = was[k] \/ inst[k] = Pick(save.map, was[k])
  /\ save.pc = "write" =>
       /\ After \subseteq other \cup OtherOf(save.todo)
       /\ \A k \in DOMAIN inst : inst[k] = Pick(save.map, was[k]) \/ <<"inst", k>> \in save.todo
       /\ \A w \in save.todo : w[1] = "inst" =>
            w[2] \in DOMAIN inst /\ inst[w[2]] = was[w[2]] /\ was[w[2]] \in DOMAIN save.map
       /\ \A w \in save.done, v \in save.todo : Rank(w) <= Rank(v)
  /\ ~warned /\ (\E w \in save.done : w[1] = "inst") => Claimed \subseteq pkg /\ After \subseteq other
  /\ ~warned /\ ~stale => \A k \in DOMAIN was :
       was[k] \in old /\ Pick(save.map, was[k]) \in Arrived \cup (save.was[1] \ PkgOf(save.gone)) \cup Slipped
  /\ Sound =>
       /\ told = {} /\ Whole(old)
       /\ \A k \in DOMAIN was : Pick(save.map, was[k]) \in Arrived \cup (save.was[1] \cap save.kept) \cup Slipped
       /\ \A n \in Claimed : n.refs \subseteq Arrived
       /\ \A n \in After : n.refs \subseteq Arrived \cup (save.was[1] \cap save.kept) \cup Slipped

Following == save # Idle /\ save.pc # "remove" => FollowingIn(save.was[3], save.was[1] \cup save.was[2])

\* What goes is what nothing names any more.
Clearing ==
  save # Idle /\ save.pc = "remove" =>
    /\ After \subseteq other
    /\ ~warned => other \subseteq After \cup OtherOf(save.gone) \cup told
    /\ ~warned /\ ~stale => Named \subseteq Arrived \cup (pkg \ PkgOf(save.gone))
    /\ Sound => save.kept = {} /\ Named \subseteq Arrived /\ Whole(Arrived)

RInv == IInv /\ Shaped /\ WorkWithin /\ Resting /\ Renaming /\ Following /\ Clearing

LEMMA ReachedKept ==
  ASSUME RInv PROVE InstancesResolve
<1>1. IsFiniteSet(pkg \cup other)
  BY FS_Union DEF RInv, IInv, Typed, Shaped
<1>2. SUFFICES ASSUME ~warned, ~stale
               PROVE  /\ Named \subseteq pkg \cup other
                      /\ ~cut => \E ns : Named \subseteq ns /\ Whole(ns) /\ ns \subseteq pkg \cup other
  BY <1>1, ReachedWithin DEF InstancesResolve
<1>3. CASE save = Idle
  BY <1>2, <1>3 DEF RInv, Resting, Sound
<1>4. CASE save # Idle /\ save.pc = "remove"
  <2>1. Arrived \subseteq pkg \cup other
    BY <1>4 DEF RInv, IInv, Removing, Clearing, Arrived
  <2>2. Named \subseteq pkg \cup other
    BY <1>2, <1>4, <2>1 DEF RInv, Clearing
  <2>3. ~cut => Named \subseteq Arrived /\ Whole(Arrived)
    BY <1>2, <1>4 DEF RInv, Clearing, Sound
  <2>4. QED
    BY <2>1, <2>2, <2>3
<1>5. CASE save # Idle /\ save.pc # "remove"
  <2> DEFINE was == save.was[3]
             old == save.was[1] \cup save.was[2]
  <2>1. FollowingIn(was, old)
    BY <1>5 DEF RInv, Following
  <2>2. save.was[1] \subseteq pkg /\ save.was[2] \subseteq other
    BY <1>2, <1>5, <2>1 DEF RInv, IInv, Writing, FollowingIn
  <2>3. old \subseteq pkg \cup other
    BY <2>2
  <2> HIDE DEF was, old
  <2>4. DOMAIN inst = DOMAIN was
    BY <2>1 DEF FollowingIn
  <2>5. CASE \E w \in save.done : w[1] = "inst"
    <3>1. Arrived \subseteq pkg \cup other
      BY <1>2, <2>1, <2>5 DEF FollowingIn, Arrived
    <3>2. Slipped \subseteq save.was[1]
      BY DEF Slipped
    <3>3. \A k \in DOMAIN inst : inst[k] \in pkg \cup other
      BY <1>2, <2>1, <2>2, <2>3, <2>4, <3>1, <3>2 DEF FollowingIn
    <3> DEFINE ns == old \cup Arrived
    <3>4. ASSUME ~cut PROVE Named \subseteq ns /\ Whole(ns)
      <4>1. Sound
        BY <1>2, <3>4 DEF Sound
      <4>2. Slipped \cup (save.was[1] \cap save.kept) \subseteq old
        BY <3>2 DEF old
      <4>3. \A k \in DOMAIN inst : inst[k] \in ns
        BY <1>2, <2>1, <2>4, <4>1, <4>2 DEF FollowingIn
      <4>4. \A n \in Arrived : n.refs \subseteq ns
        BY <2>1, <4>1, <4>2 DEF FollowingIn, Arrived
      <4>5. Whole(old)
        BY <2>1, <4>1 DEF FollowingIn
      <4>6. Whole(ns)
        BY <4>4, <4>5 DEF Whole
      <4>7. QED
        BY <4>3, <4>6 DEF Named
    <3>5. QED
      BY <2>3, <3>1, <3>3, <3>4 DEF Named
  <2>6. CASE \A w \in save.done : w[1] # "inst"
    <3>1. ~save.stuck
      BY <1>2, <1>5 DEF RInv, Renaming
    <3>2. \A k \in DOMAIN inst : inst[k] = was[k] \/ <<"inst", k>> \in save.done
      BY <1>5, <3>1 DEF RInv, IInv, Undoable, was
    <3>3. \A k \in DOMAIN inst : inst[k] = was[k]
      <4>1. \A k : <<"inst", k>>[1] = "inst"
        OBVIOUS
      <4>2. QED
        BY <2>6, <3>2, <4>1
    <3>4. \A k \in DOMAIN inst : inst[k] \in old
      BY <1>2, <2>1, <2>4, <3>3 DEF FollowingIn
    <3>5. Named \subseteq old
      BY <3>4 DEF Named
    <3>6. ~cut => Whole(old)
      BY <1>2, <2>1 DEF FollowingIn, Sound
    <3>7. QED
      BY <2>3, <3>5, <3>6
  <2>7. QED
    BY <2>5, <2>6
<1>6. QED
  BY <1>3, <1>4, <1>5

RRest == Shaped /\ WorkWithin /\ Resting /\ Renaming /\ Following /\ Clearing

\* What the nodes of a document contain.
Refs(es) == UNION {es[i].node.refs : i \in DOMAIN es}

Proper(es) == \A i \in DOMAIN es : IsNode(es[i].node)

\* Every entry that is not the removed one stays.
LEMMA RemoveAtKeeps ==
  ASSUME NEW es, IsEntries(es), NEW i \in DOMAIN es
  PROVE  Rng(RemoveAt(es, i)) = {es[j] : j \in DOMAIN es \ {i}}
<1> DEFINE S == Rng(es)
           n == Len(es)
           a == SubSeq(es, 1, i - 1)
           b == SubSeq(es, i + 1, n)
           r == RemoveAt(es, i)
<1>1. es \in Seq(S) /\ n \in Nat /\ DOMAIN es = 1..n /\ i \in 1..n /\ \A j \in 1..n : es[j] \in S
  BY SeqForm DEF IsEntries, IsSeq
<1>2. a \in Seq(S) /\ Len(a) = i - 1 /\ \A k \in 1..(i - 1) : a[k] = es[k]
  BY <1>1, SubSeqProperties
<1>3. b \in Seq(S) /\ Len(b) = n - i /\ \A k \in 1..(n - i) : b[k] = es[i + k]
  <2> HIDE DEF n, S
  <2>1. b \in Seq(S) /\ Len(b) = (IF i + 1 <= n THEN n - (i + 1) + 1 ELSE 0)
        /\ \A k \in 1..(n - (i + 1) + 1) : b[k] = es[(i + 1) + k - 1]
    BY <1>1, SubSeqProperties
  <2> HIDE DEF b
  <2>2. n - (i + 1) + 1 = n - i /\ \A k \in 1..(n - i) : (i + 1) + k - 1 = i + k
    BY <1>1
  <2>3. Len(b) = n - i
    BY <1>1, <2>1
  <2>4. QED
    BY <2>1, <2>2, <2>3
<1> HIDE DEF a, b, n, S
<1>4. r = a \o b
  BY DEF RemoveAt, a, b, n
<1> HIDE DEF r
<1>5. r \in Seq(S) /\ Len(r) = (i - 1) + (n - i)
      /\ \A k \in 1..((i - 1) + (n - i)) : r[k] = IF k <= i - 1 THEN a[k] ELSE b[k - (i - 1)]
  <2>1. /\ a \o b \in Seq(S) /\ Len(a \o b) = Len(a) + Len(b)
        /\ \A k \in 1..(Len(a) + Len(b)) : (a \o b)[k] = IF k <= Len(a) THEN a[k] ELSE b[k - Len(a)]
    BY <1>2, <1>3, ConcatProperties
  <2>2. QED
    BY <1>2, <1>3, <1>4, <2>1
<1>6. Len(r) = n - 1 /\ DOMAIN r = 1..(n - 1)
  BY <1>1, <1>5, LenProperties
<1>7. \A k \in 1..(n - 1) : r[k] = IF k < i THEN es[k] ELSE es[k + 1]
  <2>1. TAKE k \in 1..(n - 1)
  <2>2. CASE k < i
    <3>1. r[k] = a[k] /\ k \in 1..(i - 1)
      BY <1>1, <1>5, <2>2
    <3>2. QED
      BY <1>2, <2>2, <3>1
  <2>3. CASE ~(k < i)
    <3>1. r[k] = b[k - (i - 1)] /\ k - (i - 1) \in 1..(n - i) /\ i + (k - (i - 1)) = k + 1
      BY <1>1, <1>5, <2>3
    <3>2. QED
      BY <1>3, <2>3, <3>1
  <2>4. QED
    BY <2>2, <2>3
<1>8. ASSUME NEW k \in 1..(n - 1) PROVE \E j \in DOMAIN es \ {i} : r[k] = es[j]
  <2>1. CASE k < i
    <3>1. k \in DOMAIN es \ {i}
      BY <1>1, <2>1
    <3>2. r[k] = es[k]
      BY <1>7, <2>1
    <3>3. QED
      BY <3>1, <3>2
  <2>2. CASE ~(k < i)
    <3>1. k + 1 \in DOMAIN es \ {i}
      BY <1>1, <2>2
    <3>2. r[k] = es[k + 1]
      BY <1>7, <2>2
    <3>3. QED
      BY <3>1, <3>2
  <2>3. QED
    BY <2>1, <2>2
<1>9. Rng(r) \subseteq {es[j] : j \in DOMAIN es \ {i}}
  BY <1>6, <1>8 DEF Rng
<1>10. ASSUME NEW j \in DOMAIN es \ {i} PROVE es[j] \in Rng(r)
  <2>1. CASE j < i
    BY <1>1, <1>6, <1>7, <2>1 DEF Rng
  <2>2. CASE j > i
    <3>1. j - 1 \in 1..(n - 1) /\ ~(j - 1 < i) /\ (j - 1) + 1 = j
      BY <1>1, <2>2
    <3>2. r[j - 1] = es[j]
      BY <1>7, <3>1
    <3>3. QED
      BY <1>6, <3>1, <3>2 DEF Rng
  <2>3. QED
    BY <1>1, <2>1, <2>2
<1>11. QED
  BY <1>9, <1>10 DEF r

\* Without a node what is left names it no more and otherwise what it did.
LEMMA WithoutRefs ==
  ASSUME NEW es, IsEntries(es), NEW i \in DOMAIN es, Proper(es)
  PROVE  /\ Proper(Without(es, i))
         /\ \A ns : Within(es, ns) => Within(Without(es, i), ns)
<1> DEFINE rest == RemoveAt(es, i)
           h == es[i].handle
           w == Without(es, i)
<1>1. IsEntries(rest) /\ Rng(rest) = {es[j] : j \in DOMAIN es \ {i}}
  BY RemoveAtKeeps, RemoveAtEntries
<1>2. w = [k \in DOMAIN rest |-> [rest[k] EXCEPT !.node.refs = @ \ {h}]]
  BY DEF Without
<1> HIDE DEF rest, h, w
<1>3. ASSUME NEW k \in DOMAIN w
      PROVE  /\ rest[k] \in Rng(rest) /\ w[k].handle = rest[k].handle
             /\ IsNode(w[k].node) /\ w[k].node.refs = rest[k].node.refs \ {h}
  <2>1. k \in DOMAIN rest /\ rest[k] \in Rng(rest)
    BY <1>2 DEF Rng
  <2>2. PICK j \in DOMAIN es : rest[k] = es[j]
    BY <1>1, <2>1
  <2> DEFINE a == es[j].id
             b == es[j].handle
             n == es[j].node
             d == es[j].file
             rs == n.refs \ {h}
             m == [n EXCEPT !.refs = rs]
             l == [rest[k].node EXCEPT !.refs = @ \ {h}]
  <2>3. rest[k] = [id |-> a, handle |-> b, node |-> n, file |-> d]
    BY <2>2 DEF IsEntries
  <2>4. w[k] = [rest[k] EXCEPT !.node.refs = @ \ {h}]
    BY <1>2, <2>1
  <2>5. n = [c |-> n.c, refs |-> n.refs]
    BY DEF Proper, IsNode
  <2>12. rest[k].handle = b /\ rest[k].node = n
    BY <2>2
  <2>13. w[k] = [rest[k] EXCEPT !.node = l]
    BY <2>4
  <2> HIDE DEF a, b, n, d
  <2>14. l = m
    BY <2>12
  <2> HIDE DEF l, m
  <2>6. w[k] = [id |-> a, handle |-> b, node |-> m, file |-> d]
    BY <2>3, <2>13, <2>14
  <2> DEFINE cc == n.c
  <2> HIDE DEF rs, cc
  <2>7. m = [c |-> cc, refs |-> rs]
    BY <2>5 DEF cc, m
  <2>8. m.c = cc /\ m.refs = rs
    BY <2>7
  <2> HIDE DEF m
  <2>9. w[k].handle = b /\ w[k].node = m
    BY <2>6
  <2>10. rest[k].handle = b /\ rest[k].node = n
    BY <2>3
  <2>11. QED
    BY <2>1, <2>7, <2>8, <2>9, <2>10 DEF IsNode, rs
<1>4. Proper(w)
  BY <1>3 DEF Proper
<1>5. Handles(es) \ {h} \subseteq Handles(w)
  <2>1. SUFFICES ASSUME NEW j \in DOMAIN es, es[j].handle # h PROVE es[j].handle \in Handles(w)
    BY DEF Handles
  <2>2. es[j] \in Rng(rest)
    BY <1>1, <2>1 DEF h
  <2>3. PICK k \in DOMAIN rest : rest[k] = es[j]
    BY <2>2 DEF Rng
  <2>4. k \in DOMAIN w
    BY <1>2
  <2>5. w[k].handle = es[j].handle
    BY <1>3, <2>3, <2>4
  <2>6. QED
    BY <2>4, <2>5 DEF Handles
<1>6. ASSUME NEW ns, Within(es, ns) PROVE Within(w, ns)
  <2>1. ASSUME NEW k \in DOMAIN w PROVE w[k].node.refs \subseteq Handles(w) \cup ns
    <3>1. PICK j \in DOMAIN es : rest[k] = es[j]
      BY <1>1, <1>3, <2>1
    <3>2. w[k].node.refs = es[j].node.refs \ {h}
      BY <1>3, <2>1, <3>1
    <3>3. es[j].node.refs \subseteq Handles(es) \cup ns
      BY <1>6 DEF Within
    <3>4. QED
      BY <1>5, <3>2, <3>3
  <2>2. QED
    BY <2>1 DEF Within
<1>7. QED
  BY <1>4, <1>6 DEF w

\* Other nodes in the entries, of what the document and the disk have.
LEMMA NodesChanged ==
  ASSUME NEW es, IsEntries(es), NEW X, NEW f, DOMAIN f = DOMAIN es,
         \A k \in DOMAIN es : \E n : f[k] = [es[k] EXCEPT !.node = n] /\ IsNode(n) /\ n.refs \subseteq X
  PROVE  Handles(f) = Handles(es) /\ Proper(f) /\ \A k \in DOMAIN f : f[k].node.refs \subseteq X
<1>1. ASSUME NEW k \in DOMAIN es
      PROVE  f[k].handle = es[k].handle /\ IsNode(f[k].node) /\ f[k].node.refs \subseteq X
  <2>1. PICK n : f[k] = [es[k] EXCEPT !.node = n] /\ IsNode(n) /\ n.refs \subseteq X
    OBVIOUS
  <2> DEFINE a == es[k].id
             b == es[k].handle
             m == es[k].node
             d == es[k].file
  <2>2. es[k] = [id |-> a, handle |-> b, node |-> m, file |-> d]
    BY DEF IsEntries
  <2> HIDE DEF a, b, m, d
  <2>3. f[k] = [id |-> a, handle |-> b, node |-> n, file |-> d]
    BY <2>1, <2>2
  <2>4. f[k].handle = b /\ f[k].node = n
    BY <2>3
  <2>5. QED
    BY <2>1, <2>4 DEF b
<1>2. QED
  BY <1>1 DEF Handles, Proper

LEMMA EditWithin ==
  ASSUME IsEntries(doc), Proper(doc), NEW f, DOMAIN f = DOMAIN doc,
         \A k \in DOMAIN doc : \E n : /\ f[k] = [doc[k] EXCEPT !.node = n] /\ IsNode(n)
                                      /\ n.refs \subseteq Refs(doc) \cup Handles(doc) \cup other
  PROVE  Proper(f) /\ (Within(doc, other) => Within(f, other))
<1> DEFINE X == Refs(doc) \cup Handles(doc) \cup other
<1>1. Handles(f) = Handles(doc) /\ Proper(f) /\ \A k \in DOMAIN f : f[k].node.refs \subseteq X
  <2> HIDE DEF X
  <2>1. \A k \in DOMAIN doc : \E n : f[k] = [doc[k] EXCEPT !.node = n] /\ IsNode(n) /\ n.refs \subseteq X
    BY DEF X
  <2>2. QED
    BY <2>1, NodesChanged
<1>2. Within(doc, other) => X \subseteq Handles(doc) \cup other
  BY DEF Within, Refs
<1>3. QED
  BY <1>1, <1>2 DEF Within

\* An entry of a document is itself with its own node in it.
LEMMA NodeInPlace ==
  ASSUME NEW es, IsEntries(es), NEW k \in DOMAIN es
  PROVE  es[k] = [es[k] EXCEPT !.node = es[k].node]
<1> DEFINE a == es[k].id
           b == es[k].handle
           m == es[k].node
           d == es[k].file
<1>1. es[k] = [id |-> a, handle |-> b, node |-> m, file |-> d]
  BY DEF IsEntries
<1> HIDE DEF a, b, m, d
<1>2. es[k] = [es[k] EXCEPT !.node = m]
  BY <1>1
<1>3. QED
  BY <1>2 DEF m

\* With no save at work nothing but the revisions changes.
LEMMA RestStays ==
  ASSUME RInv, save = Idle, save' = Idle, UNCHANGED <<pkg, other, inst, told, draft, cut, stale, warned>>,
         \A s \in States' : s \in States \/ (Proper(s.entries) /\ (Sound => Within(s.entries, other)))
  PROVE  RRest'
<1>1. Sound' = Sound /\ Libs = other /\ Libs' = other /\ Named' = Named
  BY DEF Sound, Libs, Named
<1>2. Shaped'
  BY DEF RInv, Shaped, Proper
<1>3. WorkWithin'
  <2>1. Sound => \A s \in States' : Within(s.entries, other)
    BY <1>1 DEF RInv, WorkWithin
  <2>2. draft' # None => Within(draft', other) <=> Within(draft, other)
    BY DEF Within, Handles
  <2>3. Sound /\ draft' # None => Within(draft', other)
    BY <1>1, <2>2 DEF RInv, WorkWithin, Within, Handles
  <2>4. QED
    BY <1>1, <2>1, <2>3 DEF WorkWithin
<1>4. Resting'
  BY <1>1 DEF RInv, Resting
<1>5. Renaming' /\ Following' /\ Clearing'
  BY DEF Renaming, Following, Clearing
<1>6. QED
  BY <1>2, <1>3, <1>4, <1>5 DEF RRest

LEMMA TouchRests ==
  ASSUME RInv, NEW es, Touch(es), Proper(es), Within(doc, other) => Within(es, other)
  PROVE  RRest'
<1>1. /\ save = Idle /\ save' = Idle /\ doc' = es
      /\ UNCHANGED <<pkg, other, inst, told, draft, cut, stale, warned, undo, redo, before>>
  BY DEF Touch, disk
<1>2. Snapshots' = Snapshots
  BY <1>1 DEF Snapshots
<1>3. States' = Snapshots \cup {Take'} /\ Take'.entries = es /\ Take \in States /\ Take.entries = doc
  BY <1>1, <1>2 DEF States, Take
<1>4. Sound => Within(doc, other)
  BY <1>1, <1>3 DEF RInv, WorkWithin, Libs
<1>5. \A s \in States' : s \in States \/ (Proper(s.entries) /\ (Sound => Within(s.entries, other)))
  BY <1>3, <1>4 DEF States
<1>6. QED
  BY <1>1, <1>5, RestStays

LEMMA DocProper == RInv => IsEntries(doc) /\ Proper(doc)
<1>1. Take \in States /\ Take.entries = doc
  BY DEF States, Take
<1>2. QED
  BY <1>1 DEF RInv, IInv, Typed, Shaped, Proper

LEMMA ReplaceRests == RInv /\ Replace => RRest'
<1> SUFFICES ASSUME RInv, Replace PROVE RRest'
  OBVIOUS
<1>1. PICK i \in DOMAIN doc : \E n \in [c : Contents, refs : SUBSET doc[i].node.refs] :
        Touch([doc EXCEPT ![i].node = n])
  BY DEF Replace
<1>2. PICK n \in [c : Contents, refs : SUBSET doc[i].node.refs] : Touch([doc EXCEPT ![i].node = n])
  BY <1>1
<1> DEFINE f == [doc EXCEPT ![i].node = n]
<1>3. IsEntries(doc) /\ Proper(doc)
  BY DocProper
<1>4. IsNode(n) /\ n.refs \subseteq Refs(doc)
  BY <1>2 DEF IsNode, Refs
<1>5. DOMAIN f = DOMAIN doc
      /\ \A k \in DOMAIN doc : f[k] = IF k = i THEN [doc[k] EXCEPT !.node = n] ELSE doc[k]
  OBVIOUS
<1>6. \A k \in DOMAIN doc : IsNode(doc[k].node) /\ doc[k].node.refs \subseteq Refs(doc)
  BY <1>3 DEF Proper, Refs
<1>7. Touch(f)
  BY <1>2
<1> HIDE DEF f
<1>8. \A k \in DOMAIN doc : \E m : /\ f[k] = [doc[k] EXCEPT !.node = m] /\ IsNode(m)
                                   /\ m.refs \subseteq Refs(doc) \cup Handles(doc) \cup other
  <2>1. TAKE k \in DOMAIN doc
  <2>2. CASE k = i
    BY <1>4, <1>5, <2>2
  <2>3. CASE k # i
    <3>1. f[k] = [doc[k] EXCEPT !.node = doc[k].node]
      BY <1>3, <1>5, <2>3, NodeInPlace
    <3>2. QED
      BY <1>6, <3>1
  <2>4. QED
    BY <2>2, <2>3
<1>9. Proper(f) /\ (Within(doc, other) => Within(f, other))
  BY <1>3, <1>5, <1>8, EditWithin
<1>10. QED
  BY <1>7, <1>9, TouchRests

LEMMA LinkRests == RInv /\ Link => RRest'
<1> SUFFICES ASSUME RInv, Link PROVE RRest'
  OBVIOUS
<1>1. PICK i \in DOMAIN doc, h \in Handles(doc) \cup other : Touch([doc EXCEPT ![i].node.refs = @ \cup {h}])
  BY DEF Link
<1> DEFINE rs == doc[i].node.refs \cup {h}
           n == [doc[i].node EXCEPT !.refs = @ \cup {h}]
           f == [doc EXCEPT ![i].node.refs = @ \cup {h}]
<1>2. IsEntries(doc) /\ Proper(doc)
  BY DocProper
<1>3. DOMAIN f = DOMAIN doc
      /\ \A k \in DOMAIN doc : f[k] = IF k = i THEN [doc[k] EXCEPT !.node = n] ELSE doc[k]
  OBVIOUS
<1>4. \A k \in DOMAIN doc : IsNode(doc[k].node) /\ doc[k].node.refs \subseteq Refs(doc)
  BY <1>2 DEF Proper, Refs
<1>5. IsNode(n) /\ n.refs = rs
  <2> DEFINE cc == doc[i].node.c
             old == doc[i].node.refs
  <2>1. doc[i].node = [c |-> cc, refs |-> old]
    BY <1>4 DEF IsNode
  <2> HIDE DEF cc, old
  <2>2. n = [c |-> cc, refs |-> old \cup {h}]
    BY <2>1
  <2>3. n.c = cc /\ n.refs = old \cup {h}
    BY <2>2
  <2> HIDE DEF n
  <2>4. QED
    BY <2>2, <2>3 DEF IsNode, old
<1>6. rs \subseteq Refs(doc) \cup Handles(doc) \cup other
  BY <1>1, <1>4
<1>7. Touch(f)
  BY <1>1
<1> HIDE DEF f, n, rs
<1>8. \A k \in DOMAIN doc : \E m : /\ f[k] = [doc[k] EXCEPT !.node = m] /\ IsNode(m)
                                   /\ m.refs \subseteq Refs(doc) \cup Handles(doc) \cup other
  <2>1. TAKE k \in DOMAIN doc
  <2>2. CASE k = i
    BY <1>3, <1>5, <1>6, <2>2
  <2>3. CASE k # i
    <3>1. f[k] = [doc[k] EXCEPT !.node = doc[k].node]
      BY <1>2, <1>3, <2>3, NodeInPlace
    <3>2. QED
      BY <1>4, <3>1
  <2>4. QED
    BY <2>2, <2>3
<1>9. Proper(f) /\ (Within(doc, other) => Within(f, other))
  BY <1>2, <1>3, <1>8, EditWithin
<1>10. QED
  BY <1>7, <1>9, TouchRests

LEMMA RemoveNodeRests == RInv /\ RemoveNode => RRest'
<1> SUFFICES ASSUME RInv, RemoveNode PROVE RRest'
  OBVIOUS
<1>1. PICK i \in DOMAIN doc : Touch(Without(doc, i))
  BY DEF RemoveNode
<1>2. IsEntries(doc) /\ Proper(doc)
  BY DocProper
<1>3. Proper(Without(doc, i)) /\ (Within(doc, other) => Within(Without(doc, i), other))
  BY <1>2, WithoutRefs
<1>4. QED
  BY <1>1, <1>3, TouchRests

LEMMA AddRests == RInv /\ Add => RRest'
<1> SUFFICES ASSUME RInv, Add PROVE RRest'
  OBVIOUS
<1>1. PICK c \in Contents :
        Touch(Append(doc, [id |-> Drafts[drafts'], handle |-> Drafts[drafts'],
                           node |-> [c |-> c, refs |-> {}], file |-> None]))
  BY DEF Add
<1> DEFINE d == Drafts[drafts']
           n == [c |-> c, refs |-> {}]
           e == [id |-> d, handle |-> d, node |-> n, file |-> None]
           f == Append(doc, e)
<1>2. IsEntries(doc) /\ Proper(doc)
  BY DocProper
<1>3. IsNode(n) /\ n.refs = {} /\ e.node = n
  BY DEF IsNode
<1>4. Touch(f)
  BY <1>1
<1> HIDE DEF n, e
<1>5. Rng(f) = Rng(doc) \cup {e}
  BY <1>2, AppendForm DEF IsEntries
<1> HIDE DEF f
<1>6. Handles(doc) \subseteq Handles(f)
  <2>1. ASSUME NEW i \in DOMAIN doc PROVE doc[i].handle \in Handles(f)
    <3>1. doc[i] \in Rng(f)
      BY <1>5 DEF Rng
    <3>2. QED
      BY <3>1 DEF Rng, Handles
  <2>2. QED
    BY <2>1 DEF Handles
<1>7. \A i \in DOMAIN f : f[i] = e \/ \E j \in DOMAIN doc : f[i] = doc[j]
  BY <1>5 DEF Rng
<1>8. Proper(f)
  BY <1>2, <1>3, <1>7 DEF Proper
<1>9. Within(doc, other) => Within(f, other)
  BY <1>3, <1>6, <1>7 DEF Within
<1>10. QED
  BY <1>4, <1>8, <1>9, TouchRests

LEMMA MergeIntoRests == RInv /\ MergeInto => RRest'
<1> SUFFICES ASSUME RInv, MergeInto PROVE RRest'
  OBVIOUS
<1>1. IsEntries(doc) /\ Proper(doc)
  BY DocProper
<1>2. PICK from \in DOMAIN doc, into \in DOMAIN doc, c \in Contents :
       LET hf == doc[from].handle
           hi == doc[into].handle
           src == [doc EXCEPT ![from].node.refs = @ \ {hi}]
           Rewired(refs) == IF hf \in refs THEN (refs \ {hf}) \cup {hi} ELSE refs
           merged == [k \in DOMAIN doc |->
             IF k = into
             THEN [doc[k] EXCEPT !.node = [c |-> c, refs |-> @.refs \cup (src[from].node.refs \ {hf})]]
             ELSE [doc[k] EXCEPT !.node.refs = Rewired(@)]]
       IN Touch(Without(merged, from))
  BY DEF MergeInto
<1> DEFINE hf == doc[from].handle
           hi == doc[into].handle
           src == [doc EXCEPT ![from].node.refs = @ \ {hi}]
           more == src[from].node.refs \ {hf}
           Rewired(refs) == IF hf \in refs THEN (refs \ {hf}) \cup {hi} ELSE refs
           A(k) == [c |-> c, refs |-> doc[k].node.refs \cup more]
           B(k) == [doc[k].node EXCEPT !.refs = Rewired(@)]
           f == [k \in DOMAIN doc |-> IF k = into THEN [doc[k] EXCEPT !.node = A(k)]
                                      ELSE [doc[k] EXCEPT !.node = B(k)]]
           X == Refs(doc) \cup Handles(doc) \cup other
<1>3. Touch(Without(f, from))
  BY <1>2
<1>4. \A k \in DOMAIN doc : IsNode(doc[k].node) /\ doc[k].node.refs \subseteq Refs(doc)
  BY <1>1 DEF Proper, Refs
<1>5. more \subseteq Refs(doc)
  <2> DEFINE n == doc[from].node
             m == [n EXCEPT !.refs = @ \ {hi}]
             rs == n.refs \ {hi}
             cc == n.c
  <2>1. src[from] = [doc[from] EXCEPT !.node = m]
    OBVIOUS
  <2>2. n = [c |-> cc, refs |-> n.refs] /\ n.refs \subseteq Refs(doc)
    BY <1>4 DEF IsNode
  <2> DEFINE a == doc[from].id
             b == doc[from].handle
             d == doc[from].file
  <2>3. doc[from] = [id |-> a, handle |-> b, node |-> n, file |-> d]
    BY <1>1 DEF IsEntries
  <2>4. m = [n EXCEPT !.refs = rs]
    OBVIOUS
  <2>5. rs \subseteq Refs(doc)
    BY <2>2
  <2> HIDE DEF m, src, a, b, d, n, rs, cc
  <2>6. src[from].node = m
    BY <2>1, <2>3
  <2>7. m.refs = rs
    BY <2>2, <2>4
  <2>8. QED
    BY <2>5, <2>6, <2>7
<1>6. ASSUME NEW k \in DOMAIN doc PROVE IsNode(A(k)) /\ A(k).refs \subseteq X
  <2> DEFINE rs == doc[k].node.refs \cup more
             m == [c |-> c, refs |-> rs]
  <2>1. rs \subseteq X
    BY <1>4, <1>5
  <2> HIDE DEF rs
  <2>2. m.c = c /\ m.refs = rs
    OBVIOUS
  <2>3. IsNode(m)
    BY <2>2 DEF IsNode
  <2>4. A(k) = m
    BY DEF rs
  <2> HIDE DEF m, X, A
  <2>5. QED
    BY <2>1, <2>2, <2>3, <2>4
<1>7. ASSUME NEW k \in DOMAIN doc PROVE IsNode(B(k)) /\ B(k).refs \subseteq X
  <2> DEFINE n == doc[k].node
             rs == Rewired(n.refs)
             cc == n.c
  <2>1. n = [c |-> cc, refs |-> n.refs] /\ n.refs \subseteq Refs(doc)
    BY <1>4 DEF IsNode
  <2>2. hi \in Handles(doc)
    BY DEF Handles
  <2>3. rs \subseteq X
    BY <2>1, <2>2
  <2>4. B(k) = [n EXCEPT !.refs = rs]
    OBVIOUS
  <2> HIDE DEF n, rs, cc, B, X, Rewired
  <2>5. B(k) = [c |-> cc, refs |-> rs]
    BY <2>1, <2>4
  <2>6. B(k).c = cc /\ B(k).refs = rs
    BY <2>5
  <2>7. QED
    BY <2>3, <2>5, <2>6 DEF IsNode
<1> HIDE DEF A, B, X, more
<1>8. DOMAIN f = DOMAIN doc
      /\ \A k \in DOMAIN doc : f[k] = [doc[k] EXCEPT !.node = A(k)] \/ f[k] = [doc[k] EXCEPT !.node = B(k)]
  OBVIOUS
<1> HIDE DEF f
<1>9. \A k \in DOMAIN doc : \E n : f[k] = [doc[k] EXCEPT !.node = n] /\ IsNode(n) /\ n.refs \subseteq X
  BY <1>6, <1>7, <1>8
<1>10. Proper(f) /\ (Within(doc, other) => Within(f, other))
  BY <1>1, <1>8, <1>9, EditWithin DEF X
<1>11. IsEntries(f)
  <2>1. ASSUME NEW k \in DOMAIN doc
        PROVE  f[k] = [id |-> f[k].id, handle |-> f[k].handle, node |-> f[k].node, file |-> f[k].file]
    <3>1. PICK n : f[k] = [doc[k] EXCEPT !.node = n]
      BY <1>9
    <3>2. doc[k] = [id |-> doc[k].id, handle |-> doc[k].handle, node |-> doc[k].node, file |-> doc[k].file]
      BY <1>1 DEF IsEntries
    <3> DEFINE x == [doc[k] EXCEPT !.node = n]
    <3>3. x = [id |-> x.id, handle |-> x.handle, node |-> x.node, file |-> x.file]
      BY <3>2, NodeReplaced
    <3> HIDE DEF x
    <3>4. f[k] = x
      BY <3>1 DEF x
    <3>5. QED
      BY <3>3, <3>4
  <2>2. Len(doc) \in Nat /\ DOMAIN doc = 1..Len(doc)
    BY <1>1, EntriesForm
  <2>3. f = [k \in 1..Len(doc) |-> f[k]]
    BY <1>8, <2>2 DEF f
  <2>4. QED
    BY <2>1, <2>2, <2>3, EntriesFrom
<1>12. Proper(Without(f, from)) /\ (Within(f, other) => Within(Without(f, from), other))
  BY <1>8, <1>10, <1>11, WithoutRefs
<1>13. QED
  BY <1>3, <1>10, <1>12, TouchRests

\* A step among the revisions there are.
LEMMA FewerRests ==
  ASSUME RInv, save = Idle, save' = Idle, UNCHANGED <<pkg, other, inst, told, draft, cut, stale, warned>>,
         States' \subseteq States
  PROVE  RRest'
BY RestStays

LEMMA HistoryRests == RInv /\ (Commit \/ Undo \/ Redo) => RRest'
<1> SUFFICES ASSUME RInv, Commit \/ Undo \/ Redo PROVE RRest'
  OBVIOUS
<1>1. /\ save = Idle /\ save' = Idle /\ UNCHANGED <<pkg, other, inst, told, draft, cut, stale, warned>>
  BY DEF Commit, Undo, Redo, Travel, disk
<1>2. States' \subseteq States
  BY CommitKeeps, UndoKeeps, RedoKeeps DEF RInv
<1>3. QED
  BY <1>1, <1>2, FewerRests

LEMMA SaveBeginsRests == RInv /\ SaveBegins => RRest'
<1> SUFFICES ASSUME RInv, SaveBegins PROVE RRest'
  OBVIOUS
<1>1. save = Idle /\ UNCHANGED <<pkg, other, inst, doc, told, draft, cut, stale, warned>>
  BY DEF SaveBegins, disk
<1>2. States' \subseteq States
  BY SaveBeginsKeeps DEF RInv
<1>3. CASE save' = Idle
  BY <1>1, <1>2, <1>3, FewerRests
<1>4. CASE save' # Idle
  <2>1. \E lib : lib = Pending(Handles(doc)) /\ ~Circle(lib) /\ save' = Plan(lib)
    BY <1>1, <1>4 DEF SaveBegins
  <2>2. PICK lib : lib = Pending(Handles(doc)) /\ ~Circle(lib) /\ save' = Plan(lib)
    BY <2>1
  <2>3. PICK p : p = Plan(lib)
    OBVIOUS
  <2>4. save' = p
    BY <2>2, <2>3
  <2>5. p.pc = "write" /\ p.done = {} /\ p.stuck = FALSE /\ p.was = <<pkg, other, inst>>
    BY <2>3, PlanForm
  <2>6. p.was[1] = pkg /\ p.was[2] = other /\ p.was[3] = inst
    BY <2>5
  <2>7. IsEntries(doc) /\ (\A i \in DOMAIN doc : IsNode(doc[i].node)) /\ (\A n \in other : IsNode(n))
    BY DocProper DEF Proper, RInv, Shaped
  <2> DEFINE after == {Pick(p.map, n) : n \in other}
             arrived == ClaimedBy(p) \cup after
             slipped == PkgOf(p.gone) \cap pkg \cap Foreign
  <2>8. /\ \A n \in after : IsNode(n)
        /\ after \cap OtherOf(p.gone) = {} /\ OtherOf(p.todo) \subseteq after
        /\ other \subseteq after \cup OtherOf(p.gone) /\ after \subseteq other \cup OtherOf(p.todo)
        /\ \A k \in DOMAIN inst : inst[k] = Pick(p.map, inst[k]) \/ <<"inst", k>> \in p.todo
    BY <2>2, <2>3, <2>7, PlanNames
  <2>9. /\ Within(doc, other) => \A n \in ClaimedBy(p) : n.refs \subseteq arrived
        /\ Within(doc, other) /\ Whole(pkg \cup other) /\ pkg \subseteq loaded =>
             \A n \in after : n.refs \subseteq arrived \cup (pkg \cap p.kept) \cup slipped
        /\ \A k \in DOMAIN inst : inst[k] \in pkg \cup other =>
             /\ Pick(p.map, inst[k]) \in arrived \cup (pkg \ PkgOf(p.gone)) \cup slipped
             /\ pkg \subseteq loaded =>
                  Pick(p.map, inst[k]) \in arrived \cup (pkg \cap p.kept) \cup slipped
    BY <2>2, <2>3, <2>7, PlanWhole
  <2>10. Claimed' = ClaimedBy(p) /\ After' = after /\ Foreign' = Foreign
    BY <1>1, <2>4, <2>6 DEF Claimed, ClaimedBy, After, Foreign
  <2> HIDE DEF after
  <2>11. Arrived' = arrived /\ Slipped' = slipped
    BY <1>1, <2>4, <2>6, <2>10 DEF Arrived, Slipped
  <2> HIDE DEF arrived, slipped
  <2>12. Sound' = Sound /\ Libs = other /\ Libs' = other
    BY <1>1, <1>4, <2>4, <2>6 DEF Sound, Libs
  <2>13. Shaped'
    BY <1>1, <1>2 DEF RInv, Shaped
  <2>14. WorkWithin'
    <3>1. Sound => (draft' # None => Within(draft', other))
      BY <1>1, <2>12 DEF RInv, WorkWithin, Within, Handles
    <3>2. QED
      BY <1>2, <2>12, <3>1 DEF RInv, WorkWithin
  <2>15. Resting'
    BY <1>4 DEF Resting
  <2>16. Renaming'
    <3>1. OtherOf(p.todo \cup p.done) = OtherOf(p.todo)
      BY <2>5
    <3>2. \A w \in p.gone : w = <<w[1], w[2]>> /\ w[1] # "inst"
      BY <2>3, PlanParts DEF PlanOf
    <3>3. QED
      BY <2>4, <2>5, <2>8, <2>10, <3>1, <3>2 DEF Renaming
  <2>17. Clearing'
    BY <2>4, <2>5 DEF Clearing
  <2>18. FollowingIn(inst, pkg \cup other)'
    <3>1. /\ (DOMAIN inst)' = (DOMAIN inst) /\ save'.was[2] \subseteq After' \cup OtherOf(save'.gone)
          /\ save'.was[2] \subseteq other'
      BY <1>1, <2>4, <2>6, <2>8, <2>10
    <3>2. After' \subseteq other' \cup OtherOf(save'.todo)
      BY <1>1, <2>4, <2>8, <2>10
    <3>3. \A k \in DOMAIN inst' : inst'[k] = Pick(save'.map, inst'[k]) \/ <<"inst", k>> \in save'.todo
      BY <1>1, <2>4, <2>8
    <3>8. \A w \in save'.todo : w[1] = "inst" =>
            w[2] \in DOMAIN inst' /\ inst'[w[2]] \in DOMAIN save'.map
      <4>1. \A w \in p.todo : w[1] = "inst" => w[2] \in DOMAIN inst /\ inst[w[2]] \in DOMAIN p.map
        BY <2>3, PlanParts DEF PlanOf
      <4>2. QED
        BY <1>1, <2>4, <4>1
    <3>4. save'.done = {}
      BY <2>4, <2>5
    <3>5. ~warned /\ ~stale => \A k \in DOMAIN inst' :
             /\ inst'[k] \in (pkg \cup other)'
             /\ Pick(save'.map, inst'[k]) \in Arrived' \cup (save'.was[1] \ PkgOf(save'.gone)) \cup Slipped'
      <4>1. ~warned /\ ~stale => \A k \in DOMAIN inst : inst[k] \in pkg \cup other
        BY <1>1 DEF RInv, Resting, Named
      <4>2. QED
        BY <1>1, <2>4, <2>6, <2>9, <2>11, <4>1
    <3>6. ASSUME Sound
          PROVE  /\ told' = {} /\ Whole((pkg \cup other)')
                 /\ \A k \in DOMAIN inst' :
                      Pick(save'.map, inst'[k]) \in Arrived' \cup (save'.was[1] \cap save'.kept) \cup Slipped'
                 /\ \A n \in Claimed' : n.refs \subseteq Arrived'
                 /\ \A n \in After' : n.refs \subseteq Arrived' \cup (save'.was[1] \cap save'.kept) \cup Slipped'
      <4>1. told = {} /\ Whole(pkg \cup other) /\ \A k \in DOMAIN inst : inst[k] \in pkg \cup other
        BY <1>1, <3>6 DEF RInv, Resting, Named, Sound
      <4>2. pkg \subseteq loaded
        BY <1>1, <4>1 DEF RInv, IInv, SavedKept, Base
      <4>3. Within(doc, other)
        <5>1. Take \in States /\ Take.entries = doc
          BY DEF States, Take
        <5>2. QED
          BY <2>12, <3>6, <5>1 DEF RInv, WorkWithin
      <4>4. QED
        BY <1>1, <2>4, <2>6, <2>9, <2>10, <2>11, <4>1, <4>2, <4>3
    <3>7. QED
      BY <1>1, <2>12, <3>1, <3>2, <3>3, <3>4, <3>5, <3>6, <3>8 DEF FollowingIn
  <2>19. Following'
    BY <1>1, <2>4, <2>6, <2>18 DEF Following
  <2>20. QED
    BY <2>13, <2>14, <2>15, <2>16, <2>17, <2>19 DEF RRest
<1>5. QED
  BY <1>3, <1>4

--------------------------------------------------------------------------------
(* What instances name, at each step of a save *)

\* Of a save at work its plan stays.
LEMMA PlanHolds ==
  ASSUME UNCHANGED session, NEW pc, NEW todo, NEW done, NEW stuck, NEW gone, save # Idle, save' # Idle,
         save' = At(pc, todo, done, stuck, gone)
  PROVE  /\ save'.map = save.map /\ save'.cids = save.cids /\ save'.kept = save.kept
         /\ save'.was = save.was /\ save'.pc = pc /\ save'.todo = todo /\ save'.done = done
         /\ save'.stuck = stuck /\ save'.gone = gone
         /\ Claimed' = Claimed /\ After' = After /\ Arrived' = Arrived /\ Foreign' = Foreign
         /\ States' = States /\ Libs' = Libs
<1> DEFINE a == save.map
           b == save.cids
           c == save.kept
           d == save.was
           t == [pc |-> pc, map |-> a, cids |-> b, kept |-> c, was |-> d, done |-> done,
                 stuck |-> stuck, todo |-> todo, gone |-> gone]
<1>1. save' = t
  BY DEF At
<1> HIDE DEF a, b, c, d
<1>2. /\ t.pc = pc /\ t.todo = todo /\ t.done = done /\ t.stuck = stuck
      /\ t.gone = gone /\ t.map = a /\ t.cids = b /\ t.kept = c /\ t.was = d
  OBVIOUS
<1> HIDE DEF t
<1>3. /\ save'.map = save.map /\ save'.cids = save.cids /\ save'.kept = save.kept
      /\ save'.was = save.was /\ save'.pc = pc /\ save'.todo = todo /\ save'.done = done
      /\ save'.stuck = stuck /\ save'.gone = gone
  BY <1>1, <1>2 DEF a, b, c, d
<1>4. UNCHANGED <<doc, rev, undo, redo, before>>
  BY DEF session, history
<1>5. Claimed' = Claimed /\ Foreign' = Foreign
  BY <1>3, <1>4 DEF Claimed, Foreign
<1>6. After' = After
  BY <1>3 DEF After
<1>7. States' = States
  BY <1>4 DEF States, Snapshots, Take
<1>8. Libs' = Libs
  BY <1>3 DEF Libs
<1>9. QED
  BY <1>3, <1>5, <1>6, <1>7, <1>8 DEF Arrived

\* While it does, what the document contains is where it was.
LEMMA WorkStays ==
  ASSUME RInv, States' = States, Libs' = Libs, draft' = draft, Sound' => Sound
  PROVE  WorkWithin'
<1>1. draft' # None => (Within(draft', Libs') <=> Within(draft, Libs))
  BY DEF Within, Handles
<1>2. QED
  BY <1>1 DEF RInv, WorkWithin

\* The files stay nodes, and the document's.
LEMMA ShapedStays ==
  ASSUME RInv, States' = States, draft' = draft, IsFiniteSet(other'), \A n \in pkg' \cup other' : IsNode(n)
  PROVE  Shaped'
BY DEF RInv, Shaped

LEMMA ClaimedForm ==
  ASSUME RInv, save # Idle
  PROVE  \A n \in Claimed : IsNode(n)
<1>1. /\ save.cids = [i \in DOMAIN doc |-> Remap(doc[i].node, save.map)]
  BY DEF RInv, IInv, Planned
<1>2. \A i \in DOMAIN doc : IsNode(doc[i].node)
  BY DocProper DEF Proper
<1>3. QED
  BY <1>1, <1>2, RemapForm DEF Claimed

LEMMA RankForm ==
  ASSUME NEW w, w[1] \in {"pkg", "other", "inst"}
  PROVE  /\ Rank(w) \in 1..3 /\ (Rank(w) = 3 <=> w[1] = "inst")
BY DEF Rank

LEMMA WriteRests == RInv /\ Write => RRest'
<1> SUFFICES ASSUME RInv, Write PROVE RRest'
  OBVIOUS
<1>1. Saves("write") /\ UNCHANGED <<told, cut, stale, warned, draft>>
  BY DEF Write, Saves
<1>2. PICK w \in save.todo : /\ OnDisk(w) /\ save' = [save EXCEPT !.todo = @ \ {w}, !.done = @ \cup {w}]
                             /\ \A v \in save.todo : Rank(w) <= Rank(v)
  BY DEF Write
<1>3. save # Idle /\ IsPlan(save) /\ UNCHANGED session /\ save.pc = "write" /\ save' # Idle
  <2>1. save # Idle /\ IsPlan(save) /\ UNCHANGED session /\ save.pc = "write"
    BY <1>1, AtWork DEF RInv, IInv, Saves
  <2> DEFINE s == [save EXCEPT !.todo = @ \ {w}, !.done = @ \cup {w}]
  <2>2. s.pc = "write" /\ s.todo = save.todo \ {w}
    BY <2>1 DEF IsPlan
  <2> HIDE DEF s
  <2>3. s # Idle
    BY <2>2 DEF Idle
  <2>4. QED
    BY <1>2, <2>1, <2>3 DEF s
<1> DEFINE todo == save.todo \ {w}
           done == save.done \cup {w}
           was == save.was[3]
           old == save.was[1] \cup save.was[2]
<1>4. save' = At("write", todo, done, save.stuck, save.gone)
  BY <1>2, <1>3 DEF At, IsPlan
<1>5. /\ save'.map = save.map /\ save'.kept = save.kept /\ save'.was = save.was /\ save'.pc = "write"
      /\ save'.todo = todo /\ save'.done = done /\ save'.stuck = save.stuck /\ save'.gone = save.gone
      /\ Claimed' = Claimed /\ After' = After /\ Arrived' = Arrived /\ Foreign' = Foreign
      /\ States' = States /\ Libs' = Libs
  BY <1>3, <1>4, PlanHolds
<1>6. (\A v \in save.todo \cup save.done : v = <<v[1], v[2]>> /\ v[1] \in {"pkg", "other", "inst"})
  BY <1>3 DEF RInv, IInv, Planned
<1>7. /\ w[1] = "pkg" => w[2] \in PkgOf(save.todo)
      /\ w[1] = "other" => w[2] \in OtherOf(save.todo) /\ OtherOf(todo) = OtherOf(save.todo) \ {w[2]}
      /\ w[1] # "other" => OtherOf(todo) = OtherOf(save.todo)
  BY <1>6, PairsOf, PairsLess
<1>8. /\ PkgOf(save.todo) \subseteq Claimed /\ OtherOf(save.todo) \subseteq After
      /\ Claimed \subseteq pkg \cup PkgOf(save.todo)
  <2>1. PkgOf(save.todo) \subseteq PkgOf(save.todo \cup save.done)
        /\ OtherOf(save.todo) \subseteq OtherOf(save.todo \cup save.done)
    BY DEF PkgOf, OtherOf
  <2>2. QED
    BY <1>3, <2>1 DEF RInv, IInv, Planned, Renaming, Writing
<1>9. FollowingIn(was, old)
  BY <1>3 DEF RInv, Following
<1>10. /\ pkg' = IF w[1] = "pkg" THEN pkg \cup {w[2]} ELSE pkg
       /\ other' = IF w[1] = "other" THEN other \cup {w[2]} ELSE other
       /\ inst' = IF w[1] = "inst" THEN [inst EXCEPT ![w[2]] = save.map[@]] ELSE inst
  BY <1>2 DEF OnDisk
<1>11. Sound' = Sound /\ Slipped' = Slipped /\ told' = told /\ warned' = warned /\ stale' = stale
  BY <1>1, <1>5 DEF Sound, Slipped
<1> USE DEF old, was
<1> HIDE DEF todo, done
<1>12. todo \subseteq save.todo /\ todo \cup done = save.todo \cup save.done /\ w \in done /\ done = save.done \cup {w}
  BY DEF todo, done
<1>13. Shaped'
  <2>1. \A n \in pkg' \cup other' : IsNode(n)
    <3>1. (\A n \in pkg \cup other : IsNode(n)) /\ (\A n \in Claimed : IsNode(n)) /\ (\A n \in After : IsNode(n))
      BY <1>3, ClaimedForm DEF RInv, Shaped, Renaming
    <3>2. pkg' \subseteq pkg \cup Claimed /\ other' \subseteq other \cup After
      BY <1>7, <1>8, <1>10
    <3>3. QED
      BY <3>1, <3>2
  <2>2. IsFiniteSet(other')
    BY <1>10, FS_AddElement DEF RInv, Shaped
  <2>3. QED
    BY <1>1, <1>5, <2>1, <2>2, ShapedStays
<1>14. WorkWithin'
  BY <1>1, <1>5, <1>11, WorkStays
<1>15. Resting' /\ Clearing'
  BY <1>3, <1>5 DEF Resting, Clearing
<1>16. Renaming'
  BY <1>3, <1>5, <1>11, <1>12 DEF RInv, Renaming
<1>17. w[1] = "inst" => inst[w[2]] = was[w[2]] /\ was[w[2]] \in DOMAIN save.map /\ w[2] \in DOMAIN inst
  BY <1>3, <1>9 DEF FollowingIn
<1>18. /\ DOMAIN inst' = DOMAIN inst
       /\ \A k \in DOMAIN inst : IF w[1] = "inst" /\ k = w[2] THEN inst'[k] = Pick(save.map, was[k]) ELSE inst'[k] = inst[k]
  BY <1>10, <1>17 DEF Pick
<1>19. w[1] = "inst" => Claimed \subseteq pkg /\ After \subseteq other
  <2>1. SUFFICES ASSUME w[1] = "inst" PROVE PkgOf(save.todo) = {} /\ OtherOf(save.todo) = {}
    BY <1>3, <1>8, <1>9 DEF FollowingIn
  <2>2. \A v \in save.todo : v[1] = "inst"
    <3>1. \A v \in save.todo : Rank(v) = 3
      BY <1>2, <1>6, <2>1, RankForm
    <3>2. QED
      BY <1>6, <3>1, RankForm
  <2>3. QED
    BY <2>2 DEF PkgOf, OtherOf
<1>20. Following'
  <2>1. save.was[2] \subseteq After \cup OtherOf(save.gone) /\ DOMAIN inst' = DOMAIN was
    BY <1>9, <1>18 DEF FollowingIn
  <2>2. ~warned => /\ save.was[2] \subseteq other'
                   /\ \A k \in DOMAIN inst' : inst'[k] = was[k] \/ inst'[k] = Pick(save.map, was[k])
    BY <1>9, <1>10, <1>18 DEF FollowingIn
  <2>3. After \subseteq other' \cup OtherOf(todo)
    BY <1>3, <1>7, <1>9, <1>10 DEF FollowingIn
  <2>4. \A k \in DOMAIN inst' : inst'[k] = Pick(save.map, was[k]) \/ <<"inst", k>> \in todo
    <3>1. \A k : <<"inst", k>> \in save.todo => <<"inst", k>> \in todo \/ (w[1] = "inst" /\ w[2] = k)
      BY <1>6 DEF todo
    <3>2. QED
      BY <1>3, <1>9, <1>18, <3>1 DEF FollowingIn
  <2>5. \A v \in todo : v[1] = "inst" =>
          v[2] \in DOMAIN inst' /\ inst'[v[2]] = was[v[2]] /\ was[v[2]] \in DOMAIN save.map
    <3>1. \A v \in todo : v[1] = "inst" => ~(w[1] = "inst" /\ v[2] = w[2])
      <4>1. SUFFICES ASSUME NEW v \in todo, v[1] = w[1], v[2] = w[2] PROVE FALSE
        OBVIOUS
      <4>2. v \in save.todo /\ v # w
        BY <1>12 DEF todo
      <4>3. v = <<v[1], v[2]>> /\ w = <<w[1], w[2]>>
        BY <1>6, <4>2
      <4>4. QED
        BY <4>1, <4>2, <4>3
    <3>2. QED
      BY <1>3, <1>9, <1>12, <1>18, <3>1 DEF FollowingIn
  <2>6. \A u \in done, v \in todo : Rank(u) <= Rank(v)
    BY <1>2, <1>3, <1>9, <1>12 DEF FollowingIn
  <2>7. ~warned /\ (\E u \in done : u[1] = "inst") => Claimed \subseteq pkg' /\ After \subseteq other'
    <3>1. \A u \in done : u \in save.done \/ u = w
      BY <1>12
    <3>2. QED
      BY <1>9, <1>10, <1>19, <3>1 DEF FollowingIn
  <2>8. ~warned /\ ~stale => \A k \in DOMAIN was :
          was[k] \in old /\ Pick(save.map, was[k]) \in Arrived \cup (save.was[1] \ PkgOf(save.gone)) \cup Slipped
    BY <1>9 DEF FollowingIn
  <2>9. Sound =>
       /\ told = {} /\ Whole(old)
       /\ \A k \in DOMAIN was : Pick(save.map, was[k]) \in Arrived \cup (save.was[1] \cap save.kept) \cup Slipped
       /\ \A n \in Claimed : n.refs \subseteq Arrived
       /\ \A n \in After : n.refs \subseteq Arrived \cup (save.was[1] \cap save.kept) \cup Slipped
    BY <1>9 DEF FollowingIn
  <2>10. FollowingIn(was, old)'
    BY <1>5, <1>11, <2>1, <2>2, <2>3, <2>4, <2>5, <2>6, <2>7, <2>8, <2>9 DEF FollowingIn
  <2>11. QED
    BY <1>5, <2>10 DEF Following
<1>21. QED
  BY <1>13, <1>14, <1>15, <1>16, <1>20 DEF RRest

LEMMA WriteFailsRests == RInv /\ WriteFails => RRest'
<1> SUFFICES ASSUME RInv, WriteFails PROVE RRest'
  OBVIOUS
<1>1. Saves("write") /\ UNCHANGED <<pkg, other, inst, told, cut, stale, warned, draft>>
  BY DEF WriteFails, Saves, disk
<1>2. save # Idle /\ IsPlan(save) /\ UNCHANGED session /\ save.pc = "write"
  BY <1>1, AtWork DEF RInv, IInv, Saves
<1>3. save' = At("back", save.todo, save.done, save.stuck, save.gone)
  BY <1>2 DEF WriteFails, At, IsPlan
<1>4. save' # Idle
  <2> DEFINE s == [save EXCEPT !.pc = "back"]
  <2>1. s.pc = "back" /\ s.todo = save.todo
    BY <1>2 DEF IsPlan
  <2> HIDE DEF s
  <2>2. s # Idle
    BY <2>1 DEF Idle
  <2>3. QED
    BY <2>2 DEF WriteFails, s
<1>5. /\ save'.map = save.map /\ save'.kept = save.kept /\ save'.was = save.was /\ save'.pc = "back"
      /\ save'.todo = save.todo /\ save'.done = save.done /\ save'.stuck = save.stuck /\ save'.gone = save.gone
      /\ Claimed' = Claimed /\ After' = After /\ Arrived' = Arrived /\ Foreign' = Foreign
      /\ States' = States /\ Libs' = Libs
  BY <1>2, <1>3, <1>4, PlanHolds
<1>6. Sound' = Sound /\ Slipped' = Slipped
  BY <1>1, <1>5 DEF Sound, Slipped
<1>7. Shaped'
  BY <1>1, <1>5 DEF RInv, Shaped
<1>8. WorkWithin'
  BY <1>1, <1>5, <1>6, WorkStays
<1>9. Resting' /\ Clearing'
  BY <1>4, <1>5 DEF Resting, Clearing
<1>10. Renaming'
  BY <1>1, <1>2, <1>5 DEF RInv, Renaming
<1>11. Following'
  <2> DEFINE was == save.was[3]
             old == save.was[1] \cup save.was[2]
  <2>1. FollowingIn(was, old)
    BY <1>2 DEF RInv, Following
  <2>2. save'.pc # "write"
    BY <1>5
  <2> HIDE DEF was, old
  <2>3. /\ DOMAIN inst = DOMAIN was /\ save.was[2] \subseteq After \cup OtherOf(save.gone)
        /\ ~warned => /\ save.was[2] \subseteq other
                      /\ \A k \in DOMAIN inst : inst[k] = was[k] \/ inst[k] = Pick(save.map, was[k])
        /\ ~warned /\ (\E w \in save.done : w[1] = "inst") => Claimed \subseteq pkg /\ After \subseteq other
        /\ ~warned /\ ~stale => \A k \in DOMAIN was :
             was[k] \in old /\ Pick(save.map, was[k]) \in Arrived \cup (save.was[1] \ PkgOf(save.gone)) \cup Slipped
        /\ Sound =>
             /\ told = {} /\ Whole(old)
             /\ \A k \in DOMAIN was : Pick(save.map, was[k]) \in Arrived \cup (save.was[1] \cap save.kept) \cup Slipped
             /\ \A n \in Claimed : n.refs \subseteq Arrived
             /\ \A n \in After : n.refs \subseteq Arrived \cup (save.was[1] \cap save.kept) \cup Slipped
    BY <2>1 DEF FollowingIn
  <2>4. was' = was /\ old' = old
    BY <1>5 DEF was, old
  <2>5. FollowingIn(was, old)'
    BY <1>1, <1>5, <1>6, <2>2, <2>3, <2>4 DEF FollowingIn
  <2>6. QED
    BY <2>5 DEF Following, was, old
<1>12. QED
  BY <1>7, <1>8, <1>9, <1>10, <1>11 DEF RRest

LEMMA WriteUndoneRests == RInv /\ WriteUndone => RRest'
<1> SUFFICES ASSUME RInv, WriteUndone PROVE RRest'
  OBVIOUS
<1>1. Saves("back") /\ UNCHANGED <<cut, stale, draft>>
  BY DEF WriteUndone, Saves
<1>2. PICK w \in save.done :
        /\ \A v \in save.done : Rank(w) >= Rank(v)
        /\ \/ OffDisk(w) /\ save' = [save EXCEPT !.done = @ \ {w}] /\ UNCHANGED <<told, warned, faults>>
           \/ /\ warned' = TRUE /\ UNCHANGED faults /\ told' = told \cup {w[2]}
              /\ save' = [save EXCEPT !.done = @ \ {w}, !.stuck = TRUE] /\ UNCHANGED disk
  BY DEF WriteUndone
<1>3. save # Idle /\ IsPlan(save) /\ UNCHANGED session /\ save.pc = "back"
  BY <1>1, AtWork DEF RInv, IInv, Saves
<1> DEFINE done == save.done \ {w}
           was == save.was[3]
           old == save.was[1] \cup save.was[2]
<1>4. PICK stuck : /\ save' = At("back", save.todo, done, stuck, save.gone)
                   /\ (stuck = save.stuck /\ OffDisk(w) /\ UNCHANGED <<told, warned>>)
                        \/ (warned' = TRUE /\ UNCHANGED disk)
  <2>1. CASE OffDisk(w) /\ save' = [save EXCEPT !.done = @ \ {w}] /\ UNCHANGED <<told, warned, faults>>
    <3>1. save' = At("back", save.todo, done, save.stuck, save.gone)
      BY <1>3, <2>1 DEF At, IsPlan
    <3>2. QED
      BY <2>1, <3>1
  <2>2. CASE warned' = TRUE /\ save' = [save EXCEPT !.done = @ \ {w}, !.stuck = TRUE] /\ UNCHANGED disk
    <3>1. save' = At("back", save.todo, done, TRUE, save.gone)
      BY <1>3, <2>2 DEF At, IsPlan
    <3>2. QED
      BY <2>2, <3>1
  <2>3. QED
    BY <1>2, <2>1, <2>2
<1>5. save' # Idle
  <2> DEFINE a == save.map
             b == save.cids
             c == save.kept
             d == save.was
             e == save.todo
             g == save.gone
             f == save.done \ {w}
             t == [pc |-> "back", map |-> a, cids |-> b, kept |-> c, was |-> d, done |-> f,
                   stuck |-> stuck, todo |-> e, gone |-> g]
  <2>1. save' = t
    BY <1>4 DEF At
  <2> HIDE DEF a, b, c, d, e, g, f
  <2>2. t.pc = "back"
    OBVIOUS
  <2> HIDE DEF t
  <2>3. QED
    BY <2>1, <2>2 DEF Idle
<1>6. /\ save'.map = save.map /\ save'.kept = save.kept /\ save'.was = save.was /\ save'.pc = "back"
      /\ save'.todo = save.todo /\ save'.done = done /\ save'.stuck = stuck /\ save'.gone = save.gone
      /\ Claimed' = Claimed /\ After' = After /\ Arrived' = Arrived /\ Foreign' = Foreign
      /\ States' = States /\ Libs' = Libs
  BY <1>3, <1>4, <1>5, PlanHolds
<1>7. (\A v \in save.done : v[1] \in {"pkg", "other", "inst"})
  BY <1>3 DEF RInv, IInv, Planned
<1>8. FollowingIn(was, old)
  BY <1>3 DEF RInv, Following
<1>9. Slipped' = Slipped /\ (Sound' => Sound) /\ (~warned' => ~warned) /\ stale' = stale
  BY <1>1, <1>4, <1>6 DEF Sound, Slipped
<1>10. w[1] = "other" => w[2] \notin save.was[2]
  <2>1. w[1] = "other" => w[2] \in OtherOf(save.todo \cup save.done)
    BY DEF OtherOf
  <2>2. QED
    BY <1>3, <2>1 DEF RInv, IInv, Undoable
<1>11. /\ pkg' \subseteq pkg /\ other' \subseteq other /\ DOMAIN inst' = DOMAIN inst
       /\ ~warned' => /\ stuck = save.stuck /\ told' = told
                      /\ w[1] # "other" => other' = other
                      /\ w[1] # "pkg" => pkg' = pkg
                      /\ other' \subseteq other /\ (save.was[2] \subseteq other => save.was[2] \subseteq other')
                      /\ \A k \in DOMAIN inst : inst'[k] = inst[k] \/ inst'[k] = was[k]
  <2>1. CASE stuck = save.stuck /\ OffDisk(w) /\ UNCHANGED <<told, warned>>
    BY <1>10, <2>1 DEF OffDisk
  <2>2. CASE warned' = TRUE /\ UNCHANGED disk
    BY <2>2 DEF disk
  <2>3. QED
    BY <1>4, <2>1, <2>2
<1>12. (\E v \in done : v[1] = "inst") => w[1] = "inst"
  <2>1. \A v \in done : v \in save.done
    OBVIOUS
  <2>2. SUFFICES ASSUME NEW v \in done, v[1] = "inst" PROVE w[1] = "inst"
    OBVIOUS
  <2>3. Rank(v) = 3 /\ Rank(w) >= Rank(v) /\ Rank(w) \in 1..3
    BY <1>2, <1>7, <2>1, <2>2, RankForm
  <2>4. Rank(w) = 3
    BY <2>3
  <2>5. QED
    BY <1>7, <2>4, RankForm
<1>13. save.todo \cup done \subseteq save.todo \cup save.done /\ done \subseteq save.done
  OBVIOUS
<1> HIDE DEF done, was, old
<1>14. Shaped'
  <2>1. IsFiniteSet(other') /\ \A n \in pkg' \cup other' : IsNode(n)
    BY <1>11, FS_Subset DEF RInv, Shaped
  <2>2. QED
    BY <1>1, <1>6, <2>1, ShapedStays
<1>15. WorkWithin'
  BY <1>1, <1>6, <1>9, WorkStays
<1>16. Resting' /\ Clearing'
  BY <1>5, <1>6 DEF Resting, Clearing
<1>17. Renaming'
  <2>1. OtherOf(save.todo \cup done) \subseteq OtherOf(save.todo \cup save.done)
    BY <1>13 DEF OtherOf
  <2>2. stuck => warned'
    BY <1>3, <1>11, <1>4 DEF RInv, Renaming
  <2>3. (\A v \in save.gone : v = <<v[1], v[2]>> /\ v[1] # "inst") /\ (\A n \in After : IsNode(n)) /\ After \cap OtherOf(save.gone) = {}
        /\ OtherOf(save.todo \cup save.done) \subseteq After
    BY <1>3 DEF RInv, Renaming
  <2>4. QED
    BY <1>6, <2>1, <2>2, <2>3 DEF Renaming
<1>18. Following'
  <2>1. save.was[2] \subseteq After \cup OtherOf(save.gone) /\ DOMAIN inst' = DOMAIN was
    BY <1>8, <1>11 DEF FollowingIn
  <2>2. ~warned' => /\ save.was[2] \subseteq other'
                    /\ \A k \in DOMAIN inst' : inst'[k] = was[k] \/ inst'[k] = Pick(save.map, was[k])
    BY <1>8, <1>9, <1>11 DEF FollowingIn
  <2>3. ~warned' /\ (\E v \in done : v[1] = "inst") => Claimed \subseteq pkg' /\ After \subseteq other'
    BY <1>8, <1>9, <1>11, <1>12, <1>13 DEF FollowingIn
  <2>4. ~warned' /\ ~stale => \A k \in DOMAIN was :
          was[k] \in old /\ Pick(save.map, was[k]) \in Arrived \cup (save.was[1] \ PkgOf(save.gone)) \cup Slipped
    BY <1>8, <1>9 DEF FollowingIn
  <2>5. Sound' =>
       /\ told' = {} /\ Whole(old)
       /\ \A k \in DOMAIN was : Pick(save.map, was[k]) \in Arrived \cup (save.was[1] \cap save.kept) \cup Slipped
       /\ \A n \in Claimed : n.refs \subseteq Arrived
       /\ \A n \in After : n.refs \subseteq Arrived \cup (save.was[1] \cap save.kept) \cup Slipped
    BY <1>8, <1>9, <1>11 DEF FollowingIn, Sound
  <2>6. was' = was /\ old' = old
    BY <1>6 DEF was, old
  <2>7. FollowingIn(was, old)'
    BY <1>6, <1>9, <2>1, <2>2, <2>3, <2>4, <2>5, <2>6 DEF FollowingIn
  <2>8. QED
    BY <1>6, <2>7 DEF Following, was, old
<1>19. QED
  BY <1>14, <1>15, <1>16, <1>17, <1>18 DEF RRest

\* A save that failed leaves what the instances name, unless it could not undo it.
LEMMA SaveFailedRests == RInv /\ SaveFailed => RRest'
<1> SUFFICES ASSUME RInv, SaveFailed PROVE RRest'
  OBVIOUS
<1>1. /\ Saves("back") /\ save' = Idle /\ save.done = {}
      /\ UNCHANGED <<pkg, other, inst, told, cut, stale, warned, draft>>
  BY DEF SaveFailed, Saves, disk
<1>2. save # Idle /\ save.pc = "back" /\ UNCHANGED session
  BY <1>1, AtWork DEF RInv, IInv, Saves
<1>3. FollowingIn(save.was[3], save.was[1] \cup save.was[2])
  BY <1>2 DEF RInv, Following
<1>4. ~warned => pkg = save.was[1] /\ other = save.was[2] /\ \A k \in DOMAIN inst : inst[k] = save.was[3][k]
  <2>1. PkgOf(save.done) = {} /\ OtherOf(save.done) = {}
    BY <1>1 DEF PkgOf, OtherOf
  <2>2. ~warned => ~save.stuck
    BY <1>2 DEF RInv, Renaming
  <2>3. QED
    BY <1>1, <1>2, <2>1, <2>2 DEF RInv, IInv, Undoable
<1>5. States' = States
  BY <1>2 DEF session, history, States, Snapshots, Take
<1>6. Sound' = Sound
  BY <1>1 DEF Sound
<1>7. Shaped'
  BY <1>1, <1>5 DEF RInv, Shaped
<1>8. WorkWithin'
  <2>1. Libs' = other /\ Libs = save.was[2]
    BY <1>1, <1>2 DEF Libs
  <2>2. CASE Sound
    <3>1. Libs' = Libs
      BY <1>4, <2>1, <2>2 DEF Sound
    <3>2. QED
      BY <1>1, <1>5, <1>6, <3>1, WorkStays
  <2>3. CASE ~Sound
    BY <1>6, <2>3 DEF WorkWithin
  <2>4. QED
    BY <2>2, <2>3
<1>9. Resting'
  <2>1. Named' = Named
    BY <1>1 DEF Named
  <2>2. ~warned /\ ~stale => Named \subseteq pkg \cup other
    BY <1>3, <1>4 DEF FollowingIn, Named
  <2>3. Sound => told = {} /\ Whole(pkg \cup other)
    BY <1>3, <1>4 DEF FollowingIn, Sound
  <2>4. QED
    BY <1>1, <1>6, <2>1, <2>2, <2>3 DEF Resting
<1>10. Renaming' /\ Following' /\ Clearing'
  BY <1>1 DEF Renaming, Following, Clearing
<1>11. QED
  BY <1>5, <1>7, <1>8, <1>9, <1>10 DEF RRest

LEMMA WritesLandedRests == RInv /\ WritesLanded => RRest'
<1> SUFFICES ASSUME RInv, WritesLanded PROVE RRest'
  OBVIOUS
<1>1. /\ Saves("write") /\ save.todo = {}
      /\ UNCHANGED <<pkg, other, inst, told, warned, draft>>
      /\ cut' = (cut \/ save.kept # {})
  BY DEF WritesLanded, Saves, disk
<1>2. save # Idle /\ IsPlan(save) /\ UNCHANGED session /\ save.pc = "write"
  BY <1>1, AtWork DEF RInv, IInv, Saves
<1>3. save' = At("remove", save.todo, save.done, save.stuck, save.gone)
  BY <1>2 DEF WritesLanded, At, IsPlan
<1>4. save' # Idle
  <2> DEFINE s == [save EXCEPT !.pc = "remove"]
  <2>1. s.pc = "remove" /\ s.todo = save.todo
    BY <1>2 DEF IsPlan
  <2> HIDE DEF s
  <2>2. s # Idle
    BY <2>1 DEF Idle
  <2>3. QED
    BY <2>2 DEF WritesLanded, s
<1>5. /\ save'.map = save.map /\ save'.kept = save.kept /\ save'.was = save.was /\ save'.pc = "remove"
      /\ save'.todo = save.todo /\ save'.done = save.done /\ save'.stuck = save.stuck /\ save'.gone = save.gone
      /\ Claimed' = Claimed /\ After' = After /\ Arrived' = Arrived
      /\ States' = States /\ Libs' = Libs
  BY <1>2, <1>3, <1>4, PlanHolds
<1> DEFINE was == save.was[3]
           old == save.was[1] \cup save.was[2]
<1>6. FollowingIn(was, old)
  BY <1>2 DEF RInv, Following
<1> HIDE DEF was, old
<1>7. ASSUME NEW v \in Slipped, v \in Named \cup UNION {n.refs : n \in other}
      PROVE  stale'
  <2>1. v \in PkgOf(save.gone) /\ v \in pkg /\ v \in Foreign
    BY <1>2, <1>7 DEF Slipped, RInv, IInv, Writing
  <2>2. <<"pkg", v>> \in save.gone
    <3>1. PICK w \in save.gone : w[1] = "pkg" /\ w[2] = v
      BY <2>1, Zenon DEF PkgOf
    <3>2. w = <<w[1], w[2]>>
      BY <1>2, <3>1 DEF RInv, Renaming
    <3>3. QED
      BY <3>1, <3>2
  <2>3. PICK i \in DOMAIN doc : doc[i].file = v /\ doc[i].file # doc[i].handle
    BY <2>1, Zenon DEF Foreign
  <2>4. /\ doc[i].file \in pkg \ {doc[i].handle} /\ <<"pkg", doc[i].file>> \in save.gone
        /\ doc[i].file \in Named \cup UNION {n.refs : n \in other}
    BY <1>7, <2>1, <2>2, <2>3
  <2>5. QED
    BY <2>4 DEF WritesLanded
<1>8. (~stale' => ~stale) /\ (Sound' => Sound /\ save.kept = {}) /\ warned' = warned
  <2>1. ~stale' => ~stale
    BY DEF WritesLanded
  <2>2. QED
    BY <1>1, <2>1 DEF Sound
<1>9. Shaped'
  BY <1>1, <1>5 DEF RInv, Shaped
<1>10. WorkWithin'
  BY <1>1, <1>5, <1>8, WorkStays
<1>11. Resting' /\ Following'
  BY <1>4, <1>5 DEF Resting, Following
<1>12. Renaming'
  BY <1>1, <1>2, <1>5 DEF RInv, Renaming
<1>13. /\ After \subseteq other
       /\ \A k \in DOMAIN inst : k \in DOMAIN was /\ inst[k] = Pick(save.map, was[k]) /\ inst[k] \in Named
  <2>1. OtherOf(save.todo) = {}
    BY <1>1 DEF OtherOf
  <2>2. \A k \in DOMAIN inst : inst[k] \in Named
    BY DEF Named
  <2>3. QED
    BY <1>1, <1>2, <1>6, <2>1, <2>2 DEF FollowingIn
<1>14. ~warned => other \subseteq After \cup OtherOf(save.gone) \cup told
  <2>1. ASSUME ~warned PROVE other \ OtherOf(save.done) = save.was[2]
    BY <1>2, <2>1 DEF RInv, IInv, Undoable, Renaming
  <2>2. OtherOf(save.done) \subseteq OtherOf(save.todo \cup save.done)
    BY DEF OtherOf
  <2>3. OtherOf(save.done) \subseteq After /\ save.was[2] \subseteq After \cup OtherOf(save.gone)
    BY <1>2, <1>6, <2>2 DEF RInv, Renaming, FollowingIn
  <2>4. QED
    BY <2>1, <2>3
<1>15. ~warned /\ ~stale' => Named \subseteq Arrived \cup (pkg \ PkgOf(save.gone))
  <2>1. SUFFICES ASSUME ~warned, ~stale', NEW k \in DOMAIN inst
                 PROVE  inst[k] \in Arrived \cup (pkg \ PkgOf(save.gone))
    BY DEF Named
  <2>2. inst[k] \in Arrived \cup (save.was[1] \ PkgOf(save.gone)) \cup Slipped
    BY <1>6, <1>8, <1>13, <2>1 DEF FollowingIn
  <2>3. inst[k] \notin Slipped
    BY <1>7, <1>13, <2>1
  <2>4. save.was[1] \subseteq pkg
    BY <1>2 DEF RInv, IInv, Writing
  <2>5. QED
    BY <2>2, <2>3, <2>4
<1>16. Sound' => save.kept = {} /\ Named \subseteq Arrived /\ Whole(Arrived)
  <2>1. SUFFICES ASSUME Sound' PROVE Named \subseteq Arrived /\ Whole(Arrived)
    BY <1>8
  <2>2. Sound /\ save.kept = {} /\ ~stale'
    BY <1>8, <2>1 DEF Sound
  <2>3. ASSUME NEW k \in DOMAIN inst PROVE inst[k] \in Arrived
    <3>1. inst[k] \in Arrived \cup (save.was[1] \cap save.kept) \cup Slipped
      BY <1>6, <1>13, <2>2 DEF FollowingIn
    <3>2. inst[k] \notin Slipped
      BY <1>7, <1>13, <2>2
    <3>3. QED
      BY <2>2, <3>1, <3>2
  <2>4. ASSUME NEW n \in Arrived PROVE n.refs \subseteq Arrived
    <3>1. CASE n \in Claimed
      BY <1>6, <2>2, <3>1 DEF FollowingIn
    <3>2. CASE n \in After
      <4>1. n.refs \subseteq Arrived \cup (save.was[1] \cap save.kept) \cup Slipped
        BY <1>6, <2>2, <3>2 DEF FollowingIn
      <4>2. n.refs \subseteq UNION {m.refs : m \in other}
        BY <1>13, <3>2
      <4>3. QED
        BY <1>7, <2>2, <4>1, <4>2
    <3>3. QED
      BY <2>4, <3>1, <3>2 DEF Arrived
  <2>5. QED
    BY <2>3, <2>4 DEF Named, Whole
<1>17. Clearing'
  <2>1. Named' = Named
    BY <1>1 DEF Named
  <2>2. QED
    BY <1>1, <1>5, <1>13, <1>14, <1>15, <1>16, <2>1 DEF Clearing
<1>18. QED
  BY <1>9, <1>10, <1>11, <1>12, <1>17 DEF RRest

LEMMA GoneRests == RInv /\ Gone => RRest'
<1> SUFFICES ASSUME RInv, Gone PROVE RRest'
  OBVIOUS
<1>1. Saves("remove") /\ UNCHANGED <<cut, stale, warned, draft>>
  BY DEF Gone, Saves
<1>2. PICK w \in save.gone :
        /\ save' = [save EXCEPT !.gone = @ \ {w}]
        /\ \/ OffDisk(w) /\ UNCHANGED <<told, faults>>
           \/ Faulty /\ told' = told \cup {w[2]} /\ UNCHANGED disk
  BY DEF Gone
<1>3. save # Idle /\ IsPlan(save) /\ UNCHANGED session /\ save.pc = "remove"
  BY <1>1, AtWork DEF RInv, IInv, Saves
<1> DEFINE gone == save.gone \ {w}
<1>4. save' = At("remove", save.todo, save.done, save.stuck, gone)
  BY <1>2, <1>3 DEF At, IsPlan
<1>5. save' # Idle
  <2> DEFINE s == [save EXCEPT !.gone = @ \ {w}]
  <2>1. s.pc = "remove" /\ s.gone = save.gone \ {w}
    BY <1>3 DEF IsPlan
  <2> HIDE DEF s
  <2>2. s # Idle
    BY <2>1 DEF Idle
  <2>3. QED
    BY <1>2, <2>2 DEF s
<1>6. /\ save'.map = save.map /\ save'.kept = save.kept /\ save'.was = save.was /\ save'.pc = "remove"
      /\ save'.todo = save.todo /\ save'.done = save.done /\ save'.stuck = save.stuck /\ save'.gone = gone
      /\ Claimed' = Claimed /\ After' = After /\ Arrived' = Arrived
      /\ States' = States /\ Libs' = Libs
  BY <1>3, <1>4, <1>5, PlanHolds
<1>7. \A v \in save.gone : v = <<v[1], v[2]>> /\ v[1] # "inst"
  BY <1>3 DEF RInv, Renaming
<1>8. /\ w[1] = "pkg" => PkgOf(gone) = PkgOf(save.gone) \ {w[2]} /\ w[2] \in PkgOf(save.gone)
      /\ w[1] # "pkg" => PkgOf(gone) = PkgOf(save.gone)
      /\ w[1] = "other" => OtherOf(gone) = OtherOf(save.gone) \ {w[2]} /\ w[2] \in OtherOf(save.gone)
      /\ w[1] # "other" => OtherOf(gone) = OtherOf(save.gone)
  BY <1>7, PairsLess, PairsOf
<1>9. \/ /\ pkg' = IF w[1] = "pkg" THEN pkg \ {w[2]} ELSE pkg
         /\ other' = IF w[1] = "other" THEN other \ {w[2]} ELSE other
         /\ inst' = inst /\ told' = told
      \/ pkg' = pkg /\ other' = other /\ inst' = inst /\ told' = told \cup {w[2]}
  BY <1>2, <1>7 DEF OffDisk, disk
<1>10. Sound' = Sound /\ Named' = Named
  BY <1>1, <1>9 DEF Sound, Named
<1>11. gone \subseteq save.gone
  OBVIOUS
<1> HIDE DEF gone
<1>12. Shaped'
  <2>1. pkg' \subseteq pkg /\ other' \subseteq other
    BY <1>9
  <2>2. IsFiniteSet(other') /\ \A n \in pkg' \cup other' : IsNode(n)
    BY <2>1, FS_Subset DEF RInv, Shaped
  <2>3. QED
    BY <1>1, <1>6, <2>2, ShapedStays
<1>13. WorkWithin'
  BY <1>1, <1>6, <1>10, WorkStays
<1>14. Resting' /\ Following'
  BY <1>5, <1>6 DEF Resting, Following
<1>15. Renaming'
  <2>1. OtherOf(gone) \subseteq OtherOf(save.gone)
    BY <1>8
  <2>2. QED
    BY <1>1, <1>3, <1>6, <1>11, <2>1 DEF RInv, Renaming
<1>16. Clearing'
  <2>1. /\ After \subseteq other
        /\ ~warned => other \subseteq After \cup OtherOf(save.gone) \cup told
        /\ ~warned /\ ~stale => Named \subseteq Arrived \cup (pkg \ PkgOf(save.gone))
        /\ Sound => save.kept = {} /\ Named \subseteq Arrived /\ Whole(Arrived)
    BY <1>3 DEF RInv, Clearing
  <2>2. After \cap OtherOf(save.gone) = {}
    BY <1>3 DEF RInv, Renaming
  <2>3. After \subseteq other'
    BY <1>8, <1>9, <2>1, <2>2
  <2>4. ~warned => other' \subseteq After \cup OtherOf(gone) \cup told'
    <3>1. OtherOf(save.gone) \subseteq OtherOf(gone) \cup {w[2]}
      BY <1>8
    <3>2. \/ told' = told \cup {w[2]} /\ other' = other
          \/ told' = told /\ other' = other \ {w[2]}
          \/ told' = told /\ other' = other /\ OtherOf(gone) = OtherOf(save.gone)
      BY <1>8, <1>9
    <3>3. QED
      BY <2>1, <3>1, <3>2
  <2>5. pkg \ PkgOf(save.gone) \subseteq pkg' \ PkgOf(gone)
    BY <1>8, <1>9
  <2>6. Whole(Arrived)' <=> Whole(Arrived)
    BY <1>6 DEF Whole
  <2>7. QED
    BY <1>1, <1>6, <1>10, <2>1, <2>3, <2>4, <2>5, <2>6 DEF Clearing
<1>17. QED
  BY <1>12, <1>13, <1>14, <1>15, <1>16 DEF RRest

\* Renamed, what was in a document or elsewhere is there under its new name.
LEMMA RenamedWithin ==
  ASSUME NEW es, IsEntries(es), Proper(es), NEW M, NEW ns
  PROVE  /\ Proper(Renamed(es, M))
         /\ Within(es, ns) => Within(Renamed(es, M), {Pick(M, n) : n \in ns})
<1> DEFINE r == Renamed(es, M)
           new == {Pick(M, n) : n \in ns}
<1>1. DOMAIN r = DOMAIN es
      /\ \A i \in DOMAIN es : r[i].node = Remap(es[i].node, M) /\ r[i].handle = Pick(M, es[i].handle)
  BY RenamedForm
<1> HIDE DEF r
<1>2. \A i \in DOMAIN es : IsNode(r[i].node) /\ r[i].node.refs = {Pick(M, n) : n \in es[i].node.refs}
  BY <1>1, RemapForm DEF Proper
<1>3. \A h \in Handles(es) : Pick(M, h) \in Handles(r)
  BY <1>1 DEF Handles
<1>4. ASSUME Within(es, ns), NEW i \in DOMAIN r PROVE r[i].node.refs \subseteq Handles(r) \cup new
  <2>1. es[i].node.refs \subseteq Handles(es) \cup ns
    BY <1>1, <1>4 DEF Within
  <2>2. QED
    BY <1>1, <1>2, <1>3, <2>1
<1> HIDE DEF new
<1>5. Within(es, ns) => Within(r, new)
  BY <1>4 DEF Within
<1>6. Proper(r)
  BY <1>1, <1>2 DEF Proper
<1>7. QED
  BY <1>5, <1>6 DEF r, new

\* The entries with their nodes' files are the same nodes of the same names.
LEMMA FiledWithin ==
  ASSUME NEW es, IsEntries(es), NEW cids, NEW ns
  PROVE  /\ Proper(es) => Proper(Filed(es, cids))
         /\ Within(es, ns) => Within(Filed(es, cids), ns)
<1> DEFINE t == Filed(es, cids)
<1>1. DOMAIN t = DOMAIN es /\ \A i \in DOMAIN es : t[i].node = es[i].node /\ t[i].handle = es[i].handle
  BY FiledForm
<1> HIDE DEF t
<1>2. Handles(t) = Handles(es)
  BY <1>1 DEF Handles
<1>3. (Proper(es) => Proper(t)) /\ (Within(es, ns) => Within(t, ns))
  BY <1>1, <1>2 DEF Proper, Within
<1>4. QED
  BY <1>3 DEF t

\* Every revision after a save is one before it, with the new names.
LEMMA SavedStates ==
  ASSUME IInv, Saved
  PROVE  \A t \in States' : \E s \in States :
           \/ t.entries = Renamed(s.entries, save.map)
           \/ t.entries = Filed(Renamed(s.entries, save.map), save.cids)
<1> DEFINE M == save.map
           as == Renamed(doc, M)
<1>1. /\ doc' = Filed(as, save.cids)
      /\ undo' = [k \in DOMAIN undo |-> RenamedIn(undo[k], M)]
      /\ redo' = [k \in DOMAIN redo |-> RenamedIn(redo[k], M)]
      /\ before' = RenamedIn(before, M)
  <2>1. DOMAIN as = DOMAIN doc
    BY RenamedForm DEF IInv, Typed
  <2>2. QED
    BY <2>1 DEF Saved, HistoryRenamed, Filed
<1>2. IsSeq(undo) /\ IsSeq(redo)
  BY DEF IInv, Typed
<1>3. ASSUME NEW s \in Snapshots PROVE RenamedIn(s, M).entries = Renamed(s.entries, M)
  <2>1. s = [entries |-> s.entries, rev |-> s.rev]
    BY DEF IInv, Typed
  <2>2. QED
    BY <2>1 DEF RenamedIn
<1> HIDE DEF M
<1>4. Snapshots' = {RenamedIn(s, M) : s \in Snapshots}
  <2>1. Snapshots = Rng(undo) \cup Rng(redo) \cup {before}
        /\ Snapshots' = Rng(undo') \cup Rng(redo') \cup {before'}
    BY DEF Snapshots, Rng
  <2>2. Rng(undo') = {RenamedIn(s, M) : s \in Rng(undo)} /\ Rng(redo') = {RenamedIn(s, M) : s \in Rng(redo)}
    BY <1>1, <1>2, RenamedSeq
  <2>3. QED
    BY <1>1, <2>1, <2>2
<1>5. Take \in States /\ Take.entries = doc /\ Take'.entries = doc'
  BY DEF States, Take
<1>6. ASSUME NEW t \in States'
      PROVE  \E s \in States : \/ t.entries = Renamed(s.entries, M)
                               \/ t.entries = Filed(Renamed(s.entries, M), save.cids)
  <2>1. CASE t \in Snapshots'
    <3>1. PICK s \in Snapshots : t = RenamedIn(s, M)
      BY <1>4, <2>1
    <3>2. QED
      BY <1>3, <3>1 DEF States
  <2>2. CASE t = Take'
    BY <1>1, <1>5, <2>2
  <2>3. QED
    BY <1>6, <2>1, <2>2 DEF States
<1>7. QED
  BY <1>6 DEF M

\* After a save what is on disk is what it wrote, and what contains it.
LEMMA SavedRests == RInv /\ Saved => RRest'
<1> SUFFICES ASSUME RInv, Saved PROVE RRest'
  OBVIOUS
<1>1. /\ save.pc = "remove" /\ save.gone = {} /\ save' = Idle /\ draft' = None
      /\ told' = (told \cup save.kept) \cap (pkg \cup other) /\ cut' = (cut \/ told' # {})
      /\ UNCHANGED <<pkg, other, inst, stale, warned>>
  BY DEF Saved, disk
<1>2. save # Idle
  BY <1>1 DEF Idle
<1> DEFINE M == save.map
<1>3. \A t \in States' : \E s \in States :
        \/ t.entries = Renamed(s.entries, M)
        \/ t.entries = Filed(Renamed(s.entries, M), save.cids)
  BY SavedStates DEF RInv
<1>4. \A s \in States : IsEntries(s.entries) /\ Proper(s.entries)
  <2>1. Take.entries = doc
    BY DEF Take
  <2>2. QED
    BY <2>1 DEF RInv, IInv, Typed, Shaped, Proper, States
<1>5. After = {Pick(M, n) : n \in save.was[2]}
  BY DEF After
<1> HIDE DEF M
<1>6. ASSUME NEW t \in States'
      PROVE  /\ Proper(t.entries)
             /\ (\A s \in States : Within(s.entries, save.was[2])) => Within(t.entries, After)
  <2>1. PICK s \in States : \/ t.entries = Renamed(s.entries, M)
                            \/ t.entries = Filed(Renamed(s.entries, M), save.cids)
    BY <1>3
  <2> DEFINE r == Renamed(s.entries, M)
  <2>2. IsEntries(r) /\ Proper(r) /\ (Within(s.entries, save.was[2]) => Within(r, After))
    BY <1>4, <1>5, RenamedForm, RenamedWithin
  <2> HIDE DEF r
  <2>3. Proper(Filed(r, save.cids)) /\ (Within(r, After) => Within(Filed(r, save.cids), After))
    BY <2>2, FiledWithin
  <2>4. QED
    BY <2>1, <2>2, <2>3 DEF r
<1>7. Sound' => Sound /\ told' = {}
  BY <1>1 DEF Sound
<1>8. /\ After \subseteq other
      /\ ~warned => other \subseteq After \cup OtherOf(save.gone) \cup told
      /\ ~warned /\ ~stale => Named \subseteq Arrived \cup (pkg \ PkgOf(save.gone))
      /\ Sound => save.kept = {} /\ Named \subseteq Arrived /\ Whole(Arrived)
  BY <1>1, <1>2 DEF RInv, Clearing
<1>9. Claimed \subseteq pkg /\ pkg \subseteq Claimed \cup save.kept \cup PkgOf(save.gone) \cup told
  BY <1>1, <1>2 DEF RInv, IInv, Removing
<1>10. PkgOf(save.gone) = {} /\ OtherOf(save.gone) = {}
  BY <1>1 DEF PkgOf, OtherOf
<1>11. Shaped'
  <2>1. \A s \in States' : \A i \in DOMAIN s.entries : IsNode(s.entries[i].node)
    BY <1>6 DEF Proper
  <2>2. QED
    BY <1>1, <2>1 DEF RInv, Shaped
<1>12. WorkWithin'
  <2>1. SUFFICES ASSUME Sound' PROVE \A s \in States' : Within(s.entries, Libs')
    BY <1>1 DEF WorkWithin
  <2>2. Libs = save.was[2] /\ Libs' = other
    BY <1>1, <1>2 DEF Libs
  <2>3. \A s \in States : Within(s.entries, save.was[2])
    BY <1>7, <2>1, <2>2 DEF RInv, WorkWithin
  <2>4. \A t \in States' : Within(t.entries, After)
    BY <1>6, <2>3
  <2>5. QED
    BY <1>8, <2>2, <2>4 DEF Within
<1>13. Resting'
  <2>1. Named' = Named
    BY <1>1 DEF Named
  <2>2. ~warned /\ ~stale => Named \subseteq pkg \cup other
    BY <1>8, <1>9 DEF Arrived
  <2>3. ASSUME Sound' PROVE told' = {} /\ Whole(pkg \cup other)
    <3>1. Sound /\ told' = {} /\ told \cap (pkg \cup other) = {}
      BY <1>1, <1>7, <2>3
    <3>2. pkg \cup other = Arrived
      BY <1>8, <1>9, <1>10, <3>1 DEF Arrived, Sound
    <3>3. QED
      BY <1>8, <3>1, <3>2
  <2>4. QED
    BY <1>1, <2>1, <2>2, <2>3 DEF Resting
<1>14. Renaming' /\ Following' /\ Clearing'
  BY <1>1 DEF Renaming, Following, Clearing
<1>15. QED
  BY <1>11, <1>12, <1>13, <1>14 DEF RRest

\* A draft is within what the document was.
LEMMA WriteDraftRests == RInv /\ WriteDraft => RRest'
<1> SUFFICES ASSUME RInv, WriteDraft PROVE RRest'
  OBVIOUS
<1>1. /\ save = Idle /\ save' = Idle /\ UNCHANGED <<pkg, other, inst, session, told, cut, stale, warned>>
      /\ draft' = [i \in DOMAIN doc |-> [handle |-> doc[i].handle, node |-> doc[i].node]]
  BY DEF WriteDraft, disk
<1>2. States' = States
  BY <1>1 DEF States, Snapshots, Take, session, history
<1>3. Sound' = Sound /\ Libs' = other /\ Libs = other /\ Named' = Named
  BY <1>1 DEF Sound, Libs, Named
<1>4. DOMAIN draft' = DOMAIN doc
      /\ \A i \in DOMAIN doc : draft'[i].handle = doc[i].handle /\ draft'[i].node = doc[i].node
  BY <1>1
<1>5. Handles(draft') = Handles(doc)
  BY <1>4 DEF Handles
<1>6. Sound => Within(doc, other)
  <2>1. Take \in States /\ Take.entries = doc
    BY DEF States, Take
  <2>2. QED
    BY <1>3, <2>1 DEF RInv, WorkWithin
<1>7. Sound => Within(draft', other)
  BY <1>4, <1>5, <1>6 DEF Within
<1>8. \A i \in DOMAIN draft' : IsNode(draft'[i].node)
  BY <1>4, DocProper DEF Proper
<1>9. Shaped'
  BY <1>1, <1>2, <1>8 DEF RInv, Shaped
<1>10. WorkWithin'
  BY <1>2, <1>3, <1>7 DEF RInv, WorkWithin
<1>11. Resting'
  BY <1>1, <1>3 DEF RInv, Resting
<1>12. Renaming' /\ Following' /\ Clearing'
  BY <1>1 DEF Renaming, Following, Clearing
<1>13. QED
  BY <1>9, <1>10, <1>11, <1>12 DEF RRest

LEMMA HandlesOf ==
  ASSUME NEW es, NEW S, NamesIn(es) = {<<n, n>> : n \in S}
  PROVE  Handles(es) = S
<1>1. ASSUME NEW i \in DOMAIN es PROVE es[i].handle \in S
  <2>1. <<es[i].id, es[i].handle>> \in {<<n, n>> : n \in S}
    BY NamesOfPlace
  <2>2. PICK n \in S : <<es[i].id, es[i].handle>> = <<n, n>>
    BY <2>1
  <2>3. QED
    BY <2>2
<1>2. ASSUME NEW n \in S PROVE n \in Handles(es)
  <2>1. <<n, n>> \in NamesIn(es)
    OBVIOUS
  <2>2. PICK i \in DOMAIN es : <<n, n>> = <<es[i].id, es[i].handle>>
    BY <2>1 DEF NamesIn
  <2>3. es[i].handle = n
    BY <2>2
  <2>4. QED
    BY <2>3 DEF Handles
<1>3. QED
  BY <1>1, <1>2 DEF Handles

\* What is loaded contains what the disk's nodes do.
LEMMA LoadedWithin ==
  ASSUME NEW S, IsFiniteSet(S), \A n \in S : IsNode(n), NEW ns
  PROVE  /\ Proper(Loaded(S))
         /\ Whole(S \cup ns) => Within(Loaded(S), ns)
<1> DEFINE es == Loaded(S)
<1>1. {es[i].node : i \in DOMAIN es} = S /\ NamesIn(es) = {<<n, n>> : n \in S}
  BY LoadedForm
<1> HIDE DEF es
<1>2. \A i \in DOMAIN es : es[i].node \in S
  BY <1>1
<1>3. Handles(es) = S
  BY <1>1, HandlesOf
<1>4. Proper(es) /\ (Whole(S \cup ns) => Within(es, ns))
  BY <1>2, <1>3 DEF Proper, Within, Whole
<1>5. QED
  BY <1>4 DEF es

\* What is restored contains what the draft does.
LEMMA RestoredWithin ==
  ASSUME IsSeq(draft), \A i \in DOMAIN draft : IsNode(draft[i].node), NEW ns
  PROVE  /\ Proper(Restored)
         /\ Within(draft, ns) => Within(Restored, ns)
<1> DEFINE hs == SetToSeq(Handles(draft))
           gone == pkg \ Handles(draft)
           Place(h) == Max({i \in DOMAIN draft : draft[i].handle = h})
           Clean(n) == [n EXCEPT !.refs = @ \ gone]
           Nd(h) == Clean(draft[Place(h)].node)
           File(h) == IF h \in pkg THEN h ELSE None
           es == [i \in DOMAIN hs |-> [id |-> hs[i], handle |-> hs[i], node |-> Nd(hs[i]),
                                       file |-> File(hs[i])]]
<1>1. Restored = es
  BY DEF Restored
<1>2. IsEntries(Restored) /\ NamesIn(Restored) = {<<h, h>> : h \in Handles(draft)}
  BY RestoredForm
<1>3. Handles(Restored) = Handles(draft)
  BY <1>2, HandlesOf
<1>4. Len(draft) \in Nat /\ DOMAIN draft = 1..Len(draft)
  BY SeqForm
<1>5. ASSUME NEW h \in Handles(draft) PROVE Place(h) \in DOMAIN draft
  <2> DEFINE S == {i \in DOMAIN draft : draft[i].handle = h}
  <2>1. S \subseteq 1..Len(draft) /\ S # {}
    BY <1>4 DEF Handles
  <2> HIDE DEF S
  <2>2. Max(S) \in S
    BY <1>4, <2>1, GreatestOf
  <2>3. QED
    BY <1>4, <2>1, <2>2 DEF S
<1>6. ASSUME NEW n, IsNode(n) PROVE IsNode(Clean(n)) /\ Clean(n).refs \subseteq n.refs
  <2> DEFINE cc == n.c
             rs == n.refs
             m == Clean(n)
  <2>1. n = [c |-> cc, refs |-> rs]
    BY <1>6 DEF IsNode
  <2> HIDE DEF cc, rs
  <2>2. m = [c |-> cc, refs |-> rs \ gone]
    BY <2>1
  <2> HIDE DEF gone
  <2>3. m.c = cc /\ m.refs = rs \ gone
    BY <2>2
  <2> HIDE DEF m
  <2>4. IsNode(m) /\ m.refs \subseteq rs
    BY <2>2, <2>3 DEF IsNode
  <2>5. QED
    BY <2>4 DEF m, rs
<1> HIDE DEF Place, Clean, File, hs
<1>7. ASSUME NEW i \in DOMAIN es
      PROVE  \E j \in DOMAIN draft : IsNode(es[i].node) /\ es[i].node.refs \subseteq draft[j].node.refs
  <2>1. es[i].handle = hs[i] /\ es[i].node = Nd(hs[i])
    BY <1>7
  <2>2. hs[i] \in Handles(draft)
    BY <1>1, <1>3, <1>7, <2>1 DEF Handles
  <2>3. Place(hs[i]) \in DOMAIN draft
    BY <1>5, <2>2
  <2>4. QED
    BY <1>6, <2>1, <2>3
<1> HIDE DEF es
<1>8. Proper(es) /\ (Within(draft, ns) => Within(es, ns))
  BY <1>1, <1>3, <1>7 DEF Proper, Within
<1>9. QED
  BY <1>1, <1>8

\* The revisions of a package opened: as it is on disk, and with the work found beside it.
LEMMA OpenStates ==
  ASSUME NEW es, NEW snapshots, OpenWith(es, snapshots),
         snapshots = <<>> \/ snapshots = <<[entries |-> Loaded(pkg), rev |-> 1]>>
  PROVE  \A s \in States' : s.entries = es \/ s.entries = Loaded(pkg)
<1> DEFINE one == [entries |-> Loaded(pkg), rev |-> 1]
<1>1. /\ doc' = es /\ undo' = snapshots /\ redo' = <<>> /\ before' = [entries |-> es, rev |-> rev']
  BY DEF OpenWith
<1>2. before'.entries = es /\ Take'.entries = es
  BY <1>1 DEF Take
<1>3. Snapshots' = Rng(undo') \cup Rng(redo') \cup {before'} /\ Rng(redo') = {}
  BY <1>1, EmptyForm DEF Snapshots, Rng
<1>4. Rng(undo') \subseteq {one}
  BY <1>1, EmptyForm, OneForm
<1>5. one.entries = Loaded(pkg)
  OBVIOUS
<1> HIDE DEF one
<1>6. QED
  BY <1>2, <1>3, <1>4, <1>5 DEF States

LEMMA LoadRests ==
  ASSUME RInv, UNCHANGED <<pkg, other, inst, stale, warned>>, save' = Idle, told' = {},
         NEW offered, Load(offered),
         Sound' => Whole(pkg \cup other) /\ (draft # None => Within(draft, other))
  PROVE  RRest'
<1> DEFINE es == Loaded(pkg)
           one == <<[entries |-> Loaded(pkg), rev |-> 1]>>
<1>1. \/ OpenWith(es, <<>>) /\ draft' = None
      \/ /\ draft # None /\ draft' = draft
         /\ OpenWith(Restored, IF Restored = es THEN <<>> ELSE one)
  BY DEF Load
<1>2. IsFiniteSet(pkg) /\ (\A n \in pkg : IsNode(n)) /\ (draft = None \/ IsSeq(draft))
      /\ (draft # None => \A i \in DOMAIN draft : IsNode(draft[i].node))
  BY DEF RInv, IInv, Typed, Shaped
<1>3. Proper(es) /\ (Sound' => Within(es, other))
  BY <1>2, LoadedWithin
<1>4. draft # None => Proper(Restored) /\ (Sound' => Within(Restored, other))
  BY <1>2, RestoredWithin
<1>5. \A s \in States' : Proper(s.entries) /\ (Sound' => Within(s.entries, other))
  <2>1. CASE OpenWith(es, <<>>)
    <3>1. \A s \in States' : s.entries = es
      BY <2>1, OpenStates
    <3>2. QED
      BY <1>3, <3>1
  <2>2. CASE draft # None /\ OpenWith(Restored, IF Restored = es THEN <<>> ELSE one)
    <3> DEFINE snapshots == IF Restored = es THEN <<>> ELSE one
    <3>1. OpenWith(Restored, snapshots) /\ (snapshots = <<>> \/ snapshots = one)
      BY <2>2
    <3> HIDE DEF snapshots, es
    <3>2. \A s \in States' : s.entries = Restored \/ s.entries = Loaded(pkg)
      BY <3>1, OpenStates
    <3>3. QED
      BY <1>3, <1>4, <2>2, <3>2 DEF es
  <2>3. QED
    BY <1>1, <2>1, <2>2
<1> HIDE DEF es, one
<1>6. Named' = Named /\ Libs' = other
  BY DEF Named, Libs
<1>7. (draft' # None => draft' = draft /\ draft # None)
  BY <1>1
<1>8. Shaped'
  BY <1>2, <1>5, <1>7 DEF RInv, Shaped, Proper
<1>9. WorkWithin'
  <2>1. ASSUME draft' # None, Sound' PROVE Within(draft', Libs')
    BY <1>6, <1>7, <2>1 DEF Within, Handles
  <2>2. QED
    BY <1>5, <1>6, <2>1 DEF WorkWithin
<1>10. Resting'
  <2>1. ~warned /\ ~stale => Named \subseteq pkg \cup other
    BY ReachedKept DEF InstancesResolve
  <2>2. QED
    BY <1>6, <2>1 DEF Resting
<1>11. Renaming' /\ Following' /\ Clearing'
  BY DEF Renaming, Following, Clearing
<1>12. QED
  BY <1>8, <1>9, <1>10, <1>11 DEF RRest

LEMMA ReopenRests == RInv /\ Reopen => RRest'
<1> SUFFICES ASSUME RInv, Reopen PROVE RRest'
  OBVIOUS
<1>1. /\ save = Idle /\ Load(~Dirty) /\ save' = Idle
      /\ UNCHANGED <<pkg, other, inst, cut, stale, warned>>
  BY DEF Reopen, disk
<1>2. told' = {}
  BY <1>1 DEF Load, OpenWith
<1>3. Sound' = Sound /\ Libs = other
  BY <1>1 DEF Sound, Libs
<1>4. Sound' => Whole(pkg \cup other) /\ (draft # None => Within(draft, other))
  BY <1>1, <1>3 DEF RInv, Resting, WorkWithin
<1>5. QED
  BY <1>1, <1>2, <1>4, LoadRests

\* Wherever the application dies in a save, what the instances remember is on disk.
LEMMA CrashRests == RInv /\ Crash => RRest'
<1> SUFFICES ASSUME RInv, Crash PROVE RRest'
  OBVIOUS
<1>1. /\ save' = Idle /\ Load(TRUE) /\ UNCHANGED <<pkg, other, inst, stale, warned>>
      /\ cut' = (cut \/ save.pc = "remove" \/ \E n \in pkg \cup other : ~(n.refs \subseteq pkg \cup other))
  <2>1. UNCHANGED disk
    BY Zenon DEF Crash
  <2>2. QED
    BY <2>1 DEF Crash, disk
<1>2. told' = {}
  BY <1>1 DEF Load, OpenWith
<1>3. ASSUME Sound' PROVE Whole(pkg \cup other) /\ (draft # None => Within(draft, other))
  <2>1. Sound /\ Whole(pkg \cup other)
    BY <1>1, <1>3 DEF Sound, Whole
  <2>2. Libs \subseteq other
    <3>1. CASE save = Idle
      BY <3>1 DEF Libs
    <3>2. CASE save # Idle
      <4>1. save.pc # "remove"
        BY <1>1, <1>3 DEF Sound
      <4>2. QED
        BY <2>1, <3>2, <4>1 DEF Libs, Sound, RInv, Following, FollowingIn
    <3>3. QED
      BY <3>1, <3>2
  <2>3. QED
    BY <2>1, <2>2 DEF RInv, WorkWithin, Within
<1>4. QED
  BY <1>1, <1>2, <1>3, LoadRests

LEMMA InitRests == Init => RRest
<1> SUFFICES ASSUME Init PROVE RRest
  OBVIOUS
<1>1. PICK s \in Starts : pkg = s.pkg /\ other = s.other /\ inst = s.inst
  BY DEF Init
<1>2. /\ told = {} /\ draft = None /\ doc = Loaded(pkg) /\ save = Idle
      /\ undo = <<>> /\ redo = <<>> /\ before = Take
  BY DEF Init
<1>3. /\ IsFiniteSet(pkg) /\ IsFiniteSet(other) /\ \A n \in pkg \cup other : IsNode(n)
      /\ Whole(pkg \cup other) /\ Named \subseteq pkg \cup other
  <2>1. /\ IsFiniteSet(s.pkg) /\ IsFiniteSet(s.other)
        /\ \A k \in DOMAIN s.inst : s.inst[k] \in s.pkg \cup s.other
        /\ \A n \in s.pkg \cup s.other :
             n = [c |-> n.c, refs |-> n.refs] /\ n.refs \subseteq s.pkg \cup s.other
    BY DocumentAssumption, StartsWhole
  <2>2. /\ IsFiniteSet(pkg) /\ IsFiniteSet(other)
        /\ \A k \in DOMAIN inst : inst[k] \in pkg \cup other
        /\ \A n \in pkg \cup other : n = [c |-> n.c, refs |-> n.refs] /\ n.refs \subseteq pkg \cup other
    BY <1>1, <2>1
  <2>3. QED
    BY <2>2 DEF IsNode, Whole, Named
<1>4. Proper(doc) /\ Within(doc, other)
  BY <1>2, <1>3, LoadedWithin
<1>5. \A t \in States : t.entries = doc
  <2>1. Snapshots = Rng(undo) \cup Rng(redo) \cup {before}
    BY DEF Snapshots, Rng
  <2>2. States = {Take} /\ Take.entries = doc
    BY <1>2, <2>1, EmptyForm DEF States, Take
  <2>3. QED
    BY <2>2
<1>6. Shaped
  BY <1>2, <1>3, <1>4, <1>5 DEF Shaped, Proper
<1>7. WorkWithin
  BY <1>2, <1>4, <1>5 DEF WorkWithin, Libs
<1>8. Resting
  BY <1>2, <1>3 DEF Resting
<1>9. Renaming /\ Following /\ Clearing
  BY <1>2 DEF Renaming, Following, Clearing
<1>10. QED
  BY <1>6, <1>7, <1>8, <1>9 DEF RRest

LEMMA StepRests == RInv /\ [Next]_vars => RRest'
<1> SUFFICES ASSUME RInv, [Next]_vars PROVE RRest'
  OBVIOUS
<1>1. CASE Replace \/ Add \/ RemoveNode \/ Link \/ MergeInto
  BY <1>1, ReplaceRests, AddRests, RemoveNodeRests, LinkRests, MergeIntoRests
<1>2. CASE Commit \/ Undo \/ Redo
  BY <1>2, HistoryRests
<1>3. CASE SaveBegins \/ Write \/ WriteFails \/ WriteUndone \/ SaveFailed
  BY <1>3, SaveBeginsRests, WriteRests, WriteFailsRests, WriteUndoneRests, SaveFailedRests
<1>4. CASE WritesLanded \/ Gone \/ Saved
  BY <1>4, WritesLandedRests, GoneRests, SavedRests
<1>5. CASE WriteDraft \/ Reopen \/ Crash
  BY <1>5, WriteDraftRests, ReopenRests, CrashRests
<1>6. CASE UNCHANGED vars
  <2>1. UNCHANGED <<pkg, other, inst, doc, rev, undo, redo, before, save, draft, told, cut, stale, warned>>
    BY <1>6 DEF vars, disk, session, history
  <2>2. /\ States' = States /\ Claimed' = Claimed /\ After' = After /\ Libs' = Libs /\ Named' = Named
        /\ Sound' = Sound
    BY <2>1 DEF States, Snapshots, Take, Claimed, After, Libs, Named, Sound
  <2>3. Arrived' = Arrived /\ Slipped' = Slipped
    BY <2>1, <2>2 DEF Arrived, Slipped, Foreign
  <2>4. Shaped' /\ Resting'
    BY <2>1, <2>2 DEF RInv, Shaped, Resting
  <2>5. WorkWithin'
    BY <2>1, <2>2, WorkStays
  <2>6. Renaming' /\ Clearing'
    BY <2>1, <2>2, <2>3 DEF RInv, Renaming, Clearing, Whole
  <2>7. Following'
    <3> DEFINE was == save.was[3]
               old == save.was[1] \cup save.was[2]
    <3>1. was' = was /\ old' = old
      BY <2>1
    <3>2. save # Idle /\ save.pc # "remove" => FollowingIn(was, old)
      BY DEF RInv, Following
    <3> HIDE DEF was, old
    <3>3. FollowingIn(was, old)' <=> FollowingIn(was, old)
      BY <2>1, <2>2, <2>3, <3>1 DEF FollowingIn
    <3>4. QED
      BY <2>1, <3>2, <3>3 DEF Following, was, old
  <2>8. QED
    BY <2>4, <2>5, <2>6, <2>7 DEF RRest
<1>7. QED
  BY <1>1, <1>2, <1>3, <1>4, <1>5, <1>6 DEF Next

\* At every step of a save, and wherever it fails or the application dies in it, what the
\* instances remember is on disk, and everything it contains is, short of what the author was
\* told of and of a file that a node brought back by undo still gave as its own.
THEOREM InstancesAlwaysResolve == Spec => []InstancesResolve
<1>1. Init => RInv
  BY InitIInv, InitRests DEF RInv, RRest
<1>2. RInv /\ [Next]_vars => RInv'
  BY StepKeeps, StepRests DEF RInv, RRest
<1>3. QED
  BY <1>1, <1>2, ReachedKept, PTL DEF Spec

--------------------------------------------------------------------------------
(* One name, given what draft handles are *)

\* A draft handle is no CID: src/src/pkgdoc.cpp:520 makes these begin with "draft-".
NoDraftIsNode == \A d \in Given : ~IsNode(d)

\* A save names nodes by their content.
MapsToNodes == save # Idle => \A h \in DOMAIN save.map : IsNode(save.map[h])

LEMMA SaveBeginsMaps == RInv /\ SaveBegins => MapsToNodes'
<1> SUFFICES ASSUME RInv, SaveBegins, save' # Idle
             PROVE  \A h \in DOMAIN save'.map : IsNode(save'.map[h])
  BY DEF MapsToNodes, Idle
<1>1. \E lib : lib = Pending(Handles(doc)) /\ ~Circle(lib) /\ save' = Plan(lib)
  BY DEF SaveBegins
<1>2. PICK lib : lib = Pending(Handles(doc)) /\ ~Circle(lib) /\ save' = Plan(lib)
  BY <1>1
<1>3. PICK p : p = Plan(lib)
  OBVIOUS
<1>4. IsEntries(doc) /\ (\A i \in DOMAIN doc : IsNode(doc[i].node)) /\ (\A n \in other : IsNode(n))
  BY DocProper DEF Proper, RInv, Shaped
<1> DEFINE after == {Pick(p.map, n) : n \in other}
<1>5. /\ \A h \in DOMAIN p.map : Pick(p.map, h) \in ClaimedBy(p) \cup after
      /\ \A n \in ClaimedBy(p) \cup after : IsNode(n)
  BY <1>2, <1>3, <1>4, PlanNames
<1> HIDE DEF after
<1>6. \A h \in DOMAIN p.map : IsNode(p.map[h])
  BY <1>5 DEF Pick
<1>7. save' = p
  BY <1>2, <1>3
<1>8. QED
  BY <1>6, <1>7

LEMMA StepMaps == RInv /\ MapsToNodes /\ [Next]_vars => MapsToNodes'
<1> SUFFICES ASSUME RInv, MapsToNodes, [Next]_vars PROVE MapsToNodes'
  OBVIOUS
<1>1. CASE UNCHANGED save
  BY <1>1 DEF MapsToNodes, Idle
<1>2. CASE save' = Idle
  BY <1>2 DEF MapsToNodes, Idle
<1>3. CASE SaveBegins
  BY <1>3, SaveBeginsMaps
<1>4. ASSUME NEW pc, Saves(pc), pc \in {"write", "back", "remove"}, save'.map = save.map
      PROVE  MapsToNodes'
  <2>1. save # Idle
    BY <1>4, AtWork DEF RInv, IInv
  <2>2. QED
    BY <1>4, <2>1 DEF MapsToNodes
<1>5. CASE Write \/ WriteFails \/ WriteUndone \/ WritesLanded \/ Gone
  <2>1. PICK pc \in {"write", "back", "remove"} : Saves(pc)
    BY <1>5 DEF Write, WriteFails, WriteUndone, WritesLanded, Gone
  <2>2. IsPlan(save)
    BY <2>1, AtWork DEF RInv, IInv
  <2>3. "map" \in DOMAIN save
    BY <2>2 DEF IsPlan
  <2>4. save'.map = save.map
    BY <1>5, <2>3 DEF Write, WriteFails, WriteUndone, WritesLanded, Gone
  <2>5. QED
    BY <1>4, <2>1, <2>4
<1>6. CASE Replace \/ Add \/ RemoveNode \/ Link \/ MergeInto
  BY <1>1, <1>6 DEF Replace, Add, RemoveNode, Link, MergeInto, Touch
<1>7. CASE Commit \/ Undo \/ Redo
  BY <1>1, <1>7 DEF Commit, Undo, Redo, Travel
<1>8. CASE WriteDraft \/ Reopen
  BY <1>1, <1>8 DEF WriteDraft, Reopen, Load
<1>9. CASE SaveFailed \/ Saved \/ Crash
  BY <1>2, <1>9 DEF SaveFailed, Saved, Crash
<1>10. CASE UNCHANGED vars
  BY <1>1, <1>10 DEF vars
<1>11. QED
  BY <1>3, <1>5, <1>6, <1>7, <1>8, <1>9, <1>10 DEF Next

\* As draft handles are no CIDs, a node has one name in the document and in all that can be
\* undone and redone: a save renames it everywhere, and a new node's handle was never given.
THEOREM OneNameForEach == ASSUME NoDraftIsNode PROVE Spec => []OneName
<1>1. Init => RInv /\ MapsToNodes
  <2>1. Init => save = Idle
    BY DEF Init
  <2>2. QED
    BY <2>1, InitIInv, InitRests DEF RInv, RRest, MapsToNodes
<1>2. RInv /\ MapsToNodes /\ [Next]_vars => (RInv /\ MapsToNodes)'
  <2>1. RInv /\ [Next]_vars => RInv'
    BY StepKeeps, StepRests DEF RInv, RRest
  <2>2. QED
    BY <2>1, StepMaps
<1>3. RInv /\ MapsToNodes => CidsAreNoDrafts
  BY DEF RInv, Shaped, MapsToNodes, CidsAreNoDrafts, NoDraftIsNode
<1>4. QED
  BY <1>1, <1>2, <1>3, NamesStayApart, PTL DEF Spec

================================================================================
