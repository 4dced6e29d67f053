------------------------------- MODULE DestFiles -------------------------------
(***************************************************************************)
(* The destination files of the download queue, as far as the queue can    *)
(* tell them apart: which content a path holds, and which paths are hard   *)
(* links to one inode (the queue places a fetched file at its further      *)
(* destinations by linking, and falls back to copying OVER what is there,  *)
(* which writes through every link of that inode).                         *)
(***************************************************************************)
EXTENDS FiniteSets

CONSTANTS Cids,      \* content identifiers
          Paths,     \* destination paths
          NoFile,    \* "nothing at this path"
          Torn,      \* a file a failed or killed copy left half written
          Faults     \* what the filesystem may refuse: "link", "copy"

Contents == Cids \cup {NoFile, Torn}

\* twins: every path that is a link to the same inode, the path itself included.
Files == [Paths -> [cid : Contents, twins : SUBSET Paths]]

Exists(d, p) == d[p].cid # NoFile

Fresh(p, v) == [cid |-> v, twins |-> IF v = NoFile THEN {} ELSE {p}]

\* Path p gets content v in an inode of its own; the links it shared lose it.
Replace(d, p, v) ==
  [q \in Paths |-> IF q = p THEN Fresh(p, v)
                            ELSE [cid |-> d[q].cid, twins |-> d[q].twins \ {p}]]

\* Remove the files at a set of paths.
Removed(d, gone) ==
  [q \in Paths |-> IF q \in gone THEN Fresh(q, NoFile)
                                 ELSE [cid |-> d[q].cid, twins |-> d[q].twins \ gone]]

\* Content v is written into the inode p names: every link of it changes.
Rewrite(d, p, v) ==
  [q \in Paths |-> IF q \in d[p].twins \cup {p}
                   THEN [cid |-> v, twins |-> d[q].twins] ELSE d[q]]

\* A hard link named "to" to the inode of "from".
Link(d, from, to) ==
  LET all == d[from].twins \cup {to}
  IN [q \in Paths |-> IF q \in all THEN [cid |-> d[from].cid, twins |-> all] ELSE d[q]]

Outcome(ok, d) == [ok |-> ok, disk |-> d]

\* Materialize(From, To) of a FILE, and what it may leave on disk: hard link;
\* "already the same file" counts as placed; else copy over what is there.
PlaceFile(d, from, to) ==
  LET v    == d[from].cid
      over(w) == IF Exists(d, to) THEN Rewrite(d, to, w) ELSE Replace(d, to, w)
      copied == {Outcome(TRUE, over(v))} \cup
                (IF "copy" \in Faults THEN {Outcome(FALSE, d), Outcome(FALSE, over(Torn))} ELSE {})
  IN IF ~Exists(d, from) THEN {Outcome(FALSE, d)}
     ELSE IF Exists(d, to)
          THEN IF to \in d[from].twins THEN {Outcome(TRUE, d)} ELSE copied
          ELSE {Outcome(TRUE, Link(d, from, to))} \cup (IF "link" \in Faults THEN copied ELSE {})

\* Materialize of a FOLDER: the destination tree is removed, then placed file by
\* file; it stops at the first file it cannot place.
PlaceTree(d, from, to) ==
  IF ~Exists(d, from) THEN {Outcome(FALSE, d)}
  ELSE {Outcome(TRUE, Replace(d, to, d[from].cid))} \cup
       (IF "copy" \in Faults
        THEN {Outcome(FALSE, Replace(d, to, NoFile)), Outcome(FALSE, Replace(d, to, Torn))}
        ELSE {})

Materialize(d, from, to, dir) == IF dir THEN PlaceTree(d, from, to) ELSE PlaceFile(d, from, to)
================================================================================
