---------------------------- MODULE MCDownloadQueue ----------------------------
(* Instances of DownloadQueue for TLC. *)
EXTENDS DownloadQueue, TLC

CONSTANTS c1, c2, c3, k1, k2, w1, w2

\* Two folders with the same names in them: a path is <<folder, name>>.
MCFolders == {"catalog", "library"}
In(f, n) == <<f, n>>
PathsIn(fs, ns) == {In(f, n) : f \in fs, n \in ns}
P1 == PathsIn({"catalog"}, {"a", "b"})
P2 == PathsIn(MCFolders, {"a"})
P4 == PathsIn(MCFolders, {"a", "b"})
MCFolderOf == [p \in Paths |-> p[1]]
MCMovedTo == [f \in Folders |-> [p \in Paths |-> IF In(f, p[2]) \in Paths THEN In(f, p[2]) ELSE p]]

Cat(n) == In("catalog", n)
Want(c, p) == [cid |-> c, path |-> p, optional |-> FALSE, dir |-> FALSE, verify |-> FALSE]
Nice(c, p) == [Want(c, p) EXCEPT !.optional = TRUE]
Sure(c, p) == [Want(c, p) EXCEPT !.verify = TRUE]
Tree(c, p) == [Want(c, p) EXCEPT !.dir = TRUE]
Bulk(ts) == [targets |-> ts, bounded |-> FALSE, bump |-> FALSE]
Launch(t) == [targets |-> {t}, bounded |-> TRUE, bump |-> TRUE]

\* A bulk download of a required and an optional file, and a launch that needs
\* the optional one at once.
ScheduleBatches == {Bulk({Want(c1, Cat("a")), Nice(c2, Cat("b"))}), Launch(Want(c2, Cat("b")))}
ScheduleCalls == {<<"cancel", c1>>, <<"prioritize", c1>>, <<"flag", c2>>, <<"close">>, <<"open">>}
CloseCalls == {<<"close">>}

\* One CID wanted at two places by two callers.
JoinBatches == {Bulk({Want(c1, Cat("a"))}), Bulk({Sure(c1, In("library", "a"))})}

\* One CID wanted at two reusable places by every caller.
VerifyBatches == {Bulk({Sure(c1, Cat("a")), Sure(c1, Cat("b"))})}
VerifyCalls == {<<"cancel", c1>>, <<"unflag", c1>>, <<"limit", 1>>}

\* A received package: a file and a folder CID, the folder dropped or moved; the
\* file's new place may be the one the other CID is wanted at.
FolderBatches == {Bulk({Want(c1, Cat("a"))}), Bulk({Tree(c2, Cat("b"))}),
                  Bulk({Sure(c3, In("library", "a"))})}
FolderCalls == {<<"forget", "catalog">>, <<"remove", "catalog">>, <<"move", "catalog", "library">>,
                <<"unmove", "catalog">>}

Everyone == Permutations(Callers) \cup Permutations(Slots)
================================================================================
