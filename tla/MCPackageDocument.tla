----------------------------- MODULE MCPackageDocument -----------------------------
(* One package of two nodes, P containing X, and another package's node E; an instance      *)
(* remembers E or P.                                                                        *)
EXTENDS PackageDocument
CONSTANTS d1, i1

N(c, refs) == [c |-> c, refs |-> refs]
X == N("x", {})
P == N("y", {X})
OneDraft == <<d1>>
TwoContents == {"x", "y"}

Disk(others, named) == [pkg |-> {X, P}, other |-> others, inst |-> [k \in {i1} |-> named]]
Cascade == {Disk({N("x", {P})}, N("x", {P}))}
================================================================================
