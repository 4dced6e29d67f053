---------------------------- MODULE MCReceivedShares ----------------------------
(* Instances of ReceivedShares for TLC. *)
EXTENDS ReceivedShares

\* Two generations of one package, each a node of its own, and another package.
MCPackages == {"game", "tool"}
MCFolders == {"game1", "game2", "tool1"}
MCNodes == {"a", "b", "t"}
MCPkgOf == [f \in MCFolders |-> IF f = "tool1" THEN "tool" ELSE "game"]
MCLists == [f \in MCFolders |-> CASE f = "game1" -> {"a"} [] f = "game2" -> {"b"} [] f = "tool1" -> {"t"}]

Republished == <<{"game1"}, {"game2", "tool1"}>>
================================================================================
