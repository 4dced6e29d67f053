--------------------------- MODULE MCDownloadManager ---------------------------
(* Instances of DownloadManager for TLC. *)
EXTENDS DownloadManager

CONSTANTS game, other, c1, c2, p1, w1, w2

\* Two cards that want a file in common, each at a path of its own; the one game has a
\* runner's file as its chain.
MCPaths == {"game", "other", "runner"}
MCPathOf == [k \in Keys |-> [c \in Cids |->
               CASE c = c2 -> "runner" [] k = game -> "game" [] OTHER -> "other"]]
MCShared == [k \in Keys |-> {c1}]
MCChain == [k \in Keys |-> IF k = game THEN {c2} ELSE {}]
MCNeeds == [k \in Keys |-> {p1}]
================================================================================
