----------------------------- MODULE MCSessionLock ------------------------------
(* Instances of SessionLock for TLC. *)
EXTENDS SessionLock, TLC

CONSTANTS a1, a2, a3, game, library

\* Each actor is a process of its own.
Alone == {{a} : a \in Actors}
MCDoes == [a \in Actors |-> IF a = a3 THEN {"launch", "sweep", "command"} ELSE {"launch", "probe"}]
\* The session root holds the sessions of one game; the data folder, a library.
MCPackageOf == [f \in Folders |-> IF f \in Sessions THEN game ELSE library]

Alike == Permutations(Actors \ {a3}) \cup Permutations(Inodes)
================================================================================
