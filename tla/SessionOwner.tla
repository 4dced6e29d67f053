------------------------------ MODULE SessionOwner ------------------------------
(***************************************************************************)
(* What the lock of a session folder promises (src/src/vfsmount.h:84):     *)
(* a folder has at most one owner, only its owner makes or removes what is *)
(* in it, and an owner that dies, however it dies, owns nothing any more.  *)
(***************************************************************************)
CONSTANTS Actors, Folders, Processes, NoOne

VARIABLES owner, folder

vars == <<owner, folder>>

Init == /\ owner = [f \in Folders |-> NoOne]
        /\ folder \in [Folders -> BOOLEAN]

Claim(a, f) ==
  /\ owner[f] = NoOne
  /\ owner' = [owner EXCEPT ![f] = a]
  /\ UNCHANGED folder

Work(a, f) ==
  /\ owner[f] = a
  /\ folder' \in {[folder EXCEPT ![f] = b] : b \in BOOLEAN}
  /\ UNCHANGED owner

Release(a, f) ==
  /\ owner[f] = a
  /\ owner' = [owner EXCEPT ![f] = NoOne]
  /\ UNCHANGED folder

Die(P) ==
  /\ owner' = [f \in Folders |-> IF owner[f] \in P THEN NoOne ELSE owner[f]]
  /\ UNCHANGED folder

Next ==
  \/ \E a \in Actors, f \in Folders : Claim(a, f) \/ Work(a, f) \/ Release(a, f)
  \/ \E P \in Processes : Die(P)

Spec == Init /\ [][Next]_vars
================================================================================
