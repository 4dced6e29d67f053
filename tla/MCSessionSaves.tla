----------------------------- MODULE MCSessionSaves -----------------------------
(* Instances of SessionSaves for TLC. *)
EXTENDS SessionSaves

\* One profile in two spellings, the package has its own in one of them; three values,
\* one of them the package's.
MCNames == {"p1", "P1"}
MCLow == [n \in MCNames |-> "p1"]
MCPackaged == {"P1"}
MCValues == {"low", "mid", "high"}
================================================================================
