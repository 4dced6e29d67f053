------------------------------- MODULE FetchQueue -------------------------------
(***************************************************************************)
(* What the download queue promises those who use it (the comments of      *)
(* src/src/downloadqueue.h): one job per CID, which a request queues       *)
(* again, its own fetch settles, a cancel ends, and a closed queue fails.  *)
(* Destinations, priorities, backoff and sleeping are left to              *)
(* DownloadQueue, which implements this module.                            *)
(*                                                                         *)
(* A fetch belongs to the job it was started for until it ends, whatever   *)
(* becomes of the job meanwhile: a late placement that fails, or a request *)
(* to a closed queue, fails even a job whose fetch is under way, and the   *)
(* fetch then settles it once more.                                        *)
(***************************************************************************)
CONSTANTS Cids,
          Fetches,      \* the slots a fetch may take
          Nothing       \* what a free slot fetches

VARIABLES job,      \* each CID's job: its state, or "none"
          at,       \* the CID each slot fetches, to the moment it settles the job
          doomed,   \* the CIDs cancelled while a fetch was at them: that fetch fails
          flag,     \* the CIDs whose cancel flag is raised in the node
          closed    \* the queue takes no more requests

jobVars == <<job, at, doomed, flag, closed>>

JobStates == {"none", "queued", "active", "done", "failed"}

Unfinished(c) == job[c] \notin {"none", "done"}

\* What a request makes of a job: one that is done is fetched again only when
\* its file is not where it was placed; a first one may be there already.
Asked(s) == CASE s = "none"   -> {"queued", "done"}
              [] s = "done"   -> {"done", "queued"}
              [] s = "failed" -> {"queued"}
              [] OTHER        -> {s}

\* A request takes back the node's flag, not the doom of a fetch under way.
Ask(c) ==
  \/ /\ closed
     /\ job' = [job EXCEPT ![c] = IF @ = "done" THEN @ ELSE "failed"]
     /\ UNCHANGED <<at, doomed, flag, closed>>
  \/ /\ ~closed
     /\ \E s \in Asked(job[c]) : job' = [job EXCEPT ![c] = s]
     /\ flag' = flag \ {c}
     /\ UNCHANGED <<at, doomed, closed>>

Start(c, w) ==
  /\ job[c] = "queued" /\ at[w] = Nothing
  /\ job' = [job EXCEPT ![c] = "active"]
  /\ at' = [at EXCEPT ![w] = c]
  /\ UNCHANGED <<doomed, flag, closed>>

\* A fetch ends, or its job waits for another turn; the queue clears a flag it raised.
Settle(c, w) ==
  /\ at[w] = c
  /\ \E s \in (IF c \in doomed THEN {"failed"} ELSE {"done", "failed", "queued"}) :
       job' = [job EXCEPT ![c] = s]
  /\ at' = [at EXCEPT ![w] = Nothing]
  /\ doomed' = doomed \ {c}
  /\ flag' \in {flag, flag \ {c}}
  /\ UNCHANGED closed

\* A late placement failed: so does its job, whatever that has become.
Spoil(c) ==
  /\ job' = [job EXCEPT ![c] = "failed"]
  /\ UNCHANGED <<at, doomed, flag, closed>>

\* CancelDownload: a queued job ends at once, an active one at its next checkpoint.
Cancel(c) ==
  /\ job' = [job EXCEPT ![c] = IF @ = "queued" THEN "failed" ELSE @]
  /\ doomed' = IF job[c] = "active" THEN doomed \cup {c} ELSE doomed
  /\ flag' = flag \cup {c}
  /\ UNCHANGED <<at, closed>>

\* RequestCancel, ClearCancel: the node's flag alone.
Raise(c) == flag' = flag \cup {c} /\ UNCHANGED <<job, at, doomed, closed>>
Clear(c) == flag' = flag \ {c} /\ UNCHANGED <<job, at, doomed, closed>>

Active == {c \in Cids : job[c] = "active"}

\* CloseQueue: what is queued fails, what is active is told to stop.
Close ==
  /\ closed' = TRUE
  /\ job' = [c \in Cids |-> IF job[c] = "queued" THEN "failed" ELSE job[c]]
  /\ doomed' = doomed \cup Active
  /\ flag' = flag \cup Active
  /\ UNCHANGED at

Open == closed' = FALSE /\ UNCHANGED <<job, at, doomed, flag>>

NoJobs ==
  /\ job = [c \in Cids |-> "none"]
  /\ at = [w \in Fetches |-> Nothing]
  /\ doomed = {} /\ flag = {} /\ closed = FALSE

FetchStep ==
  \/ \E c \in Cids : Ask(c) \/ Spoil(c) \/ Cancel(c) \/ Raise(c) \/ Clear(c)
  \/ \E c \in Cids, w \in Fetches : Start(c, w) \/ Settle(c, w)
  \/ Close \/ Open

Promise == NoJobs /\ [][FetchStep]_jobVars
================================================================================
