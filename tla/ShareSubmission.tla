-------------------------- MODULE ShareSubmission --------------------------
(***************************************************************************)
(* What the miner promises its pool, with no threads, epochs or channels:  *)
(* at any moment it holds at most one job of the current connection, and   *)
(* every share it submits solves that job under that job's own target.     *)
(* Miner.tla is shown to implement this module.                            *)
(***************************************************************************)
EXTENDS Naturals

CONSTANTS
  Headers,       \* the 80-byte block headers a job may ask to be searched
  Targets,       \* share targets; a digest meets a target it does not exceed
  Nonces,        \* the nonces of one header
  Digest(_, _),  \* Digest(h, n): the hash of header h with nonce n
  None           \* no job

VARIABLES
  job,           \* the pool's current job, or None
  submitted      \* every share submitted so far, with the job it solves

vars == <<job, submitted>>

Jobs   == [header : Headers, target : Targets]
Shares == [header : Headers, target : Targets, nonce : Nonces]

TypeOK ==
  /\ job \in Jobs \cup {None}
  /\ submitted \subseteq Shares

Init ==
  /\ job = None
  /\ submitted = {}

(* The pool hands out a job, or changes the target of the one it gave.     *)
Assign(j) ==
  /\ job' = j
  /\ UNCHANGED submitted

(* The job is withdrawn: a newer one is on its way, or the connection is   *)
(* gone.                                                                   *)
Withdraw ==
  /\ job' = None
  /\ UNCHANGED submitted

(* A share is worth submitting only if it solves the job held now.         *)
Submit(n) ==
  /\ job # None
  /\ Digest(job.header, n) <= job.target
  /\ submitted' = submitted \cup
       {[header |-> job.header, target |-> job.target, nonce |-> n]}
  /\ UNCHANGED job

Next ==
  \/ \E j \in Jobs : Assign(j)
  \/ Withdraw
  \/ \E n \in Nonces : Submit(n)

Spec == Init /\ [][Next]_vars
=============================================================================
