---------------------------- MODULE BatchSearch ----------------------------
(***************************************************************************)
(* What Backend::mine promises its worker (src/gpu/mod.rs): a call ends    *)
(* with a list of all candidates of its batch, each once and in any order, *)
(* or with an error after which the backend is not used again.             *)
(***************************************************************************)
EXTENDS Naturals, Sequences

CONSTANTS
  Jobs, Nonces,
  Candidates(_, _),  \* of a job and the nonce its batch starts at
  None

VARIABLES
  request,  \* the call under way, or None
  answer,   \* the list the last call returned, or None
  failed    \* a call has returned an error

vars == <<request, answer, failed>>

(* A sequence that holds each member of a set once.                        *)
Lists(list, S) ==
  /\ {list[i] : i \in DOMAIN list} = S
  /\ \A i, j \in DOMAIN list : list[i] = list[j] => i = j

Init == request = None /\ answer = None /\ failed = FALSE

Mine(job, start) ==
  /\ request = None /\ ~failed
  /\ request' = [job |-> job, start |-> start]
  /\ answer' = None
  /\ UNCHANGED failed

Return ==
  /\ request # None
  /\ request' = None
  /\ UNCHANGED failed
  /\ Lists(answer', Candidates(request.job, request.start))

Fail ==
  /\ request # None
  /\ failed' = TRUE
  /\ request' = None
  /\ answer' = None

Next == (\E job \in Jobs, start \in Nonces : Mine(job, start)) \/ Return \/ Fail

Spec == Init /\ [][Next]_vars
=============================================================================
