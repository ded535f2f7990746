------------------------------- MODULE Kernel -------------------------------
(***************************************************************************)
(* The work items of one kernel launch (src/blake2b_tuned.cl), which       *)
(* append the candidates they find to one bounded buffer through one       *)
(* atomic counter.  An item's steps are its accesses to that shared state. *)
(* The kernel of src/native/cuda_runtime.cu is the same.                   *)
(*                                                                         *)
(* The counters are 32 bits wide and cannot wrap: an item counts a nonce   *)
(* once, and a batch's size has 32 bits too.                               *)
(***************************************************************************)
EXTENDS Integers, Sequences

CONSTANTS
  BatchSize,     \* nonce_count
  NoncesPerItem, \* NONCES_PER_ITEM
  LocalSize,     \* the global size is rounded up to its multiple
  Capacity,      \* MAX_RESULTS
  NonceSpace,    \* nonces wrap here; 2^64 in the code
  Jobs,          \* prepared jobs; each has a generation of its own
  Headers,
  Header(_),     \* a job's words
  Target(_),     \* a job's target_prefix
  Prefix(_, _),  \* blake2b_prefix of a header and a nonce
  None

ASSUME KernelAssumption ==
  /\ BatchSize \in Nat \ {0} /\ NoncesPerItem \in Nat \ {0}
  /\ LocalSize \in Nat \ {0} /\ Capacity \in Nat \ {0}
  /\ NonceSpace \in Nat \ {0} /\ BatchSize <= NonceSpace
  /\ \A job \in Jobs : Header(job) \in Headers /\ Target(job) \in Nat
  /\ \A header \in Headers, nonce \in 0 .. NonceSpace - 1 :
       Prefix(header, nonce) \in Nat
  /\ None \notin Nat /\ None \notin Jobs

VARIABLES
  words,     \* the header in the device's memory
  count,     \* counters[0]: slots asked for
  overflow,  \* counters[1]: candidates that found no slot
  results,   \* the result buffer
  lane,      \* of each work item: the lane it is at
  slot,      \* of each work item: the slot it holds and has not used yet
  claims     \* history: the offsets that took slots 0, 1, 2, ...

items == <<lane, slot>>
memory == <<words, count, overflow, results, claims>>

Nonces == 0 .. NonceSpace - 1
Offsets == 0 .. BatchSize - 1

CeilDiv(a, b) == (a + b - 1) \div b
GlobalSize == CeilDiv(CeilDiv(BatchSize, NoncesPerItem), LocalSize) * LocalSize
Items == 0 .. GlobalSize - 1

Nonce(start, offset) == (start + offset) % NonceSpace
IsCandidate(header, job, nonce) == Prefix(header, nonce) <= Target(job)
CandidateOffsets(job, start) ==
  {offset \in Offsets : IsCandidate(Header(job), job, Nonce(start, offset))}
Candidates(job, start) ==
  {Nonce(start, offset) : offset \in CandidateOffsets(job, start)}

KernelInit ==
  /\ words = None /\ count = 0 /\ overflow = 0
  /\ results = [k \in 0 .. Capacity - 1 |-> None]
  /\ lane = [i \in Items |-> 0] /\ slot = [i \in Items |-> None]
  /\ claims = <<>>
----------------------------------------------------------------------------
(* Work items.                                                             *)

Offset(i) == i * NoncesPerItem + lane[i]

(* An item ends after its last lane, or at the end of the batch.           *)
Ended(i) == lane[i] = NoncesPerItem \/ Offset(i) >= BatchSize

Advance(i) == lane' = [lane EXCEPT ![i] = @ + 1]

Skip(i, job, start) ==
  /\ ~Ended(i) /\ slot[i] = None
  /\ ~IsCandidate(words, job, Nonce(start, Offset(i)))
  /\ Advance(i)
  /\ UNCHANGED <<memory, slot>>

(* slot = atomic_inc(counters)                                             *)
Claim(i, job, start) ==
  /\ ~Ended(i) /\ slot[i] = None
  /\ IsCandidate(words, job, Nonce(start, Offset(i)))
  /\ slot' = [slot EXCEPT ![i] = count]
  /\ count' = count + 1
  /\ claims' = Append(claims, Offset(i))
  /\ UNCHANGED <<words, overflow, results, lane>>

Store(i, start) ==
  /\ slot[i] # None
  /\ \/ /\ slot[i] < Capacity
        /\ results' = [results EXCEPT ![slot[i]] = Nonce(start, Offset(i))]
        /\ UNCHANGED overflow
     \/ /\ slot[i] >= Capacity
        /\ overflow' = overflow + 1
        /\ UNCHANGED results
  /\ slot' = [slot EXCEPT ![i] = None]
  /\ Advance(i)
  /\ UNCHANGED <<words, count, claims>>

ItemStep(i, job, start) ==
  Skip(i, job, start) \/ Claim(i, job, start) \/ Store(i, start)

AllEnded == \A i \in Items : Ended(i) /\ slot[i] = None

(* A new launch starts its items at their first lane.                      *)
ResetItems ==
  /\ lane' = [i \in Items |-> 0]
  /\ UNCHANGED slot
=============================================================================
