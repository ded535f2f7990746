------------------------------ MODULE Hashing ------------------------------
(***************************************************************************)
(* blake2b256 hashes an input, a round at a time, and, if the input is a   *)
(* header with a nonce, a kernel hashes the same header beside it: one     *)
(* round for each of blake2b256's.                                         *)
(***************************************************************************)
EXTENDS Kernels

CONSTANTS
  Inputs,       \* sequences of bytes
  Headers,      \* arrays of 80 bytes
  FirstNonces,  \* words: the start nonces of hash4, masks and batches
  Lanes,        \* small numbers: lanes, or offsets in a batch
  None          \* model value: no kernel

HeaderSize == 80
ASSUME HashingAssumption ==
  /\ \A in \in Inputs : in \in Seq(Bytes) /\ Len(in) < Base
  /\ Headers \subseteq [1 .. HeaderSize -> Bytes]
  /\ FirstNonces \subseteq Word /\ Lanes \subseteq 0 .. Base - 1

VARIABLES
  input,      \* blake2b256's argument
  offset, h, m, v, last,  \* its variables and those of compress
  round,      \* rounds done; 12 when no block is at hand
  kernel,     \* a variant, or None
  message, w  \* the kernel's message and working vector

vars == <<input, offset, h, m, v, last, round, kernel, message, w>>
Rounds == 12

(* first_nonce.wrapping_add(lane), start_nonce + offset                    *)
NonceOf(first, lane) == Add(first, W(0, 0, 0, lane))

(* header[32..40].copy_from_slice(&nonce.to_le_bytes())                    *)
Stamped(header, nonce) ==
  [i \in 1 .. HeaderSize |->
     IF i \in 33 .. 40 THEN ToBytes(nonce)[i - 32] ELSE header[i]]

Init ==
  /\ offset = 0 /\ h = Chain0 /\ last = FALSE /\ round = Rounds
  /\ v = Literal /\ m = <<>>
  /\ \/ /\ input \in Inputs
        /\ kernel = None /\ message = <<>> /\ w = v
     \/ \E header \in Headers, first \in FirstNonces, lane \in Lanes :
          LET nonce == NonceOf(first, lane)
              words == MessageWords(Padded(header, 0))
          IN  /\ input = Stamped(header, nonce)
              /\ kernel \in Cpu \cup Gpu
              /\ message = Message(words, nonce)
              /\ w = KernelStart(kernel, words)

(* Mutant of IsLast: a full block is never the last.                       *)
IsLastPart == Len(input) - offset < BlockSize

(* The loop runs while more than a block remains.                          *)
IsLast == Len(input) - offset <= BlockSize

NextBlock ==
  /\ round = Rounds /\ ~last
  /\ last' = IsLast
  /\ LET count == IF IsLast THEN Len(input) ELSE offset + BlockSize
     IN  v' = Start(h, count, IsLast)
  /\ m' = MessageWords(Padded(input, offset))
  /\ offset' = offset + BlockSize /\ round' = 0
  /\ UNCHANGED <<input, h, kernel, message, w>>

NextRound ==
  /\ round < Rounds
  /\ round' = round + 1
  /\ v' = Round("rotate", v, m, SIGMA[round'])
  /\ h' = IF round' = Rounds THEN Finish(h, v') ELSE h
  /\ w' = IF kernel = None THEN w ELSE KernelRound(kernel, w, message, round')
  /\ UNCHANGED <<input, offset, m, last, kernel, message>>

Hashed == last /\ round = Rounds
Terminated == Hashed /\ UNCHANGED vars

Next == NextBlock \/ NextRound \/ Terminated

Spec == Init /\ [][Next]_vars
=============================================================================
