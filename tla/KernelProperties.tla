-------------------------- MODULE KernelProperties --------------------------
(***************************************************************************)
(* What is true of the work items of a launch and of their claims on the   *)
(* result buffer, whichever host waits for them.  j and s are the job and  *)
(* the start nonce of the batch, dev is the API of the device.             *)
(***************************************************************************)
EXTENDS Kernel

KernelTypeOK ==
  /\ words \in Headers \cup {None}
  /\ count \in Nat /\ overflow \in Nat
  /\ results \in [0 .. Capacity - 1 -> Nonces \cup {None}]
  /\ lane \in [Items -> 0 .. NoncesPerItem]
  /\ slot \in [Items -> Nat \cup {None}]
  /\ claims \in Seq(Offsets)

SlotsInLane == \A i \in Items : slot[i] # None => ~Ended(i)
ItemsAtStart == \A i \in Items : lane[i] = 0 /\ slot[i] = None

(* The k-th claim: its candidate's item is about to use slot k - 1, or has *)
(* stored it there or, but on Metal, counted it as overflow.               *)
Held(k) == \E i \in Items : slot[i] = k - 1 /\ Offset(i) = claims[k]
Stored(k, s, dev) ==
  IF k - 1 < Capacity THEN results[k - 1] = Nonce(s, claims[k])
                      ELSE dev # "metal" => overflow > 0

(* Offsets that items have behind them or hold a slot for.                 *)
Passed(offset) ==
  \E i \in Items, l \in 0 .. NoncesPerItem - 1 :
    /\ offset = i * NoncesPerItem + l
    /\ l < lane[i] \/ (l = lane[i] /\ slot[i] # None)

Claimed(offset) == \E k \in DOMAIN claims : claims[k] = offset

(* The claims are distinct candidates of the batch, each in its slot.      *)
ClaimsAre(j, s, dev) ==
  /\ Len(claims) = count
  /\ \A k, n \in DOMAIN claims : claims[k] = claims[n] => k = n
  /\ \A k \in DOMAIN claims :
       /\ claims[k] \in CandidateOffsets(j, s)
       /\ Held(k) \/ Stored(k, s, dev)
  /\ \A i \in Items : slot[i] # None =>
       slot[i] < count /\ claims[slot[i] + 1] = Offset(i)

(* While items move, what is passed is claimed and the other way round;    *)
(* behind them every candidate of the batch is.                            *)
ClaimsFollow(j, s) ==
  /\ \A k \in DOMAIN claims : Passed(claims[k])
  /\ \A offset \in CandidateOffsets(j, s) : Passed(offset) => Claimed(offset)

AllClaimed(j, s) == \A offset \in CandidateOffsets(j, s) : Claimed(offset)
=============================================================================
