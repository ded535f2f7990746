------------------------- MODULE BlockingProperties -------------------------
(***************************************************************************)
(* What a batch on a CUDA or Metal device must get right.                  *)
(***************************************************************************)
EXTENDS BlockingBatch, KernelProperties

CudaPlaces == {"upload", "reset", "copy"}
MetalPlaces == {"write"}
Places == {"idle", "run", "summary", "check", "failed"}

TypeOK ==
  /\ KernelTypeOK
  /\ api \in {"cuda", "metal"}
  /\ host \in Places \cup (IF api = "cuda" THEN CudaPlaces ELSE MetalPlaces)
  /\ job \in Jobs \cup {None} /\ start \in Nonces /\ calls \in Nat
  /\ params \in [job : Jobs, start : Nonces] \cup {None}
  /\ generation \in Jobs \cup {None}
  /\ summary \in [count : Nat, overflow : Nat, generation : Jobs \cup {None}]
  /\ copied \in Seq(Nonces \cup {None})

Calling == host \notin {"idle", "failed"}
Launched == host \in {"run", "summary", "copy", "check"}

(* From the launch on, the device works for this call and no other.        *)
DeviceInv ==
  /\ Calling => job \in Jobs /\ answer = None
  /\ host = "reset" \/ Launched =>
       words = Header(job) /\ params = [job |-> job, start |-> start]
  /\ Launched /\ api = "cuda" => generation = job

(* Work items are where they start unless the kernel runs.                 *)
ItemsInv ==
  /\ SlotsInLane
  /\ host \notin {"run", "failed"} => ItemsAtStart

(* Since the counters were cleared the claims are this batch's; they grow  *)
(* with the kernel and are complete behind it.  What found no slot is      *)
(* counted as overflow by CUDA and shows in the count either way.          *)
ClaimsInv ==
  Launched =>
    /\ ClaimsAre(job, start, api)
    /\ host = "run" => ClaimsFollow(job, start)
    /\ host # "run" => AllClaimed(job, start)

(* The host judges the counters the kernel left, and on CUDA the buffer it *)
(* copied goes with them.                                                  *)
SummaryInv ==
  host \in {"copy", "check"} =>
    /\ summary.count = count
    /\ api = "cuda" =>
         /\ summary.overflow = overflow
         /\ host = "check" =>
              copied = [k \in 1 .. Least(count, Capacity) |-> results[k - 1]]

(* No candidate is lost or doubled at any moment of a batch, and none of   *)
(* an earlier batch survives into it.                                      *)
BlockingInv == TypeOK /\ DeviceInv /\ ItemsInv /\ ClaimsInv /\ SummaryInv

(* What mine promises is BatchSearch: the candidates of this job in this   *)
(* batch, all of them and each once, or an error.  A batch with more of    *)
(* them than slots is an error, never a short list.                        *)
Request == IF Calling THEN [job |-> job, start |-> start] ELSE None

Promise ==
  INSTANCE BatchSearch WITH request <- Request, failed <- host = "failed"
SearchIsExact == Promise!Spec
=============================================================================
