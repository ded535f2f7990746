-------------------------- MODULE OpenClProperties --------------------------
(***************************************************************************)
(* What a batch on an OpenCL device must get right.                        *)
(***************************************************************************)
EXTENDS OpenClBatch, KernelProperties

HostStates ==
  {"idle", "write", "fill", "kernel", "summary", "awaitSummary", "check",
   "results", "awaitResults", "failed"}
Program == <<"write", "fill", "kernel", "summary", "results">>
CommandType ==
  [op : {"write", "fill", "kernel", "summary", "results"}, job : Jobs,
   start : Nonces]

TypeOK ==
  /\ KernelTypeOK
  /\ host \in HostStates
  /\ job \in Jobs \cup {None} /\ start \in Nonces /\ calls \in Nat
  /\ loaded \in Jobs \cup {None}
  /\ queue \in Seq(CommandType)
  /\ summary \in [count : Nat, overflow : Nat]

(* A call is under way: the host has issued this many commands of Program, *)
(* counting an upload it could leave out, and the device has done these.   *)
Calling == host \notin {"idle", "failed"}
Issued ==
  CASE host = "write" -> 0
    [] host = "fill" -> 1
    [] host = "kernel" -> 2
    [] host = "summary" -> 3
    [] host \in {"awaitSummary", "check", "results"} -> 4
    [] OTHER -> 5
Done == Issued - Len(queue)

(* The queue holds what is issued and not done; a host that waits for a    *)
(* read has its command in the queue.                                      *)
QueueInv ==
  /\ host = "idle" => queue = <<>> /\ (loaded # None => words = Header(loaded))
  /\ Calling =>
       /\ job \in Jobs /\ answer = None
       /\ host # "write" => loaded = job
       /\ Done >= 0
       /\ \A k \in 1 .. Len(queue) :
            queue[k] = [op |-> Program[Done + k], job |-> job, start |-> start]
       /\ Done >= 1 => words = Header(job)
  /\ host \in {"check", "results"} => queue = <<>>
  /\ host = "awaitSummary" => queue # <<>>
  /\ host = "awaitResults" => Len(queue) = 1

(* Work items move only while the kernel's command is the queue's first.   *)
ItemsInv ==
  /\ SlotsInLane
  /\ (queue = <<>> \/ Head(queue).op # "kernel") => ItemsAtStart

(* Since the counters were cleared the claims are this batch's; they grow  *)
(* with the kernel and are complete behind it.                             *)
ClaimsInv == Calling /\ Done >= 2 => ClaimsAre(job, start, "opencl")

ProgressInv ==
  Calling =>
    /\ Done = 2 => ClaimsFollow(job, start)
    /\ Done >= 3 => AllClaimed(job, start)

SummaryInv ==
  /\ host \in {"check", "results", "awaitResults"} =>
       summary = [count |-> count, overflow |-> overflow]
  /\ host \in {"results", "awaitResults"} => ~Overflowed

(* No candidate is lost or doubled at any moment of a batch, and none of   *)
(* an earlier batch survives into it.                                      *)
BatchInv ==
  TypeOK /\ QueueInv /\ ItemsInv /\ ClaimsInv /\ ProgressInv /\ SummaryInv
----------------------------------------------------------------------------
(* Backend::mine's promise: whatever the interleaving of work items and of *)
(* host and device, a call returns all candidates of its batch under its   *)
(* own job, each once, or an error.                                        *)
Request ==
  IF host \in {"idle", "failed"} THEN None ELSE [job |-> job, start |-> start]

Promise ==
  INSTANCE BatchSearch WITH request <- Request, failed <- host = "failed"
SearchIsExact == Promise!Spec

(* When mine returns a list the device has nothing left to copy: the       *)
(* worker may free the job.                                                *)
UploadEndsFirst == host = "idle" => queue = <<>>
=============================================================================
