--------------------------- MODULE BlockingBatch ---------------------------
(***************************************************************************)
(* The two hosts that wait for their device at every step of a batch:      *)
(* CudaBackend::mine (src/gpu/cuda.rs with blake2b_cuda_mine of            *)
(* native/cuda_runtime.cu, on the default stream) and MetalBackend::mine   *)
(* (src/gpu/metal.rs, in memory that host and device share).               *)
(*                                                                         *)
(* Both copy a job's target and start nonce to the device together with    *)
(* its words at every call, so nothing is cached from call to call.  Any   *)
(* step may fail; then mine returns an error and the worker thread ends.   *)
(* CUDA's grid is rounded up to whole blocks; Metal's is not, and what is  *)
(* an item too many to Kernel is no thread there.                          *)
(***************************************************************************)
EXTENDS Kernel

CONSTANT MaxCalls  \* bound: calls of mine

ASSUME BlockingAssumption ==
  /\ MaxCalls \in Nat
  /\ \A j \in Jobs, s \in Nonces : [job |-> j, start |-> s] # None

VARIABLES
  api,      \* "cuda" or "metal": which backend this is
  host,     \* "idle", "failed", or what mine does next
  job, start,  \* its arguments
  params,   \* device: the job and start nonce last copied there
  generation,  \* device: the generation in CUDA's summary, that of a job
  summary,  \* what the host read of the counters
  copied,   \* what it read of the result buffer
  answer,   \* what the last call of mine returned, or None
  calls     \* bounded counter

call == <<api, job, start, calls>>
device == <<memory, params, generation>>
vars == <<items, device, host, call, summary, copied, answer>>

NoSummary == [count |-> 0, overflow |-> 0, generation |-> None]

Init ==
  /\ KernelInit
  /\ api \in {"cuda", "metal"}
  /\ host = "idle" /\ job = None /\ start = 0 /\ calls = 0
  /\ params = None /\ generation = None
  /\ summary = NoSummary /\ copied = <<>> /\ answer = None
----------------------------------------------------------------------------
Mine(j, s) ==
  /\ host = "idle" /\ calls < MaxCalls
  /\ calls' = calls + 1
  /\ job' = j /\ start' = s
  /\ host' = IF api = "cuda" THEN "upload" ELSE "write"
  /\ summary' = NoSummary /\ copied' = <<>> /\ answer' = None
  /\ UNCHANGED <<items, device, api>>

(* An error of the driver, at any step.                                    *)
Fail ==
  /\ host \notin {"idle", "failed", "check"}
  /\ host' = "failed"
  /\ UNCHANGED <<items, device, call, summary, copied, answer>>
----------------------------------------------------------------------------
(* CUDA: the parameters, the cleared summary with the job's generation,    *)
(* the launch and cudaDeviceSynchronize.                                   *)

(* Mutant of Upload: parameters of the job that is there stay there.       *)
UploadOnce ==
  /\ host = "upload"
  /\ IF generation = job THEN UNCHANGED <<words, params>>
     ELSE words' = Header(job) /\ params' = [job |-> job, start |-> start]
  /\ host' = "reset"
  /\ UNCHANGED <<items, count, overflow, results, claims, generation, call,
                 summary, copied, answer>>

Upload ==
  /\ host = "upload"
  /\ words' = Header(job)
  /\ params' = [job |-> job, start |-> start]
  /\ host' = "reset"
  /\ UNCHANGED <<items, count, overflow, results, claims, generation, call,
                 summary, copied, answer>>

Reset ==
  /\ host = "reset"
  /\ count' = 0 /\ overflow' = 0 /\ claims' = <<>>
  /\ generation' = job
  /\ host' = "run"
  /\ UNCHANGED <<items, words, results, params, call, summary, copied,
                 answer>>

(* Metal: Scratch::write.                                                  *)
Write ==
  /\ host = "write"
  /\ words' = Header(job)
  /\ params' = [job |-> job, start |-> start]
  /\ count' = 0 /\ claims' = <<>>
  /\ host' = "run"
  /\ UNCHANGED <<items, overflow, results, generation, call, summary, copied,
                 answer>>

(* Metal's kernel counts no overflow.                                      *)
EmitResult(i) ==
  /\ slot[i] # None
  /\ results' = IF slot[i] >= Capacity THEN results
                ELSE [results EXCEPT ![slot[i]] =
                        Nonce(params.start, Offset(i))]
  /\ slot' = [slot EXCEPT ![i] = None]
  /\ Advance(i)
  /\ UNCHANGED <<words, count, overflow, claims>>

RunItem ==
  /\ host = "run"
  /\ \E i \in Items :
       \/ Skip(i, params.job, params.start)
       \/ Claim(i, params.job, params.start)
       \/ api = "cuda" /\ Store(i, params.start)
       \/ api = "metal" /\ EmitResult(i)
  /\ UNCHANGED <<host, call, params, generation, summary, copied, answer>>

(* Mutant of Wait: the host does not wait for the launch.                  *)
DoNotWait ==
  /\ host = "run"
  /\ ResetItems
  /\ host' = "summary"
  /\ UNCHANGED <<device, call, summary, copied, answer>>

(* cudaDeviceSynchronize; wait_until_completed                             *)
Wait ==
  /\ host = "run" /\ AllEnded
  /\ ResetItems
  /\ host' = "summary"
  /\ UNCHANGED <<device, call, summary, copied, answer>>
----------------------------------------------------------------------------
(* The counters are read, and the buffer as far as it goes; Metal reads it *)
(* only after the check.                                                   *)
ReadSummary ==
  /\ host = "summary"
  /\ summary' = [count |-> count,
                 overflow |-> IF api = "cuda" THEN overflow ELSE 0,
                 generation |-> IF api = "cuda" THEN generation ELSE job]
  /\ host' = IF api = "cuda" THEN "copy" ELSE "check"
  /\ UNCHANGED <<items, device, call, copied, answer>>

Least(a, b) == IF a < b THEN a ELSE b

CopyResults ==
  /\ host = "copy"
  /\ copied' = [k \in 1 .. Least(summary.count, Capacity) |-> results[k - 1]]
  /\ host' = "check"
  /\ UNCHANGED <<items, device, call, summary, answer>>

Mismatched == summary.generation # job
Overflowed == summary.overflow # 0 \/ summary.count > Capacity

Refuse ==
  /\ host = "check" /\ (Mismatched \/ Overflowed)
  /\ host' = "failed"
  /\ UNCHANGED <<items, device, call, summary, copied, answer>>

(* results.truncate(count); results.to_vec() of the shared buffer          *)
Return ==
  /\ host = "check" /\ ~Mismatched /\ ~Overflowed
  /\ answer' = IF api = "cuda" THEN copied
               ELSE [k \in 1 .. summary.count |-> results[k - 1]]
  /\ host' = "idle"
  /\ UNCHANGED <<items, device, call, summary, copied>>

(* The worker makes no further call.                                       *)
Terminated ==
  /\ host = "failed" \/ (host = "idle" /\ calls = MaxCalls)
  /\ UNCHANGED vars

Next ==
  \/ \E j \in Jobs, s \in Nonces : Mine(j, s)
  \/ Upload \/ Reset \/ Write
  \/ RunItem \/ Wait
  \/ ReadSummary \/ CopyResults \/ Refuse \/ Return
  \/ Fail \/ Terminated

Spec == Init /\ [][Next]_vars
=============================================================================
