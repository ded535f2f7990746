---------------------------- MODULE OpenClBatch ----------------------------
(***************************************************************************)
(* OpenClBackend::mine (src/gpu/opencl.rs): the host appends commands to   *)
(* an in-order queue and goes on, except behind the two blocking reads;    *)
(* the device takes the commands one after the other.                      *)
(*                                                                         *)
(* A command that is enqueued may also fail.  Then mine returns an error,  *)
(* the worker thread ends and the prepared job is freed, perhaps while the *)
(* device still copies its words.                                          *)
(***************************************************************************)
EXTENDS Kernel

CONSTANT MaxCalls  \* bound: calls of mine

ASSUME OpenClAssumption ==
  /\ MaxCalls \in Nat
  /\ \A j \in Jobs, s \in Nonces : [job |-> j, start |-> s] # None

VARIABLES
  host,     \* "idle", "failed", or what mine does next
  job, start,  \* its arguments
  loaded,   \* loaded_generation
  queue,    \* the command queue
  summary,  \* what the blocking read of the counters returned
  answer,   \* what the last call of mine returned, or None
  calls     \* bounded counter

call == <<job, start, calls>>
vars == <<items, memory, host, call, loaded, queue, summary, answer>>

Init ==
  /\ KernelInit
  /\ host = "idle" /\ job = None /\ start = 0 /\ calls = 0
  /\ loaded = None /\ queue = <<>>
  /\ summary = [count |-> 0, overflow |-> 0] /\ answer = None
----------------------------------------------------------------------------
(* The host.                                                               *)

(* Mutant of NeedsUpload: only the first job is uploaded.                  *)
NeedsFirstUpload(j) == loaded = None

NeedsUpload(j) == loaded # j

Mine(j, s) ==
  /\ host = "idle" /\ calls < MaxCalls
  /\ calls' = calls + 1
  /\ job' = j /\ start' = s
  /\ host' = IF NeedsUpload(j) THEN "write" ELSE "fill"
  /\ answer' = None
  /\ UNCHANGED <<items, memory, loaded, queue, summary>>

Enqueue(op, next) ==
  /\ host = op
  /\ queue' = Append(queue, [op |-> op, job |-> job, start |-> start])
  /\ host' = next
  /\ UNCHANGED <<items, memory, call, summary, answer>>

EnqueueWrite == Enqueue("write", "fill") /\ loaded' = job

(* counters = {0, 0}; the kernel; the blocking read of the counters        *)
EnqueueFill == Enqueue("fill", "kernel") /\ UNCHANGED loaded
EnqueueKernel == Enqueue("kernel", "summary") /\ UNCHANGED loaded

(* Mutant of EnqueueSummary: the read does not block.                      *)
EnqueueSummaryAsync == Enqueue("summary", "check") /\ UNCHANGED loaded

EnqueueSummary == Enqueue("summary", "awaitSummary") /\ UNCHANGED loaded
EnqueueResults == Enqueue("results", "awaitResults") /\ UNCHANGED loaded

Overflowed == summary.overflow # 0 \/ summary.count > Capacity

(* An overflow, or an error of an enqueue or of a read.                    *)
Fail ==
  /\ \/ host \in {"write", "fill", "kernel", "summary", "awaitSummary",
                  "results", "awaitResults"}
     \/ host = "check" /\ Overflowed
  /\ host' = "failed"
  /\ UNCHANGED <<items, memory, call, loaded, queue, summary, answer>>

Check ==
  /\ host = "check" /\ ~Overflowed
  /\ \/ /\ summary.count = 0
        /\ host' = "idle" /\ answer' = <<>>
     \/ /\ summary.count # 0
        /\ host' = "results" /\ UNCHANGED answer
  /\ UNCHANGED <<items, memory, call, loaded, queue, summary>>

HostStep ==
  \/ \E j \in Jobs, s \in Nonces : Mine(j, s)
  \/ EnqueueWrite \/ EnqueueFill \/ EnqueueKernel \/ EnqueueSummary
  \/ Check \/ EnqueueResults \/ Fail
----------------------------------------------------------------------------
(* The device (external), one command at a time.                           *)

Takes(op) ==
  /\ queue # <<>> /\ Head(queue).op = op
  /\ queue' = Tail(queue)
  /\ UNCHANGED <<call, loaded>>

(* What it copies is anything once the job may have been freed.            *)
Write ==
  /\ Takes("write")
  /\ words' \in IF host \in {"idle", "failed"} THEN Headers
                ELSE {Header(Head(queue).job)}
  /\ UNCHANGED <<items, count, overflow, results, claims, host, summary,
                 answer>>

(* Mutant of Fill: it covers only one of the counters.                     *)
FillOverflow ==
  /\ Takes("fill")
  /\ overflow' = 0 /\ claims' = <<>>
  /\ UNCHANGED <<items, words, count, results, host, summary, answer>>

Fill ==
  /\ Takes("fill")
  /\ count' = 0 /\ overflow' = 0 /\ claims' = <<>>
  /\ UNCHANGED <<items, words, results, host, summary, answer>>

RunItem ==
  /\ queue # <<>> /\ Head(queue).op = "kernel"
  /\ \E i \in Items : ItemStep(i, Head(queue).job, Head(queue).start)
  /\ UNCHANGED <<host, call, loaded, queue, summary, answer>>

EndKernel ==
  /\ AllEnded
  /\ Takes("kernel")
  /\ ResetItems
  /\ UNCHANGED <<memory, host, summary, answer>>

(* A blocking read returns to the host, if it still waits.                 *)
ReadSummary ==
  /\ Takes("summary")
  /\ summary' = [count |-> count, overflow |-> overflow]
  /\ host' = IF host = "awaitSummary" THEN "check" ELSE host
  /\ UNCHANGED <<items, memory, answer>>

ReadResults ==
  /\ Takes("results")
  /\ \/ /\ host = "awaitResults"
        /\ answer' = [k \in 1 .. summary.count |-> results[k - 1]]
        /\ host' = "idle"
     \/ /\ host # "awaitResults"
        /\ UNCHANGED <<answer, host>>
  /\ UNCHANGED <<items, memory, summary>>

DeviceStep == Write \/ Fill \/ RunItem \/ EndKernel \/ ReadSummary \/ ReadResults

(* The worker makes no further call.                                       *)
Terminated ==
  /\ queue = <<>>
  /\ host = "failed" \/ (host = "idle" /\ calls = MaxCalls)
  /\ UNCHANGED vars

Next == HostStep \/ DeviceStep \/ Terminated

Spec == Init /\ [][Next]_vars
=============================================================================
