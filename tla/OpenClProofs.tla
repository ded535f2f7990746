---------------------------- MODULE OpenClProofs ----------------------------
(***************************************************************************)
(* The batch search loses, doubles and invents no candidate, for every     *)
(* batch size, item width, buffer capacity and number of calls.            *)
(***************************************************************************)
EXTENDS OpenClProperties, KernelProofs
----------------------------------------------------------------------------
(* Types.                                                                  *)

LEMMA InitType == Init => TypeOK
  BY GeometryType, KernelAssumption
  DEF Init, KernelInit, TypeOK, KernelTypeOK, HostStates

LEMMA EnqueueType ==
  ASSUME TypeOK, job \in Jobs, NEW op, NEW next,
         op \in {"write", "fill", "kernel", "summary", "results"},
         next \in HostStates, Enqueue(op, next), loaded' \in Jobs \cup {None}
  PROVE  TypeOK'
<1>1. [op |-> op, job |-> job, start |-> start] \in CommandType
  BY DEF TypeOK, KernelTypeOK, CommandType
<1>2. queue' \in Seq(CommandType)
  BY <1>1 DEF TypeOK, KernelTypeOK, Enqueue
<1> QED
  BY <1>2 DEF TypeOK, KernelTypeOK, Enqueue, items, memory, call

LEMMA TakeType ==
  ASSUME TypeOK, queue # <<>>
  PROVE  /\ Head(queue) \in CommandType /\ Tail(queue) \in Seq(CommandType)
         /\ Head(queue).job \in Jobs /\ Head(queue).start \in Nonces
<1>1. queue \in Seq(CommandType)
  BY DEF TypeOK, KernelTypeOK
<1>2. Head(queue) \in CommandType /\ Tail(queue) \in Seq(CommandType)
  BY <1>1
<1> QED
  BY <1>2 DEF CommandType

(* Every step keeps the types; the others parts of the invariant say that  *)
(* a call has a job and that an item with a slot has a lane.               *)
LEMMA StepType ==
  ASSUME TypeOK, QueueInv, ItemsInv, Next
  PROVE  TypeOK'
<1>1. ASSUME NEW j \in Jobs, NEW s \in Nonces, Mine(j, s) PROVE TypeOK'
  BY <1>1 DEF Mine, TypeOK, KernelTypeOK, HostStates, items, memory
<1>2. CASE EnqueueWrite \/ EnqueueFill \/ EnqueueKernel \/ EnqueueSummary
           \/ EnqueueResults
  <2>1. job \in Jobs
    BY <1>2 DEF QueueInv, Calling, EnqueueWrite, EnqueueFill, EnqueueKernel,
                EnqueueSummary, EnqueueResults, Enqueue
  <2> QED
    BY <1>2, <2>1, EnqueueType
    DEF EnqueueWrite, EnqueueFill, EnqueueKernel, EnqueueSummary,
        EnqueueResults, HostStates, TypeOK, KernelTypeOK
<1>3. CASE Check \/ Fail
  BY <1>3 DEF Check, Fail, TypeOK, KernelTypeOK, HostStates, items, memory, call
<1>4. CASE Write
  <2>1. words' \in Headers
    BY <1>4, TakeType, KernelAssumption DEF Write, Takes
  <2> QED
    BY <1>4, <2>1, TakeType DEF Write, Takes, TypeOK, KernelTypeOK, items, call
<1>5. CASE Fill
  BY <1>5, TakeType DEF Fill, Takes, TypeOK, KernelTypeOK, items, call
<1>6. CASE RunItem
  <2>1. PICK i \in Items : ItemStep(i, Head(queue).job, Head(queue).start)
    BY <1>6 DEF RunItem
  <2>2. Head(queue).start \in Nonces
    BY <1>6, TakeType DEF RunItem
  <2>3. Moves(i, Head(queue).job, Head(queue).start, "opencl")
    BY <2>1, StoreUses DEF TypeOK, ItemStep, Moves
  <2>4. KernelTypeOK'
    BY <2>2, <2>3, MoveTypes DEF TypeOK, ItemsInv
  <2> QED
    BY <1>6, <2>4 DEF RunItem, TypeOK, call
<1>7. CASE EndKernel
  <2>1. lane' \in [Items -> 0 .. NoncesPerItem]
    BY <1>7, KernelAssumption DEF EndKernel, ResetItems
  <2> QED
    BY <1>7, <2>1, TakeType DEF EndKernel, ResetItems, Takes, TypeOK, KernelTypeOK, memory, call
<1>8. CASE ReadSummary
  BY <1>8, TakeType
  DEF ReadSummary, Takes, TypeOK, KernelTypeOK, HostStates, items, memory, call
<1>9. CASE ReadResults
  BY <1>9, TakeType
  DEF ReadResults, Takes, TypeOK, KernelTypeOK, HostStates, items, memory, call
<1>10. CASE Terminated
  BY <1>10 DEF Terminated, vars, TypeOK, KernelTypeOK, items, memory, call
<1> QED
  BY <1>1, <1>2, <1>3, <1>4, <1>5, <1>6, <1>7, <1>8, <1>9, <1>10
  DEF Next, HostStep, DeviceStep
----------------------------------------------------------------------------
(* The queue.                                                              *)

LEMMA LengthType ==
  ASSUME TypeOK
  PROVE  Len(queue) \in Nat /\ Issued \in 0 .. 5 /\ Done \in Int
         /\ (queue = <<>> <=> Len(queue) = 0)
<1>1. queue \in Seq(CommandType)
  BY DEF TypeOK, KernelTypeOK
<1>2. Len(queue) \in Nat /\ (queue = <<>> <=> Len(queue) = 0)
  BY <1>1
<1>3. Issued \in 0 .. 5
  BY DEF Issued
<1> QED
  BY <1>2, <1>3 DEF Done

(* The command the device takes up next.                                   *)
LEMMA HeadCommand ==
  ASSUME TypeOK, QueueInv, queue # <<>>
  PROVE  /\ host # "idle"
         /\ Calling => /\ Done \in 0 .. 4
                       /\ Head(queue) = [op |-> Program[Done + 1], job |-> job,
                                         start |-> start]
<1>1. host # "idle"
  BY DEF QueueInv
<1>2. ASSUME Calling
      PROVE  /\ Done \in 0 .. 4
             /\ Head(queue) = [op |-> Program[Done + 1], job |-> job,
                               start |-> start]
  <2>1. Len(queue) \in Nat \ {0} /\ Issued \in 0 .. 5 /\ Done >= 0
    BY <1>2, LengthType DEF QueueInv
  <2>2. Head(queue) = queue[1]
    BY DEF TypeOK, KernelTypeOK
  <2>3. \A k \in 1 .. Len(queue) :
          queue[k] = [op |-> Program[Done + k], job |-> job, start |-> start]
    BY <1>2 DEF QueueInv
  <2>4. Done = Issued - Len(queue)
    BY DEF Done
  <2>5. Done \in 0 .. 4
    BY <2>1, <2>4
  <2>6. queue[1] = [op |-> Program[Done + 1], job |-> job, start |-> start]
    BY <2>1, <2>3
  <2> QED
    BY <2>2, <2>5, <2>6
<1> QED
  BY <1>1, <1>2

LEMMA ProgramOps ==
  /\ Program[1] = "write" /\ Program[2] = "fill" /\ Program[3] = "kernel"
  /\ Program[4] = "summary" /\ Program[5] = "results"
  BY DEF Program

(* Which commands the device has done is what it takes now.                *)
LEMMA HeadTells ==
  ASSUME TypeOK, QueueInv, queue # <<>>, Calling
  PROVE  /\ Head(queue).op = "write" <=> Done = 0
         /\ Head(queue).op = "fill" <=> Done = 1
         /\ Head(queue).op = "kernel" <=> Done = 2
         /\ Head(queue).op = "summary" <=> Done = 3
         /\ Head(queue).op = "results" <=> Done = 4
         /\ Head(queue).job = job /\ Head(queue).start = start
<1>1. Done \in 0 .. 4 /\ Head(queue).op = Program[Done + 1]
      /\ Head(queue).job = job /\ Head(queue).start = start
  BY HeadCommand
<1>2. Done = 0 \/ Done = 1 \/ Done = 2 \/ Done = 3 \/ Done = 4
  BY <1>1
<1> QED
  BY <1>1, <1>2, ProgramOps

(* An enqueue leaves undone what was undone and adds the next command.     *)
LEMMA EnqueueQueue ==
  ASSUME TypeOK, QueueInv, NEW op, NEW next, Enqueue(op, next),
         op = Program[Issued + 1], Issued' = Issued + 1, Calling
  PROVE  /\ Done' = Done /\ Len(queue') = Len(queue) + 1
         /\ \A k \in 1 .. Len(queue') :
              queue'[k] = [op |-> Program[Done' + k], job |-> job,
                           start |-> start]
<1>1. queue' = Append(queue, [op |-> op, job |-> job, start |-> start])
  BY DEF Enqueue
<1>2. queue \in Seq(CommandType)
  BY DEF TypeOK, KernelTypeOK
<1>3. /\ Len(queue') = Len(queue) + 1
      /\ \A k \in 1 .. Len(queue) : queue'[k] = queue[k]
      /\ queue'[Len(queue) + 1] = [op |-> op, job |-> job, start |-> start]
  BY <1>1, <1>2
<1>4. Done' = Done
  BY <1>3, LengthType DEF Done
<1>5. ASSUME NEW k \in 1 .. Len(queue')
      PROVE  queue'[k] = [op |-> Program[Done' + k], job |-> job,
                          start |-> start]
  <2>1. CASE k \in 1 .. Len(queue)
    BY <2>1, <1>3, <1>4 DEF QueueInv
  <2>2. CASE k = Len(queue) + 1
    <3>1. Done = Issued - Len(queue)
      BY DEF Done
    <3>2. Len(queue) \in Nat /\ Issued \in 0 .. 5
      BY LengthType
    <3>3. Done + k = Issued + 1
      BY <3>1, <3>2, <2>2
    <3> QED
      BY <3>3, <2>2, <1>3, <1>4
  <2> QED
    BY <2>1, <2>2, <1>3, LengthType
<1> QED
  BY <1>3, <1>4, <1>5

(* The device does one command more.                                       *)
LEMMA TakeQueue ==
  ASSUME TypeOK, QueueInv, queue # <<>>, queue' = Tail(queue), Calling,
         Issued' = Issued
  PROVE  /\ Done' = Done + 1 /\ Len(queue') = Len(queue) - 1
         /\ \A k \in 1 .. Len(queue') :
              queue'[k] = [op |-> Program[Done' + k], job |-> job,
                           start |-> start]
<1>1. queue \in Seq(CommandType)
  BY DEF TypeOK, KernelTypeOK
<1>2. /\ Len(queue') = Len(queue) - 1
      /\ \A k \in 1 .. Len(queue') : queue'[k] = queue[k + 1]
  BY <1>1
<1>3. Done' = Done + 1
  BY <1>2, LengthType DEF Done
<1>4. ASSUME NEW k \in 1 .. Len(queue')
      PROVE  queue'[k] = [op |-> Program[Done' + k], job |-> job,
                          start |-> start]
  <2>1. k + 1 \in 1 .. Len(queue) /\ Done + (k + 1) = Done' + k
    BY <1>2, <1>3, LengthType
  <2> QED
    BY <2>1, <1>2 DEF QueueInv
<1> QED
  BY <1>2, <1>3, <1>4

LEMMA InitQueue == Init => QueueInv /\ ItemsInv /\ SummaryInv
<1> SUFFICES ASSUME Init PROVE QueueInv /\ ItemsInv /\ SummaryInv
  OBVIOUS
<1>1. host = "idle" /\ queue = <<>> /\ loaded = None
  BY DEF Init
<1>2. \A i \in Items : lane[i] = 0 /\ slot[i] = None
  BY DEF Init, KernelInit
<1> QED
  BY <1>1, <1>2
  DEF QueueInv, ItemsInv, SlotsInLane, ItemsAtStart, SummaryInv, Calling

(* The queue holds what is issued and not done, across every step.         *)
LEMMA StepQueue ==
  ASSUME TypeOK, QueueInv, Next
  PROVE  QueueInv'
<1>1. ASSUME NEW j \in Jobs, NEW s \in Nonces, Mine(j, s) PROVE QueueInv'
  <2>1. host = "idle" /\ queue = <<>> /\ queue' = <<>> /\ Len(queue') = 0
    BY <1>1 DEF Mine, QueueInv
  <2>2. job' \in Jobs /\ answer' = None /\ j # None
    BY <1>1, KernelAssumption DEF Mine
  <2>3. CASE NeedsUpload(j)
    <3>1. host' = "write" /\ Issued' = 0
      BY <1>1, <2>3 DEF Mine, Issued
    <3>2. Done' = 0 - 0
      BY <2>1, <3>1 DEF Done
    <3> QED
      BY <2>1, <2>2, <3>1, <3>2 DEF QueueInv
  <2>4. CASE ~NeedsUpload(j)
    <3>1. host' = "fill" /\ Issued' = 1
      BY <1>1, <2>4 DEF Mine, Issued
    <3>2. Done' = 1
      BY <2>1, <3>1 DEF Done
    <3>3. loaded' = job' /\ words' = Header(job')
      BY <1>1, <2>1, <2>2, <2>4 DEF Mine, NeedsUpload, QueueInv, memory
    <3> QED
      BY <2>1, <2>2, <3>1, <3>2, <3>3 DEF QueueInv
  <2> QED
    BY <2>3, <2>4
<1>2. ASSUME NEW op, NEW next, Enqueue(op, next), Calling, Calling',
             op = Program[Issued + 1], Issued' = Issued + 1,
             loaded' = job,
             next \notin {"check", "results"}, next # "write",
             next = "awaitResults" => queue = <<>>
      PROVE  QueueInv'
  <2>1. /\ Done' = Done /\ Len(queue') = Len(queue) + 1
        /\ \A k \in 1 .. Len(queue') :
             queue'[k] = [op |-> Program[Done' + k], job |-> job,
                          start |-> start]
    BY <1>2, EnqueueQueue
  <2>2. host' = next /\ UNCHANGED <<job, start, answer, words>>
    BY <1>2 DEF Enqueue, call, memory
  <2>3. queue' # <<>> /\ (next = "awaitResults" => Len(queue') = 1)
    BY <1>2, <2>1, LengthType
  <2> QED
    BY <1>2, <2>1, <2>2, <2>3 DEF QueueInv, Calling
<1>3. CASE EnqueueWrite
  BY <1>3, <1>2, ProgramOps DEF EnqueueWrite, Enqueue, Calling, Issued
<1>4. CASE EnqueueFill
  <2>1. Enqueue("fill", "kernel") /\ host = "fill" /\ host' = "kernel"
        /\ loaded' = loaded
    BY <1>4 DEF EnqueueFill, Enqueue
  <2>2. Issued = 1 /\ Issued' = 2 /\ Calling /\ Calling'
    BY <2>1 DEF Issued, Calling
  <2>3. loaded = job
    BY <2>1, <2>2 DEF QueueInv
  <2> QED
    BY <2>1, <2>2, <2>3, <1>2, ProgramOps
<1>5. CASE EnqueueKernel
  <2>1. Enqueue("kernel", "summary") /\ host = "kernel" /\ host' = "summary"
        /\ loaded' = loaded
    BY <1>5 DEF EnqueueKernel, Enqueue
  <2>2. Issued = 2 /\ Issued' = 3 /\ Calling /\ Calling'
    BY <2>1 DEF Issued, Calling
  <2>3. loaded = job
    BY <2>1, <2>2 DEF QueueInv
  <2> QED
    BY <2>1, <2>2, <2>3, <1>2, ProgramOps
<1>6. CASE EnqueueSummary
  <2>1. Enqueue("summary", "awaitSummary") /\ host = "summary" /\ host' = "awaitSummary"
        /\ loaded' = loaded
    BY <1>6 DEF EnqueueSummary, Enqueue
  <2>2. Issued = 3 /\ Issued' = 4 /\ Calling /\ Calling'
    BY <2>1 DEF Issued, Calling
  <2>3. loaded = job
    BY <2>1, <2>2 DEF QueueInv
  <2> QED
    BY <2>1, <2>2, <2>3, <1>2, ProgramOps
<1>7. CASE EnqueueResults
  BY <1>7, <1>2, ProgramOps
  DEF EnqueueResults, Enqueue, Calling, Issued, QueueInv
<1>8. CASE Check
  <2>1. host = "check" /\ Calling /\ queue = <<>> /\ loaded = job
    BY <1>8 DEF Check, QueueInv, Calling
  <2>2. Issued = 4 /\ Len(queue) = 0 /\ Done = 4
    BY <2>1 DEF Issued, Done
  <2>3. UNCHANGED <<queue, words, loaded, job, start>>
    BY <1>8 DEF Check, memory, call
  <2>4. CASE host' = "idle"
    BY <2>1, <2>2, <2>3, <2>4 DEF QueueInv, Calling
  <2>5. CASE host' = "results" /\ UNCHANGED answer
    <3>1. Done' = 4
      BY <2>1, <2>2, <2>3, <2>5 DEF Done, Issued
    <3> QED
      BY <2>1, <2>2, <2>3, <2>5, <3>1 DEF QueueInv, Calling
  <2> QED
    BY <1>8, <2>4, <2>5 DEF Check
<1>9. CASE Fail
  BY <1>9 DEF Fail, QueueInv, Calling
(* A command taken by the device, when the host is where it was.           *)
<1>10. ASSUME queue # <<>>, queue' = Tail(queue), UNCHANGED <<call, loaded>>,
              UNCHANGED <<host, answer>>,
              Calling => words' = Header(job),
              Calling => Head(queue).op \notin {"summary", "results"}
       PROVE  QueueInv'
  <2>1. host # "idle"
    BY <1>10, HeadCommand
  <2>2. CASE ~Calling
    BY <2>1, <2>2, <1>10 DEF QueueInv, Calling
  <2>3. CASE Calling
    <3>1. Issued' = Issued
      BY <1>10 DEF Issued
    <3>2. /\ Done' = Done + 1 /\ Len(queue') = Len(queue) - 1
          /\ \A k \in 1 .. Len(queue') :
               queue'[k] = [op |-> Program[Done' + k], job |-> job,
                            start |-> start]
      BY <1>10, <2>3, <3>1, TakeQueue
    <3>3. Done \in 0 .. 2
      BY <1>10, <2>3, HeadTells, HeadCommand
    <3>4. host \notin {"check", "results"}
      BY <1>10 DEF QueueInv
    <3>5. host \in {"awaitSummary", "awaitResults"} => Len(queue) >= 2
      BY <3>3, LengthType DEF Done, Issued
    <3>6. Done' >= 0 /\ (host = "awaitSummary" => queue' # <<>>)
          /\ host # "awaitResults"
      <4>1. host # "awaitResults"
        <5>1. host = "awaitResults" => Len(queue) = 1
          BY DEF QueueInv
        <5>2. ASSUME host = "awaitResults" PROVE FALSE
          <6>1. Len(queue) >= 2
            BY <5>2, <3>5
          <6>2. Len(queue) = 1
            BY <5>2, <5>1
          <6> QED
            BY <6>1, <6>2
        <5> QED
          BY <5>2
      <4>2. host = "awaitSummary" => Len(queue') >= 1
        BY <3>2, <3>5, LengthType
      <4>3. Len(<<>>) = 0
        OBVIOUS
      <4> QED
        BY <4>1, <4>2, <4>3, <3>2, <3>3
    <3> QED
      BY <1>10, <2>3, <3>2, <3>4, <3>6 DEF QueueInv, Calling, call
  <2> QED
    BY <2>2, <2>3
<1>11. CASE Write
  <2>1. host # "idle" /\ (Calling => words' = Header(job))
    BY <1>11, HeadCommand, HeadTells DEF Write, Takes, Calling
  <2> QED
    BY <1>11, <2>1, <1>10 DEF Write, Takes
<1>12. ASSUME Calling, queue # <<>>, Head(queue).op # "write"
       PROVE  words = Header(job)
  BY <1>12, HeadTells, HeadCommand DEF QueueInv
<1>13. CASE Fill
  BY <1>13, <1>12, <1>10 DEF Fill, Takes
<1>14. CASE RunItem
  <2>1. UNCHANGED <<words, host, call, loaded, queue, answer>>
    BY <1>14 DEF RunItem, ItemStep, Skip, Claim, Store, memory
  <2>2. Done' = Done
    BY <2>1 DEF Done, Issued
  <2> QED
    BY <2>1, <2>2 DEF QueueInv, Calling, call
<1>15. CASE EndKernel
  BY <1>15, <1>12, <1>10 DEF EndKernel, Takes, memory
<1>16. CASE ReadSummary
  <2>1. /\ queue # <<>> /\ queue' = Tail(queue) /\ Head(queue).op = "summary"
        /\ UNCHANGED <<job, start, loaded, words, answer>>
    BY <1>16 DEF ReadSummary, Takes, memory, call
  <2>2. host # "idle"
    BY <2>1, HeadCommand
  <2>3. CASE ~Calling
    BY <1>16, <2>2, <2>3 DEF ReadSummary, QueueInv, Calling
  <2>4. CASE Calling
    <3>1. Done = 3 /\ Issued \in 4 .. 5
      BY <2>1, <2>4, HeadTells, LengthType DEF Done
    <3>2. host = "awaitSummary"
      <4>1. host \notin {"check", "results"}
        BY <2>1 DEF QueueInv
      <4>2. ASSUME host = "awaitResults" PROVE FALSE
        <5>1. Len(queue) = 1 /\ Issued = 5
          BY <4>2 DEF QueueInv, Issued
        <5> QED
          BY <5>1, <3>1 DEF Done
      <4> QED
        BY <2>2, <2>4, <3>1, <4>1, <4>2
        DEF Issued, Calling, TypeOK, KernelTypeOK, HostStates
    <3>3. host' = "check" /\ Issued' = Issued
      BY <1>16, <3>2 DEF ReadSummary, Issued
    <3>4. /\ Done' = 4 /\ Len(queue') = Len(queue) - 1
          /\ \A k \in 1 .. Len(queue') :
               queue'[k] = [op |-> Program[Done' + k], job |-> job,
                            start |-> start]
      BY <2>1, <2>4, <3>1, <3>3, TakeQueue
    <3>5. Len(queue) = 1
      <4>1. Len(queue) \in Nat
        BY LengthType
      <4>2. Issued = 4
        BY <3>2 DEF Issued
      <4>3. 4 - Len(queue) = 3
        BY <4>2, <3>1 DEF Done
      <4>4. \A n \in Nat : 4 - n = 3 => n = 1
        OBVIOUS
      <4> QED
        BY <4>1, <4>3, <4>4
    <3>6. queue' = <<>>
      BY <2>1, <3>5 DEF TypeOK, KernelTypeOK
    <3> QED
      BY <2>1, <2>4, <3>2, <3>3, <3>4, <3>6, <3>1 DEF QueueInv, Calling
  <2> QED
    BY <2>3, <2>4
<1>17. CASE ReadResults
  <2>1. /\ queue # <<>> /\ queue' = Tail(queue) /\ Head(queue).op = "results"
        /\ UNCHANGED <<job, start, loaded, words>>
    BY <1>17 DEF ReadResults, Takes, memory, call
  <2>2. host # "idle"
    BY <2>1, HeadCommand
  <2>3. CASE ~Calling
    BY <1>17, <2>2, <2>3 DEF ReadResults, QueueInv, Calling
  <2>4. CASE Calling
    <3>1. Done = 4 /\ Issued = 5
      BY <2>1, <2>4, HeadTells, LengthType DEF Done
    <3>2. host = "awaitResults"
      BY <2>2, <2>4, <3>1 DEF Issued, Calling, TypeOK, KernelTypeOK, HostStates
    <3>3. host' = "idle" /\ Len(queue) = 1
      BY <1>17, <3>2 DEF ReadResults, QueueInv
    <3>4. queue' = <<>>
      BY <2>1, <3>3 DEF TypeOK, KernelTypeOK
    <3> QED
      BY <2>1, <2>4, <3>1, <3>2, <3>3, <3>4 DEF QueueInv, Calling
  <2> QED
    BY <2>3, <2>4
<1>18. CASE Terminated
  <2>1. UNCHANGED <<host, job, start, loaded, queue, words, answer>>
    BY <1>18 DEF Terminated, vars, call, memory
  <2>2. Done' = Done
    BY <2>1 DEF Done, Issued
  <2> QED
    BY <2>1, <2>2 DEF QueueInv, Calling
<1> QED
  BY <1>1, <1>3, <1>4, <1>5, <1>6, <1>7, <1>8, <1>9, <1>11, <1>13, <1>14,
     <1>15, <1>16, <1>17, <1>18
  DEF Next, HostStep, DeviceStep
----------------------------------------------------------------------------
(* The work items.                                                         *)

LEMMA StepItems ==
  ASSUME TypeOK, QueueInv, ItemsInv, Next
  PROVE  ItemsInv'
<1>2. ASSUME UNCHANGED items,
             (queue' = <<>> \/ Head(queue').op # "kernel") =>
               (queue = <<>> \/ Head(queue).op # "kernel")
      PROVE  ItemsInv'
  BY <1>2 DEF ItemsInv, SlotsInLane, ItemsAtStart, items, Ended, Offset
<1>3. ASSUME NEW op, NEW next, Enqueue(op, next) PROVE ItemsInv'
  <2>1. queue # <<>> => queue' # <<>> /\ Head(queue') = Head(queue)
    BY <1>3 DEF Enqueue, TypeOK, KernelTypeOK
  <2> QED
    BY <1>3, <1>2, <2>1 DEF Enqueue
<1>4. ASSUME queue # <<>>, Head(queue).op # "kernel", UNCHANGED items
      PROVE  ItemsInv'
  BY <1>4, <1>2
<1>5. ASSUME NEW j \in Jobs, NEW s \in Nonces, Mine(j, s) PROVE ItemsInv'
  BY <1>5, <1>2 DEF Mine
<1>6. CASE EnqueueWrite \/ EnqueueFill \/ EnqueueKernel \/ EnqueueSummary
           \/ EnqueueResults
  BY <1>6, <1>3 DEF EnqueueWrite, EnqueueFill, EnqueueKernel, EnqueueSummary,
                    EnqueueResults
<1>7. CASE Check \/ Fail
  BY <1>7, <1>2 DEF Check, Fail
<1>8. CASE Write \/ Fill \/ ReadSummary \/ ReadResults
  BY <1>8, <1>4 DEF Write, Fill, ReadSummary, ReadResults, Takes
<1>9. CASE RunItem
  <2>1. PICK i \in Items : ItemStep(i, Head(queue).job, Head(queue).start)
    BY <1>9 DEF RunItem
  <2>2. queue' # <<>> /\ Head(queue').op = "kernel"
    BY <1>9 DEF RunItem
  <2>3. Moves(i, Head(queue).job, Head(queue).start, "opencl")
    BY <2>1, StoreUses DEF TypeOK, ItemStep, Moves
  <2>4. SlotsInLane'
    BY <2>3, MoveSlots DEF TypeOK, ItemsInv
  <2> QED
    BY <2>2, <2>4 DEF ItemsInv
<1>10. CASE EndKernel
  <2>1. ItemsAtStart'
    BY <1>10, LaunchItems DEF EndKernel
  <2>2. SlotsInLane'
    BY <2>1 DEF ItemsAtStart, SlotsInLane
  <2> QED
    BY <2>1, <2>2 DEF ItemsInv
<1>11. CASE Terminated
  BY <1>11, <1>2 DEF Terminated, vars
<1> QED
  BY <1>5, <1>6, <1>7, <1>8, <1>9, <1>10, <1>11
  DEF Next, HostStep, DeviceStep

(* What the host compares is what the device counted.                      *)
LEMMA StepSummary ==
  ASSUME TypeOK, QueueInv, SummaryInv, Next
  PROVE  SummaryInv'
<1>1. ASSUME NEW j \in Jobs, NEW s \in Nonces, Mine(j, s) PROVE SummaryInv'
  BY <1>1 DEF Mine, SummaryInv
<1>2. CASE EnqueueWrite \/ EnqueueFill \/ EnqueueKernel \/ EnqueueSummary
  BY <1>2 DEF EnqueueWrite, EnqueueFill, EnqueueKernel, EnqueueSummary,
              Enqueue, SummaryInv
<1>3. CASE EnqueueResults
  BY <1>3 DEF EnqueueResults, Enqueue, SummaryInv, Overflowed, memory
<1>4. CASE Check \/ Fail
  BY <1>4 DEF Check, Fail, SummaryInv, Overflowed, memory
<1>5. ASSUME Head(queue).op \notin {"summary", "results"}, queue # <<>>,
             host' = host
      PROVE  SummaryInv'
  <2>1. host \notin {"check", "results"}
    BY <1>5 DEF QueueInv
  <2>2. ASSUME host = "awaitResults" PROVE FALSE
    <3>1. Calling /\ Issued = 5 /\ Len(queue) = 1
      BY <2>2 DEF Calling, Issued, QueueInv
    <3>2. Done = 4
      BY <3>1 DEF Done
    <3> QED
      BY <1>5, <3>1, <3>2, HeadTells
  <2> QED
    BY <1>5, <2>1, <2>2 DEF SummaryInv
<1>6. CASE Write \/ Fill \/ RunItem \/ EndKernel
  BY <1>6, <1>5 DEF Write, Fill, RunItem, EndKernel, Takes
<1>7. CASE ReadSummary
  <2>1. host' \notin {"results", "awaitResults"}
    <3>1. queue # <<>> /\ Head(queue).op = "summary"
      BY <1>7 DEF ReadSummary, Takes
    <3>2. host # "results"
      BY <3>1 DEF QueueInv
    <3>3. ASSUME host = "awaitResults" PROVE FALSE
      <4>1. Calling /\ Issued = 5 /\ Len(queue) = 1
        BY <3>3 DEF Calling, Issued, QueueInv
      <4>2. Done = 4
        BY <4>1 DEF Done
      <4> QED
        BY <3>1, <4>1, <4>2, HeadTells
    <3> QED
      BY <1>7, <3>2, <3>3 DEF ReadSummary
  <2>2. summary' = [count |-> count', overflow |-> overflow']
    BY <1>7 DEF ReadSummary, memory
  <2> QED
    BY <2>1, <2>2 DEF SummaryInv
<1>8. CASE ReadResults
  <2>1. host' \notin {"check", "results", "awaitResults"}
    <3>1. queue # <<>>
      BY <1>8 DEF ReadResults, Takes
    <3> QED
      BY <1>8, <3>1 DEF ReadResults, QueueInv
  <2> QED
    BY <2>1 DEF SummaryInv
<1>9. CASE Terminated
  BY <1>9 DEF Terminated, vars, memory, SummaryInv, Overflowed
<1> QED
  BY <1>1, <1>2, <1>3, <1>4, <1>6, <1>7, <1>8, <1>9
  DEF Next, HostStep, DeviceStep
----------------------------------------------------------------------------
(* The claims.                                                             *)

Run == <<items, count, overflow, results, claims, job, start>>

(* A step that moves no work item keeps what was known of them.            *)
LEMMA KeepsClaims ==
  ASSUME ClaimsInv, UNCHANGED Run, Calling' /\ Done' >= 2 => Calling /\ Done >= 2
  PROVE  ClaimsInv'
<1>1. PICK j, s : j = job /\ s = start
  OBVIOUS
<1>2. ClaimsAre(j, s, "opencl") => ClaimsAre(j, s, "opencl")'
  BY StandingClaims DEF Run
<1> QED
  BY <1>1, <1>2 DEF ClaimsInv, Run

LEMMA KeepsProgress ==
  ASSUME ProgressInv, UNCHANGED Run,
         Calling' => Calling,
         Calling' /\ Done' = 2 => Done = 2,
         Calling' /\ Done' >= 3 => Done >= 3
  PROVE  ProgressInv'
<1>1. PICK j, s : j = job /\ s = start
  OBVIOUS
<1>2. /\ ClaimsFollow(j, s) => ClaimsFollow(j, s)'
      /\ AllClaimed(j, s) => AllClaimed(j, s)'
  BY StandingClaims DEF Run
<1> QED
  BY <1>1, <1>2 DEF ProgressInv, Run

(* A step behind which the device has done a number of commands.           *)
LEMMA SetsClaims ==
  ASSUME NEW done \in Int, Calling' => Done' = done,
         Calling' /\ done >= 2 => ClaimsAre(job, start, "opencl")',
         Calling' /\ done = 2 => ClaimsFollow(job, start)',
         Calling' /\ done >= 3 => AllClaimed(job, start)'
  PROVE  ClaimsInv' /\ ProgressInv'
  BY DEF ClaimsInv, ProgressInv

(* What a work item finds when it moves.                                   *)
LEMMA RunningItem ==
  ASSUME TypeOK, QueueInv, RunItem, Calling
  PROVE  /\ Done = 2 /\ Done' = 2 /\ Calling' /\ UNCHANGED <<job, start>>
         /\ job \in Jobs /\ words = Header(job)
         /\ \E i \in Items : ItemStep(i, job, start)
<1>1. queue # <<>> /\ Head(queue).op = "kernel"
      /\ UNCHANGED <<host, job, start, queue>>
  BY DEF RunItem, call
<1>2. Done = 2 /\ Head(queue).job = job /\ Head(queue).start = start
  BY <1>1, HeadTells
<1>3. Done' = Done /\ Calling'
  BY <1>1 DEF Done, Issued, Calling
<1>4. \E i \in Items : ItemStep(i, job, start)
  BY <1>2 DEF RunItem
<1> QED
  BY <1>1, <1>2, <1>3, <1>4 DEF QueueInv

(* Every step keeps the claims distinct, complete and in their slots.      *)
LEMMA StepClaims ==
  ASSUME TypeOK, QueueInv, ItemsInv, ClaimsInv, ProgressInv, Next
  PROVE  ClaimsInv' /\ ProgressInv'
<1>1. ASSUME NEW j \in Jobs, NEW s \in Nonces, Mine(j, s)
      PROVE  ClaimsInv' /\ ProgressInv'
  <2>1. queue' = <<>> /\ host' \in {"write", "fill"}
    BY <1>1 DEF Mine, QueueInv
  <2>2. Len(queue') = 0 /\ Issued' \in 0 .. 1
    BY <2>1 DEF Issued
  <2>3. Done' \in 0 .. 1
    BY <2>2 DEF Done
  <2>4. ~(Done' >= 2) /\ Done' # 2 /\ ~(Done' >= 3)
    BY <2>3
  <2> QED
    BY <2>4 DEF ClaimsInv, ProgressInv
<1>2. ASSUME NEW op, NEW next, Enqueue(op, next), Calling,
             op = Program[Issued + 1], Issued' = Issued + 1
      PROVE  ClaimsInv' /\ ProgressInv'
  <2>1. Done' = Done
    BY <1>2, EnqueueQueue
  <2>2. UNCHANGED Run
    BY <1>2 DEF Enqueue, Run, memory, call
  <2> QED
    BY <1>2, <2>1, <2>2, KeepsClaims, KeepsProgress
<1>3. CASE EnqueueWrite
  BY <1>3, <1>2, ProgramOps DEF EnqueueWrite, Enqueue, Calling, Issued
<1>4. CASE EnqueueFill
  BY <1>4, <1>2, ProgramOps DEF EnqueueFill, Enqueue, Calling, Issued
<1>5. CASE EnqueueKernel
  BY <1>5, <1>2, ProgramOps DEF EnqueueKernel, Enqueue, Calling, Issued
<1>6. CASE EnqueueSummary
  BY <1>6, <1>2, ProgramOps DEF EnqueueSummary, Enqueue, Calling, Issued
<1>7. CASE EnqueueResults
  BY <1>7, <1>2, ProgramOps DEF EnqueueResults, Enqueue, Calling, Issued
<1>8. CASE Check
  <2>1. host = "check" /\ host' \in {"idle", "results"} /\ queue' = queue
        /\ UNCHANGED Run
    BY <1>8 DEF Check, Run, memory, call
  <2>2. Calling /\ (Calling' => Done' = Done)
    BY <2>1 DEF Calling, Done, Issued
  <2> QED
    BY <2>1, <2>2, KeepsClaims, KeepsProgress
<1>9. CASE Fail
  BY <1>9 DEF Fail, Calling, ClaimsInv, ProgressInv
<1>10. CASE Write
  <2>1. ASSUME Calling' PROVE Done' = 1
    <3>1. /\ queue # <<>> /\ Head(queue).op = "write" /\ queue' = Tail(queue)
          /\ host' = host
      BY <1>10 DEF Write, Takes
    <3>2. Calling /\ Issued' = Issued
      BY <2>1, <3>1 DEF Calling, Issued
    <3>3. Done = 0
      BY <3>1, <3>2, HeadTells
    <3> QED
      BY <3>1, <3>2, <3>3, TakeQueue
  <2> QED
    BY <2>1 DEF ClaimsInv, ProgressInv
<1>11. CASE Fill
  <2>1. /\ queue # <<>> /\ Head(queue).op = "fill" /\ queue' = Tail(queue)
        /\ count' = 0 /\ claims' = <<>> /\ UNCHANGED <<host, items, job, start>>
    BY <1>11 DEF Fill, Takes, call
  <2>2. ASSUME Calling' PROVE Done' = 2
    <3>1. Calling /\ Issued' = Issued
      BY <2>1, <2>2 DEF Calling, Issued
    <3>2. Done = 1
      BY <2>1, <3>1, HeadTells
    <3> QED
      BY <2>1, <3>1, <3>2, TakeQueue
  <2>3. PICK j, s : j = job /\ s = start
    OBVIOUS
  <2>4. ClaimsAre(j, s, "opencl")' /\ ClaimsFollow(j, s)'
    BY <2>1, ClearedClaims DEF ItemsInv
  <2>5. ClaimsAre(job, start, "opencl")' /\ ClaimsFollow(job, start)'
    BY <2>1, <2>3, <2>4
  <2> QED
    BY <2>2, <2>5, SetsClaims
<1>12. CASE RunItem
  <2>1. CASE ~Calling
    <3>1. ~Calling'
      BY <1>12, <2>1 DEF RunItem, Calling
    <3> QED
      BY <3>1 DEF ClaimsInv, ProgressInv
  <2>2. CASE Calling
    <3>1. /\ Done = 2 /\ Done' = 2 /\ UNCHANGED <<job, start>>
          /\ words = Header(job)
      BY <1>12, <2>2, RunningItem
    <3>2. PICK i \in Items : ItemStep(i, job, start)
      BY <1>12, <2>2, RunningItem
    <3>3. PICK j, s : j = job /\ s = start
      OBVIOUS
    <3>4. Moves(i, j, s, "opencl")
      BY <3>2, <3>3, StoreUses DEF TypeOK, ItemStep, Moves
    <3>5. ClaimsAre(j, s, "opencl") /\ ClaimsFollow(j, s)
      BY <2>2, <3>1, <3>3 DEF ClaimsInv, ProgressInv
    <3>6. ClaimsAre(j, s, "opencl")' /\ ClaimsFollow(j, s)'
      BY <3>1, <3>3, <3>4, <3>5, MoveKeepsClaims DEF TypeOK, ItemsInv
    <3>7. ClaimsAre(job, start, "opencl")' /\ ClaimsFollow(job, start)'
      BY <3>1, <3>3, <3>6
    <3> QED
      BY <3>1, <3>7, SetsClaims
  <2> QED
    BY <2>1, <2>2
<1>13. CASE EndKernel
  <2>1. /\ queue # <<>> /\ Head(queue).op = "kernel" /\ queue' = Tail(queue)
        /\ AllEnded /\ ResetItems /\ UNCHANGED <<memory, host, job, start>>
    BY <1>13 DEF EndKernel, Takes, call
  <2>2. ASSUME Calling' PROVE Calling /\ Done = 2 /\ Done' = 3
    <3>1. Calling /\ Issued' = Issued
      BY <2>1, <2>2 DEF Calling, Issued
    <3>2. Done = 2
      BY <2>1, <3>1, HeadTells
    <3> QED
      BY <2>1, <3>1, <3>2, TakeQueue
  <2>3. PICK j, s : j = job /\ s = start
    OBVIOUS
  <2>4. ASSUME Calling'
        PROVE  ClaimsAre(job, start, "opencl")' /\ AllClaimed(job, start)'
    <3>1. ClaimsAre(j, s, "opencl") /\ ClaimsFollow(j, s)
      BY <2>2, <2>3, <2>4 DEF ClaimsInv, ProgressInv
    <3>2. ClaimsAre(j, s, "opencl")' /\ AllClaimed(j, s)'
      BY <2>1, <3>1, EndedLaunch DEF TypeOK
    <3> QED
      BY <2>1, <2>3, <3>2
  <2> QED
    BY <2>2, <2>4, SetsClaims
<1>14. CASE ReadSummary
  <2>1. /\ queue # <<>> /\ Head(queue).op = "summary" /\ queue' = Tail(queue)
        /\ UNCHANGED Run /\ host' = (IF host = "awaitSummary" THEN "check"
                                                             ELSE host)
    BY <1>14 DEF ReadSummary, Takes, Run, memory, call
  <2>2. ASSUME Calling' PROVE Calling /\ Done = 3 /\ Done' = 4
    <3>1. Calling /\ Issued' = Issued
      BY <2>1, <2>2 DEF Calling, Issued
    <3>2. Done = 3
      BY <2>1, <3>1, HeadTells
    <3> QED
      BY <2>1, <3>1, <3>2, TakeQueue
  <2> QED
    BY <2>1, <2>2, KeepsClaims, KeepsProgress
<1>15. CASE ReadResults
  <2>1. ASSUME Calling' PROVE FALSE
    <3>1. /\ queue # <<>> /\ Head(queue).op = "results" /\ queue' = Tail(queue)
          /\ host # "awaitResults" /\ host' = host
      BY <1>15, <2>1 DEF ReadResults, Takes, Calling
    <3>2. Calling /\ Done = 4
      BY <2>1, <3>1, HeadTells DEF Calling
    <3>3. Issued \in 0 .. 4
      BY <3>1, <3>2 DEF Issued, Calling, TypeOK, KernelTypeOK, HostStates
    <3>4. Len(queue) \in Nat /\ Len(queue) # 0 /\ Issued - Len(queue) = 4
      BY <3>1, <3>2, LengthType DEF Done
    <3>5. \A m \in 0 .. 4, n \in Nat : m - n = 4 => n = 0
      OBVIOUS
    <3> QED
      BY <3>3, <3>4, <3>5
  <2> QED
    BY <2>1 DEF ClaimsInv, ProgressInv
<1>16. CASE Terminated
  <2>1. UNCHANGED Run /\ UNCHANGED <<host, queue>>
    BY <1>16 DEF Terminated, vars, Run, memory, call
  <2>2. Done' = Done /\ (Calling' <=> Calling)
    BY <2>1 DEF Done, Issued, Calling
  <2> QED
    BY <2>1, <2>2, KeepsClaims, KeepsProgress
<1> QED
  BY <1>1, <1>3, <1>4, <1>5, <1>6, <1>7, <1>8, <1>9, <1>10, <1>11, <1>12,
     <1>13, <1>14, <1>15, <1>16
  DEF Next, HostStep, DeviceStep
----------------------------------------------------------------------------
(* BatchInv holds in every state: whatever the order of work items, host   *)
(* and device, claims are distinct candidates of the batch, each in its    *)
(* slot or counted as overflow, and none is missing behind the kernel.     *)
THEOREM BatchCorrect == Spec => []BatchInv
<1>1. Init => BatchInv
  BY InitType, InitQueue
  DEF BatchInv, ClaimsInv, ProgressInv, Calling, Init
<1>2. BatchInv /\ [Next]_vars => BatchInv'
  <2> SUFFICES ASSUME BatchInv, [Next]_vars PROVE BatchInv'
    OBVIOUS
  <2>1. CASE Next
    BY <2>1, StepType, StepQueue, StepItems, StepSummary, StepClaims
    DEF BatchInv
  <2>2. CASE UNCHANGED vars
    BY <2>2
    DEF vars, items, memory, call, BatchInv, TypeOK, KernelTypeOK, QueueInv, ItemsInv,
        ClaimsInv, ProgressInv, SummaryInv, Calling, Done, Issued, Ended,
        SlotsInLane, ItemsAtStart, ClaimsAre, ClaimsFollow, AllClaimed,
        Offset, Held, Stored, Passed, Claimed, CandidateOffsets, Overflowed
  <2> QED
    BY <2>1, <2>2
<1> QED
  BY <1>1, <1>2, PTL DEF Spec

(* When mine returns a list, the device has nothing left to copy.          *)
THEOREM UploadIsOver == Spec => []UploadEndsFirst
<1>1. BatchInv => UploadEndsFirst
  BY DEF BatchInv, QueueInv, UploadEndsFirst
<1> QED
  BY <1>1, BatchCorrect, PTL
----------------------------------------------------------------------------
(* The refinement.                                                         *)

LEMMA RequestOfCall ==
  ASSUME TypeOK, QueueInv
  PROVE  /\ Calling => Request = [job |-> job, start |-> start] /\ Request # None
         /\ ~Calling => Request = None
  BY OpenClAssumption DEF TypeOK, KernelTypeOK, QueueInv, Request, Calling

(* A buffer with all claims is the list that is promised.                  *)
LEMMA BatchListed ==
  ASSUME TypeOK, ItemsAtStart, ClaimsAre(job, start, "opencl"),
         AllClaimed(job, start), count <= Capacity
  PROVE  Promise!Lists(Buffer, Candidates(job, start))
<1>1. PICK j, s : j = job /\ s = start
  OBVIOUS
<1>2. /\ KernelTypeOK /\ s \in Nonces
      /\ ClaimsAre(j, s, "opencl") /\ AllClaimed(j, s)
  BY <1>1 DEF TypeOK
<1>3. /\ {Buffer[k] : k \in DOMAIN Buffer} = Candidates(j, s)
      /\ \A k, n \in DOMAIN Buffer : Buffer[k] = Buffer[n] => k = n
  BY <1>2, BufferLists
<1> QED
  BY <1>1, <1>3 DEF Promise!Lists

(* OpenClBackend::mine implements BatchSearch: a list it returns holds all *)
(* candidates of its batch, each once.                                     *)
THEOREM SearchCorrect == Spec => SearchIsExact
<1>1. Init => Promise!Init
  BY DEF Init, Promise!Init, Request
<1>2. BatchInv /\ [Next]_vars => [Promise!Next]_Promise!vars
  <2> SUFFICES ASSUME BatchInv, [Next]_vars
               PROVE  [Promise!Next]_Promise!vars
    OBVIOUS
  <2> USE DEF BatchInv
  <2>1. ASSUME UNCHANGED <<host, job, start, answer>>
        PROVE  UNCHANGED Promise!vars
    BY <2>1 DEF Promise!vars, Request
  <2>2. ASSUME host \notin {"idle", "failed"}, host' \notin {"idle", "failed"},
               UNCHANGED <<job, start, answer>>
        PROVE  UNCHANGED Promise!vars
    BY <2>2 DEF Promise!vars, Request
  <2>3. ASSUME NEW j \in Jobs, NEW s \in Nonces, Mine(j, s)
        PROVE  Promise!Next
    BY <2>3 DEF Mine, Request, Promise!Next, Promise!Mine
  <2>4. CASE EnqueueWrite \/ EnqueueFill \/ EnqueueKernel \/ EnqueueSummary
             \/ EnqueueResults
    BY <2>4, <2>2 DEF EnqueueWrite, EnqueueFill, EnqueueKernel,
                      EnqueueSummary, EnqueueResults, Enqueue, call
  <2>5. CASE Fail
    <3>1. Calling /\ host' = "failed" /\ answer' = None /\ Request # None
      BY <2>5, RequestOfCall DEF Fail, Calling, QueueInv
    <3> QED
      BY <3>1 DEF Request, Promise!Next, Promise!Fail
  <2>6. ASSUME Calling, host' = "idle",
               Promise!Lists(answer', Candidates(job, start))
        PROVE  Promise!Next
    <3>1. Request = [job |-> job, start |-> start] /\ Request # None
      BY <2>6, RequestOfCall
    <3>2. Request' = None /\ host # "failed" /\ host' # "failed"
      BY <2>6 DEF Request, Calling
    <3>3. Request.job = job /\ Request.start = start
      BY <3>1
    <3> QED
      BY <2>6, <3>1, <3>2, <3>3 DEF Promise!Next, Promise!Return
  <2>7. CASE Check
    <3>1. /\ host = "check" /\ Calling /\ queue = <<>> /\ ~Overflowed
          /\ summary = [count |-> count, overflow |-> overflow]
          /\ UNCHANGED <<job, start>>
      BY <2>7 DEF Check, Calling, QueueInv, SummaryInv, call
    <3>2. Issued = 4 /\ Len(queue) = 0 /\ Done >= 3
      BY <3>1 DEF Issued, Done
    <3>3. CASE summary.count # 0
      BY <2>7, <3>1, <3>3, <2>2 DEF Check
    <3>4. CASE summary.count = 0
      <4>1. count = 0 /\ overflow = 0 /\ host' = "idle" /\ answer' = <<>>
        BY <2>7, <3>1, <3>4 DEF Check, Overflowed
      <4>2. count <= Capacity
        BY <4>1, KernelAssumption
      <4>3. Done >= 2
        BY <3>2, LengthType
      <4>4. /\ ItemsAtStart
            /\ ClaimsAre(job, start, "opencl") /\ AllClaimed(job, start)
        BY <3>1, <3>2, <4>3 DEF ItemsInv, ClaimsInv, ProgressInv
      <4>5. answer' = Buffer
        BY <4>1 DEF Buffer
      <4>6. Promise!Lists(answer', Candidates(job, start))
        BY <4>2, <4>4, <4>5, BatchListed
      <4> QED
        BY <3>1, <4>1, <4>6, <2>6
    <3> QED
      BY <3>3, <3>4
  <2>8. CASE Write \/ Fill \/ RunItem \/ EndKernel
    BY <2>8, <2>1 DEF Write, Fill, RunItem, EndKernel, Takes, call
  <2>9. CASE ReadSummary
    BY <2>9, <2>1, <2>2 DEF ReadSummary, Takes, call
  <2>10. CASE ReadResults
    <3>1. CASE host # "awaitResults"
      BY <2>10, <3>1, <2>1 DEF ReadResults, Takes, call
    <3>2. CASE host = "awaitResults"
      <4>1. /\ Calling /\ ~Overflowed /\ Issued = 5 /\ Len(queue) = 1
            /\ summary = [count |-> count, overflow |-> overflow]
            /\ queue # <<>> /\ Head(queue).op = "results"
        BY <2>10, <3>2
        DEF Calling, Issued, SummaryInv, QueueInv, ReadResults, Takes
      <4>2. Done >= 3
        BY <4>1 DEF Done
      <4>3. overflow = 0 /\ count <= Capacity
        BY <4>1, KernelAssumption DEF Overflowed, TypeOK, KernelTypeOK
      <4>4. /\ ItemsAtStart
            /\ ClaimsAre(job, start, "opencl") /\ AllClaimed(job, start)
        <5>1. Done >= 2
          BY <4>2, LengthType
        <5>2. Head(queue).op # "kernel"
          BY <4>1
        <5> QED
          BY <4>1, <4>2, <5>1, <5>2 DEF ItemsInv, ClaimsInv, ProgressInv
      <4>5. answer' = Buffer /\ host' = "idle"
        BY <2>10, <3>2, <4>1 DEF ReadResults, Buffer
      <4>6. Promise!Lists(answer', Candidates(job, start))
        BY <4>3, <4>4, <4>5, BatchListed
      <4> QED
        BY <4>1, <4>5, <4>6, <2>6
    <3> QED
      BY <3>1, <3>2
  <2>11. CASE Terminated \/ UNCHANGED vars
    BY <2>11, <2>1 DEF Terminated, vars, call
  <2> QED
    BY <2>3, <2>4, <2>5, <2>7, <2>8, <2>9, <2>10, <2>11
    DEF Next, HostStep, DeviceStep
<1> QED
  BY <1>1, <1>2, BatchCorrect, PTL DEF Spec, SearchIsExact, Promise!Spec
=============================================================================
