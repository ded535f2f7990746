--------------------------- MODULE BlockingProofs ---------------------------
(***************************************************************************)
(* The CUDA and Metal hosts return the candidates of their batch or an     *)
(* error, for every batch size, item width, buffer capacity and number of  *)
(* calls.                                                                  *)
(***************************************************************************)
EXTENDS BlockingProperties, KernelProofs
----------------------------------------------------------------------------
(* Work items.                                                             *)

(* Either kernel's item makes one of the moves KernelProofs speaks of.     *)
LEMMA RunningItem ==
  ASSUME TypeOK, DeviceInv, RunItem
  PROVE  /\ host = "run" /\ host' = "run" /\ words = Header(job)
         /\ UNCHANGED <<api, job, start, calls, params, generation, summary,
                        copied, answer>>
         /\ \E i \in Items : Moves(i, job, start, api)
<1>1. /\ host = "run" /\ host' = "run"
      /\ UNCHANGED <<api, job, start, calls, params, generation, summary,
                     copied, answer>>
  BY DEF RunItem, call
<1>2. words = Header(job) /\ params.job = job /\ params.start = start
  BY <1>1 DEF DeviceInv, Launched
<1>3. PICK i \in Items :
        \/ Skip(i, job, start) \/ Claim(i, job, start)
        \/ api = "cuda" /\ Store(i, start)
        \/ api = "metal" /\ EmitResult(i)
  BY <1>2 DEF RunItem
<1>4. CASE Skip(i, job, start) \/ Claim(i, job, start)
  BY <1>1, <1>2, <1>3, <1>4 DEF Moves
<1>5. CASE api = "cuda" /\ Store(i, start)
  BY <1>1, <1>2, <1>3, <1>5, StoreUses DEF TypeOK, Moves
<1>6. CASE api = "metal" /\ EmitResult(i)
  <2>1. slot[i] \in Nat /\ Capacity \in Nat
    BY <1>3, <1>6, KernelAssumption DEF TypeOK, KernelTypeOK, EmitResult
  <2>2. Uses(i, start, api)
    BY <1>2, <1>3, <1>6, <2>1 DEF EmitResult, Uses
  <2> QED
    BY <1>1, <1>2, <1>3, <2>2 DEF Moves
<1> QED
  BY <1>3, <1>4, <1>5, <1>6
----------------------------------------------------------------------------
(* The parts of the invariant, one after the other.                        *)

LEMMA InitBlocking == Init => BlockingInv
<1> SUFFICES ASSUME Init PROVE BlockingInv
  OBVIOUS
<1>1. TypeOK
  BY GeometryType, KernelAssumption
  DEF Init, KernelInit, TypeOK, KernelTypeOK, NoSummary, Places
<1>2. ItemsInv
  BY DEF Init, KernelInit, ItemsInv, ItemsAtStart, SlotsInLane
<1>3. DeviceInv /\ ClaimsInv /\ SummaryInv
  BY DEF Init, DeviceInv, ClaimsInv, SummaryInv, Calling, Launched
<1> QED
  BY <1>1, <1>2, <1>3 DEF BlockingInv

LEMMA StepType ==
  ASSUME BlockingInv, Next
  PROVE  TypeOK'
<1> USE DEF BlockingInv
<1>1. ASSUME NEW j \in Jobs, NEW s \in Nonces, Mine(j, s) PROVE TypeOK'
  BY <1>1 DEF Mine, TypeOK, KernelTypeOK, NoSummary, Places, CudaPlaces,
              MetalPlaces, items, device, memory
<1>2. ASSUME Calling PROVE job \in Jobs /\ Header(job) \in Headers
  BY <1>2, KernelAssumption DEF DeviceInv
<1>3. CASE Upload
  BY <1>3, <1>2 DEF Upload, Calling, TypeOK, KernelTypeOK, Places, CudaPlaces,
                    MetalPlaces, items, call
<1>4. CASE Reset
  BY <1>4, <1>2 DEF Reset, Calling, TypeOK, KernelTypeOK, Places, CudaPlaces,
                    MetalPlaces, items, call
<1>5. CASE Write
  BY <1>5, <1>2 DEF Write, Calling, TypeOK, KernelTypeOK, Places, CudaPlaces,
                    MetalPlaces, items, call
<1>6. CASE RunItem
  <2>1. PICK i \in Items : Moves(i, job, start, api)
    BY <1>6, RunningItem
  <2>2. KernelTypeOK'
    BY <2>1, MoveTypes DEF TypeOK, ItemsInv
  <2> QED
    BY <1>6, <2>2, RunningItem DEF TypeOK
<1>7. CASE Wait
  <2>1. lane' \in [Items -> 0 .. NoncesPerItem] /\ slot' = slot
    BY <1>7, KernelAssumption DEF Wait, ResetItems
  <2> QED
    BY <1>7, <2>1 DEF Wait, TypeOK, KernelTypeOK, Places, device, memory, call
<1>8. CASE ReadSummary
  <2>1. summary' \in [count : Nat, overflow : Nat, generation : Jobs \cup {None}]
    BY <1>8 DEF ReadSummary, TypeOK, KernelTypeOK
  <2> QED
    BY <1>8, <2>1 DEF ReadSummary, TypeOK, KernelTypeOK, Places, CudaPlaces,
                      items, device, memory, call
<1>9. CASE CopyResults
  <2>1. Least(summary.count, Capacity) \in 0 .. Capacity
    BY KernelAssumption DEF TypeOK, Least
  <2>2. \A k \in 1 .. Least(summary.count, Capacity) :
          results[k - 1] \in Nonces \cup {None}
    BY <2>1, KernelAssumption DEF TypeOK, KernelTypeOK
  <2>3. copied' \in Seq(Nonces \cup {None})
    BY <1>9, <2>1, <2>2 DEF CopyResults
  <2> QED
    BY <1>9, <2>3 DEF CopyResults, TypeOK, KernelTypeOK, Places, items, device,
                      memory, call
<1>10. CASE Refuse \/ Return \/ Fail
  BY <1>10 DEF Refuse, Return, Fail, TypeOK, KernelTypeOK, Places, items,
               device, memory, call
<1>11. CASE Terminated
  BY <1>11 DEF Terminated, vars, TypeOK, KernelTypeOK, items, device, memory,
               call
<1> QED
  BY <1>1, <1>3, <1>4, <1>5, <1>6, <1>7, <1>8, <1>9, <1>10, <1>11 DEF Next

(* What a call copies to the device stays there until the call ends.       *)
LEMMA StepDevice ==
  ASSUME BlockingInv, Next
  PROVE  DeviceInv'
<1> USE DEF BlockingInv
<1>1. ASSUME NEW j \in Jobs, NEW s \in Nonces, Mine(j, s) PROVE DeviceInv'
  BY <1>1 DEF Mine, DeviceInv, Calling, Launched
<1>2. CASE Upload \/ Write
  BY <1>2 DEF Upload, Write, DeviceInv, Calling, Launched, call, TypeOK,
              CudaPlaces, Places
<1>3. CASE Reset
  BY <1>3 DEF Reset, DeviceInv, Calling, Launched, call
<1>4. CASE RunItem
  <2>1. /\ host = "run" /\ host' = "run"
        /\ UNCHANGED <<api, job, start, params, generation, answer>>
    BY <1>4, RunningItem
  <2>2. words' = words
    BY <1>4 DEF RunItem, Skip, Claim, Store, EmitResult, memory
  <2> QED
    BY <2>1, <2>2 DEF DeviceInv, Calling, Launched
<1>5. CASE Wait \/ ReadSummary \/ CopyResults
  BY <1>5 DEF Wait, ReadSummary, CopyResults, DeviceInv, Calling, Launched,
              device, memory, call
<1>6. CASE Refuse \/ Return \/ Fail
  BY <1>6 DEF Refuse, Return, Fail, DeviceInv, Calling, Launched
<1>7. CASE Terminated
  BY <1>7 DEF Terminated, vars, device, memory, call, DeviceInv, Calling,
              Launched
<1> QED
  BY <1>1, <1>2, <1>3, <1>4, <1>5, <1>6, <1>7 DEF Next

LEMMA StepItems ==
  ASSUME BlockingInv, Next
  PROVE  ItemsInv'
<1> USE DEF BlockingInv
<1>1. ASSUME UNCHANGED items,
             host' \notin {"run", "failed"} => host \notin {"run", "failed"}
      PROVE  ItemsInv'
  BY <1>1 DEF ItemsInv, SlotsInLane, ItemsAtStart, items, Ended, Offset
<1>2. ASSUME NEW j \in Jobs, NEW s \in Nonces, Mine(j, s) PROVE ItemsInv'
  BY <1>1, <1>2 DEF Mine
<1>3. CASE Upload \/ Reset \/ Write \/ ReadSummary \/ CopyResults \/ Refuse
           \/ Return \/ Fail
  BY <1>1, <1>3 DEF Upload, Reset, Write, ReadSummary, CopyResults, Refuse,
                    Return, Fail
<1>4. CASE RunItem
  <2>1. PICK i \in Items : Moves(i, job, start, api)
    BY <1>4, RunningItem
  <2>2. SlotsInLane'
    BY <2>1, MoveSlots DEF TypeOK, ItemsInv
  <2> QED
    BY <1>4, <2>2, RunningItem DEF ItemsInv
<1>5. CASE Wait
  <2>1. ItemsAtStart'
    BY <1>5, LaunchItems DEF Wait
  <2>2. SlotsInLane'
    BY <2>1 DEF ItemsAtStart, SlotsInLane
  <2> QED
    BY <2>1, <2>2 DEF ItemsInv
<1>6. CASE Terminated
  BY <1>1, <1>6 DEF Terminated, vars
<1> QED
  BY <1>2, <1>3, <1>4, <1>5, <1>6 DEF Next

(* Every step keeps the claims distinct, complete and in their slots.      *)
LEMMA StepClaims ==
  ASSUME BlockingInv, Next
  PROVE  ClaimsInv'
<1> USE DEF BlockingInv
<1>1. PICK j, s, d : j = job /\ s = start /\ d = api
  OBVIOUS
<1>2. ASSUME host' \notin {"run", "summary", "copy", "check"} PROVE ClaimsInv'
  BY <1>2 DEF ClaimsInv, Launched
<1>3. ASSUME Launched, UNCHANGED <<api, job, start>>,
             UNCHANGED <<items, count, overflow, results, claims>>,
             host' = "run" <=> host = "run"
      PROVE  ClaimsInv'
  <2>1. /\ ClaimsAre(j, s, d)
        /\ host = "run" => ClaimsFollow(j, s)
        /\ host # "run" => AllClaimed(j, s)
    BY <1>1, <1>3 DEF ClaimsInv
  <2>2. /\ ClaimsAre(j, s, d)'
        /\ host = "run" => ClaimsFollow(j, s)'
        /\ host # "run" => AllClaimed(j, s)'
    BY <1>3, <2>1, StandingClaims
  <2> QED
    BY <1>1, <1>3, <2>2 DEF ClaimsInv
<1>4. ASSUME host \notin {"run", "failed"}, host' = "run",
             UNCHANGED <<items, api, job, start>>, claims' = <<>>, count' = 0
      PROVE  ClaimsInv'
  <2>1. ClaimsAre(j, s, d)' /\ ClaimsFollow(j, s)'
    BY <1>4, ClearedClaims DEF ItemsInv
  <2> QED
    BY <1>1, <1>4, <2>1 DEF ClaimsInv
<1>5. ASSUME NEW k \in Jobs, NEW n \in Nonces, Mine(k, n) PROVE ClaimsInv'
  BY <1>2, <1>5 DEF Mine
<1>6. CASE Upload \/ Refuse \/ Return \/ Fail
  BY <1>2, <1>6 DEF Upload, Refuse, Return, Fail
<1>7. CASE Reset \/ Write
  BY <1>4, <1>7 DEF Reset, Write, call
<1>8. CASE RunItem
  <2>1. PICK i \in Items : Moves(i, job, start, api)
    BY <1>8, RunningItem
  <2>2. /\ host = "run" /\ host' = "run" /\ words = Header(job)
        /\ UNCHANGED <<api, job, start>>
    BY <1>8, RunningItem
  <2>3. /\ Moves(i, j, s, d) /\ words = Header(j)
        /\ ClaimsAre(j, s, d) /\ ClaimsFollow(j, s)
    BY <1>1, <2>1, <2>2 DEF ClaimsInv, Launched
  <2>4. ClaimsAre(j, s, d)' /\ ClaimsFollow(j, s)'
    BY <2>3, MoveKeepsClaims DEF TypeOK, ItemsInv
  <2> QED
    BY <1>1, <2>2, <2>4 DEF ClaimsInv
<1>9. CASE Wait
  <2>1. /\ host = "run" /\ host' = "summary" /\ AllEnded /\ ResetItems
        /\ UNCHANGED <<memory, api, job, start>>
    BY <1>9 DEF Wait, device, call
  <2>2. ClaimsAre(j, s, d) /\ ClaimsFollow(j, s)
    BY <1>1, <2>1 DEF ClaimsInv, Launched
  <2>3. ClaimsAre(j, s, d)' /\ AllClaimed(j, s)'
    BY <2>1, <2>2, EndedLaunch DEF TypeOK
  <2> QED
    BY <1>1, <2>1, <2>3 DEF ClaimsInv
<1>10. CASE ReadSummary \/ CopyResults
  BY <1>3, <1>10 DEF ReadSummary, CopyResults, Launched, device, memory, call
<1>11. CASE Terminated
  BY <1>2, <1>11 DEF Terminated, vars
<1> QED
  BY <1>5, <1>6, <1>7, <1>8, <1>9, <1>10, <1>11 DEF Next

(* What the host judges is what the kernel left.                           *)
LEMMA StepSummary ==
  ASSUME BlockingInv, Next
  PROVE  SummaryInv'
<1> USE DEF BlockingInv
<1>1. ASSUME host' \notin {"copy", "check"} PROVE SummaryInv'
  BY <1>1 DEF SummaryInv
<1>2. ASSUME NEW j \in Jobs, NEW s \in Nonces, Mine(j, s) PROVE SummaryInv'
  BY <1>1, <1>2 DEF Mine
<1>3. CASE Upload \/ Reset \/ Write \/ Wait \/ Refuse \/ Return \/ Fail
  BY <1>1, <1>3 DEF Upload, Reset, Write, Wait, Refuse, Return, Fail
<1>4. CASE RunItem
  BY <1>1, <1>4 DEF RunItem
<1>5. CASE ReadSummary
  BY <1>5 DEF ReadSummary, SummaryInv, TypeOK, device, memory, call
<1>6. CASE CopyResults
  BY <1>6 DEF CopyResults, SummaryInv, device, memory, call
<1>7. CASE Terminated
  BY <1>1, <1>7 DEF Terminated, vars
<1> QED
  BY <1>2, <1>3, <1>4, <1>5, <1>6, <1>7 DEF Next

(* BlockingInv holds in every state: on either API the claims of a batch   *)
(* are its candidates, each in its slot or counted, and what the host      *)
(* judges and returns is what the kernel left there.                       *)
THEOREM BlockingCorrect == Spec => []BlockingInv
<1>1. Init => BlockingInv
  BY InitBlocking
<1>2. BlockingInv /\ [Next]_vars => BlockingInv'
  <2> SUFFICES ASSUME BlockingInv, [Next]_vars PROVE BlockingInv'
    OBVIOUS
  <2>1. CASE Next
    BY <2>1, StepType, StepDevice, StepItems, StepClaims, StepSummary
    DEF BlockingInv
  <2>2. CASE UNCHANGED vars
    BY <2>2
    DEF vars, items, device, memory, call, BlockingInv, TypeOK, KernelTypeOK,
        DeviceInv, ItemsInv, ClaimsInv, SummaryInv, Calling, Launched, Ended,
        SlotsInLane, ItemsAtStart, ClaimsAre, ClaimsFollow, AllClaimed,
        Offset, Held, Stored, Passed, Claimed, CandidateOffsets
  <2> QED
    BY <2>1, <2>2
<1> QED
  BY <1>1, <1>2, PTL DEF Spec
----------------------------------------------------------------------------
(* The refinement.                                                         *)

(* A buffer with all claims is the list that is promised.                  *)
LEMMA BatchListed ==
  ASSUME BlockingInv, host = "check", count <= Capacity
  PROVE  Promise!Lists(Buffer, Candidates(job, start))
<1>1. PICK j, s, d : j = job /\ s = start /\ d = api
  OBVIOUS
<1>2. /\ KernelTypeOK /\ s \in Nonces /\ ItemsAtStart
      /\ ClaimsAre(j, s, d) /\ AllClaimed(j, s)
  BY <1>1 DEF BlockingInv, TypeOK, ItemsInv, ClaimsInv, Launched
<1>3. /\ {Buffer[k] : k \in DOMAIN Buffer} = Candidates(j, s)
      /\ \A k, n \in DOMAIN Buffer : Buffer[k] = Buffer[n] => k = n
  BY <1>2, BufferLists
<1> QED
  BY <1>1, <1>3 DEF Promise!Lists

(* A call that returns found a slot for every claim.                       *)
LEMMA Returned ==
  ASSUME BlockingInv, Return
  PROVE  count <= Capacity /\ answer' = Buffer
<1>1. /\ host = "check" /\ summary.count = count /\ ~Overflowed
      /\ count \in Nat /\ Capacity \in Nat \ {0}
  BY KernelAssumption
  DEF Return, BlockingInv, SummaryInv, TypeOK, KernelTypeOK
<1>2. count <= Capacity
  BY <1>1 DEF Overflowed
<1>3. CASE api = "cuda"
  <2>1. Least(count, Capacity) = count
    BY <1>1, <1>2 DEF Least
  <2>2. copied = [k \in 1 .. Least(count, Capacity) |-> results[k - 1]]
    BY <1>1, <1>3 DEF BlockingInv, SummaryInv
  <2> QED
    BY <1>2, <1>3, <2>1, <2>2 DEF Return, Buffer
<1>4. CASE api # "cuda"
  BY <1>1, <1>2, <1>4 DEF Return, Buffer
<1> QED
  BY <1>3, <1>4

(* CudaBackend::mine and MetalBackend::mine implement BatchSearch: a list  *)
(* they return holds all candidates of its batch, each once.               *)
THEOREM SearchCorrect == Spec => SearchIsExact
<1>1. Init => Promise!Init
  BY DEF Init, Promise!Init, Request, Calling
<1>2. BlockingInv /\ [Next]_vars => [Promise!Next]_Promise!vars
  <2> SUFFICES ASSUME BlockingInv, [Next]_vars
               PROVE  [Promise!Next]_Promise!vars
    OBVIOUS
  <2>1. Calling => Request = [job |-> job, start |-> start] /\ Request # None
    BY BlockingAssumption DEF BlockingInv, TypeOK, DeviceInv, Request
  <2>2. ASSUME Calling, Calling', UNCHANGED <<job, start, answer>>
        PROVE  UNCHANGED Promise!vars
    BY <2>2 DEF Promise!vars, Request, Calling
  <2>3. ASSUME NEW j \in Jobs, NEW s \in Nonces, Mine(j, s)
        PROVE  Promise!Next
    BY <2>3 DEF Mine, Request, Calling, Promise!Next, Promise!Mine
  <2>4. CASE Upload \/ Reset \/ Write \/ Wait \/ ReadSummary \/ CopyResults
    BY <2>2, <2>4 DEF Upload, Reset, Write, Wait, ReadSummary, CopyResults,
                      Calling, call
  <2>5. CASE RunItem
    BY <2>2, <2>5 DEF RunItem, Calling, call
  <2>6. CASE Refuse \/ Fail
    <3>1. Calling /\ host' = "failed" /\ answer' = None
      BY <2>6 DEF Refuse, Fail, Calling, BlockingInv, DeviceInv
    <3> QED
      BY <2>1, <3>1 DEF Request, Calling, Promise!Next, Promise!Fail
  <2>7. CASE Return
    <3>1. Calling /\ host = "check" /\ host' = "idle"
      BY <2>7 DEF Return, Calling
    <3>2. Promise!Lists(answer', Candidates(job, start))
      BY <2>7, <3>1, Returned, BatchListed
    <3>3. Request.job = job /\ Request.start = start /\ Request' = None
      BY <2>1, <3>1 DEF Request, Calling
    <3> QED
      BY <2>1, <3>1, <3>2, <3>3 DEF Promise!Next, Promise!Return
  <2>8. CASE Terminated \/ UNCHANGED vars
    BY <2>8 DEF Terminated, vars, call, Promise!vars, Request, Calling
  <2> QED
    BY <2>3, <2>4, <2>5, <2>6, <2>7, <2>8 DEF Next
<1> QED
  BY <1>1, <1>2, BlockingCorrect, PTL DEF Spec, SearchIsExact, Promise!Spec
=============================================================================
