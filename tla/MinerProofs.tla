----------------------------- MODULE MinerProofs -----------------------------
(***************************************************************************)
(* Proofs about Miner.tla, for any number of workers, any ranges and any   *)
(* digests, in three parts: its types, that epochs name one Work each and  *)
(* that no share is submitted to another connection than the one its job   *)
(* came over; that it implements ShareSubmission.tla; and what becomes of  *)
(* the nonces of a Work.                                                   *)
(*                                                                         *)
(* Each step updates one worker's record, the record of one Work, or the   *)
(* main thread's variables: the lemmas on those updates carry the proofs.  *)
(***************************************************************************)
EXTENDS MinerProperties, FiniteSetTheorems, FunctionTheorems, TLAPS

(* The types hold when run has just spawned its workers.                   *)
LEMMA TypeInit == Init => TypeOK
<1> SUFFICES ASSUME Init PROVE TypeOK
  OBVIOUS
<1> USE DEF Init
<1>1. MainTypeOK
  BY DEF MainTypeOK, MainPlaces
<1>2. WorksTypeOK
  BY DEF WorksTypeOK
<1>3. FlagsTypeOK
  BY DEF FlagsTypeOK
<1>4. SharesTypeOK
  BY DEF SharesTypeOK
<1>5. CpuTypeOK
  BY DEF CpuTypeOK, CpuType, IdleCpu, CpuPlaces
<1>6. GpuTypeOK
  BY DEF GpuTypeOK, GpuType, IdleGpu, GpuPlaces
<1> QED
  BY <1>1, <1>2, <1>3, <1>4, <1>5, <1>6 DEF TypeOK

(* The Works only grow, so an index into them stays one.                   *)
LEMMA GrowthKeepsIndices ==
  ASSUME TypeOK, Len(works') \in Nat, Len(works') >= Len(works)
  PROVE  /\ UNCHANGED <<shares, sent>> => SharesTypeOK'
         /\ UNCHANGED cpu => CpuTypeOK'
         /\ UNCHANGED gpu => GpuTypeOK'
<1> USE DEF TypeOK, WorksTypeOK
<1>1. ShareType \subseteq ShareType' /\ SentType \subseteq SentType'
  BY DEF ShareType, SentType
<1>2. CpuType \subseteq CpuType' /\ GpuType \subseteq GpuType'
  BY DEF CpuType, GpuType
<1> QED
  BY <1>1, <1>2 DEF SharesTypeOK, CpuTypeOK, GpuTypeOK

(* Every step of the main thread keeps the types.                          *)
LEMMA MainKeepsType ==
  ASSUME TypeOK, MainStep PROVE TypeOK'
<1> USE DEF TypeOK, MainTypeOK, WorksTypeOK, FlagsTypeOK
<1>1. ASSUME UNCHANGED works
      PROVE  /\ UNCHANGED <<shares, sent>> => SharesTypeOK'
             /\ UNCHANGED <<cpu, gpu>> => CpuTypeOK' /\ GpuTypeOK'
  BY <1>1, GrowthKeepsIndices
<1>2. CASE \/ Connect \/ ConnectFails \/ WithdrawWork \/ BumpEpoch
           \/ ShutdownWithdraw \/ ShutdownBump \/ JoinWorkers
           \/ LeaveSession \/ EnterLoop \/ Drained \/ ReadNothing
           \/ SessionFails
  BY <1>1, <1>2
     DEF Connect, ConnectFails, WithdrawWork, BumpEpoch, ShutdownWithdraw,
         ShutdownBump, JoinWorkers, LeaveSession, EnterLoop, Drained,
         ReadNothing, SessionFails, pool, job, workers, MainPlaces
<1>3. CASE DiscardShare \/ SubmitShare \/ SubmitFails
  <2>1. Head(shares) \in ShareType /\ Tail(shares) \in Seq(ShareType)
    BY <1>3 DEF DiscardShare, SubmitShare, SubmitFails, SharesTypeOK
  <2>2. works' = works /\ connection' = connection
    BY <1>3 DEF DiscardShare, SubmitShare, SubmitFails, job, pool
  <2>3. ShareType' = ShareType /\ SentType' = SentType
    BY <2>2 DEF ShareType, SentType
  <2>4. [work |-> Head(shares).work, nonce |-> Head(shares).nonce,
         connection |-> connection] \in SentType
    BY <2>1 DEF ShareType, SentType
  <2>5. SharesTypeOK'
    BY <2>1, <2>3, <2>4, <1>3
       DEF DiscardShare, SubmitShare, SubmitFails, SharesTypeOK
  <2> QED
    BY <1>1, <1>3, <2>5 DEF DiscardShare, SubmitShare, SubmitFails, pool, job,
                            workers, MainPlaces
<1>4. CASE StoreWork
  <2>1. Work(incoming, activeEpoch) \in WorkType
    BY <1>4 DEF StoreWork, Work, WorkType, JobSpecs
  <2>2. /\ works' \in Seq(WorkType)
        /\ Len(works') = Len(works) + 1
        /\ current' \in 0 .. Len(works')
    BY <2>1, <1>4 DEF StoreWork
  <2> QED
    BY <2>2, <1>4, GrowthKeepsIndices DEF StoreWork, workers, MainPlaces
<1>5. ASSUME NEW h \in Headers, Notify(h) PROVE TypeOK'
  BY <1>1, <1>5 DEF Notify, BeginInstall, JobSpecs, workers, MainPlaces
<1>6. ASSUME NEW t \in Targets, SetTarget(t) PROVE TypeOK'
  <2>1. current # 0 => works[current] \in WorkType
    OBVIOUS
  <2> QED
    BY <2>1, <1>1, <1>6 DEF SetTarget, BeginInstall, JobSpecs, WorkType,
                            workers, MainPlaces
<1> QED
  BY <1>2, <1>3, <1>4, <1>5, <1>6 DEF MainStep

(* The assumptions on the sizes alone.                                     *)
LEMMA Sizes ==
  /\ Reservation \in Nat \ {0} /\ StaleInterval \in Nat \ {0}
  /\ BatchSize \in Nat \ {0} /\ NonceSpace \in Nat \ {0}
  BY MinerAssumption

(* A counter wraps into the nonces.                                        *)
LEMMA NonceIsNonce ==
  ASSUME NEW start \in Nat, NEW offset \in Nat
  PROVE  Nonce(start, offset) \in Nonces
  BY Sizes DEF Nonce, Nonces

(* A CPU worker that hashed one more nonce.                                *)
LEMMA HashedOne ==
  ASSUME NEW c \in CpuType, NEW p \in CpuPlaces, NEW o \in Nat
  PROVE  /\ [c EXCEPT !.pc = p, !.offset = o, !.pending = @ + 1] \in CpuType
         /\ [c EXCEPT !.pc = p, !.offset = o, !.pending = @ + 1].work = c.work
<1> DEFINE T == [pc : CpuPlaces, work : 0 .. Len(works), start : Nat,
                 offset : Nat, pending : Nat]
<1>1. c \in T /\ c.pending + 1 \in Nat
  BY DEF CpuType
<1>2. [c EXCEPT !.pc = p, !.offset = o, !.pending = c.pending + 1] \in T
  BY <1>1
<1>3. [c EXCEPT !.pc = p, !.offset = o, !.pending = @ + 1].work = c.work
  BY <1>1
<1> QED
  BY <1>1, <1>2, <1>3 DEF CpuType

(* A well-typed new record of one CPU worker keeps the workers well typed. *)
LEMMA CpuUpdate ==
  ASSUME TypeOK, NEW w \in CpuWorkers, NEW c \in CpuType,
         c.pc \in {"reserve", "check", "hash"} => c.work # 0,
         Len(works') = Len(works),
         cpu' = [cpu EXCEPT ![w] = c]
  PROVE  CpuTypeOK'
<1>1. CpuType' = CpuType
  BY DEF CpuType
<1> QED
  BY <1>1 DEF TypeOK, CpuTypeOK

(* Reserving from a Work, and recording hashes, leave it a Work.           *)
LEMMA ReservedWork ==
  ASSUME NEW r \in WorkType, NEW n \in Nat
  PROVE  [r EXCEPT !.next = @ + n] \in WorkType
  BY DEF WorkType

(* See ReservedWork.                                                       *)
LEMMA HashedWork ==
  ASSUME NEW r \in WorkType, NEW S \in SUBSET Nonces
  PROVE  [r EXCEPT !.hashed = @ \cup S] \in WorkType
  BY DEF WorkType

(* A well-typed new record of one Work keeps everything well typed.        *)
LEMMA WorksUpdate ==
  ASSUME TypeOK, NEW k \in 1 .. Len(works), NEW r \in WorkType,
         works' = [works EXCEPT ![k] = r], UNCHANGED <<current, activeEpoch>>
  PROVE  /\ WorksTypeOK'
         /\ Len(works') = Len(works)
         /\ ShareType' = ShareType /\ SentType' = SentType
         /\ UNCHANGED <<shares, sent>> => SharesTypeOK'
         /\ UNCHANGED cpu => CpuTypeOK'
         /\ UNCHANGED gpu => GpuTypeOK'
<1> USE DEF TypeOK, WorksTypeOK
<1>1. works' \in Seq(WorkType) /\ Len(works') = Len(works)
  OBVIOUS
<1>2. ShareType' = ShareType /\ SentType' = SentType
  BY <1>1 DEF ShareType, SentType
<1> QED
  BY <1>1, <1>2, GrowthKeepsIndices

(* Every step of a CPU worker keeps the types.                             *)
LEMMA CpuKeepsType ==
  ASSUME TypeOK, NEW w \in CpuWorkers, CpuStep(w) PROVE TypeOK'
<1> USE DEF TypeOK, WorksTypeOK, FlagsTypeOK
<1>0. UNCHANGED <<main, pool, current, activeEpoch, stop, gpuFailed, gpu, sent>>
  BY DEF CpuStep, CpuExit, CpuContinue, CpuNoWork, CpuLoad, CpuReserve,
         CpuAbandon, CpuStillCurrent, CpuHash, others
<1>1. MainTypeOK'
  BY <1>0 DEF MainTypeOK, pool
<1>2. /\ cpu[w] \in CpuType
      /\ cpu[w].pending \in Nat /\ cpu[w].offset \in Nat
      /\ cpu[w].start \in Nat /\ cpu[w].work \in 0 .. Len(works)
      /\ cpu[w].pc \in {"reserve", "check", "hash"} => cpu[w].work # 0
  BY DEF CpuTypeOK, CpuType
<1>4. ASSUME UNCHANGED <<works, shares>>, CpuTypeOK',
             hashes' \in [cpu : Nat, gpu : Nat]
      PROVE  TypeOK'
  <2>1. SharesTypeOK' /\ GpuTypeOK'
    BY <1>0, <1>4, GrowthKeepsIndices
  <2> QED
    BY <2>1, <1>0, <1>1, <1>4
<1>5. \A p \in Nat : Flushed(p) \in [cpu : Nat, gpu : Nat]
  BY DEF Flushed
<1>6. CASE CpuExit(w) \/ CpuNoWork(w)
  <2> DEFINE c(pc) == [cpu[w] EXCEPT !.pc = pc, !.pending = 0]
  <2>1. c("done") \in CpuType /\ c("top") \in CpuType
    BY <1>2 DEF CpuType, CpuPlaces
  <2>2. cpu' = [cpu EXCEPT ![w] = c("done")] \/ cpu' = [cpu EXCEPT ![w] = c("top")]
    BY <1>6 DEF CpuExit, CpuNoWork
  <2>3. c("done").pc = "done" /\ c("top").pc = "top"
    BY <1>2 DEF CpuType
  <2> HIDE DEF c
  <2>4. CpuTypeOK'
    BY <2>1, <2>2, <2>3, <1>6, CpuUpdate DEF CpuExit, CpuNoWork
  <2> QED
    BY <2>4, <1>2, <1>4, <1>5, <1>6 DEF CpuExit, CpuNoWork
<1>7. CASE CpuContinue(w)
  <2> DEFINE c == [cpu[w] EXCEPT !.pc = "load"]
  <2>1. c \in CpuType /\ c.pc = "load" /\ cpu' = [cpu EXCEPT ![w] = c]
    BY <1>2, <1>7 DEF CpuContinue, CpuType, CpuPlaces
  <2> HIDE DEF c
  <2> QED
    BY <2>1, <1>4, <1>7, CpuUpdate DEF CpuContinue
<1>8. CASE CpuLoad(w)
  <2> DEFINE c == [cpu[w] EXCEPT !.pc = "reserve", !.work = current]
  <2>1. c \in CpuType /\ c.work # 0 /\ cpu' = [cpu EXCEPT ![w] = c]
    BY <1>2, <1>8 DEF CpuLoad, CpuType, CpuPlaces
  <2> HIDE DEF c
  <2> QED
    BY <2>1, <1>4, <1>8, CpuUpdate DEF CpuLoad
<1>9. CASE CpuStillCurrent(w)
  <2> DEFINE c == [cpu[w] EXCEPT !.pc = "hash"]
  <2>1. c \in CpuType /\ c.work # 0 /\ cpu' = [cpu EXCEPT ![w] = c]
    BY <1>2, <1>9 DEF CpuStillCurrent, CpuType, CpuPlaces
  <2> HIDE DEF c
  <2> QED
    BY <2>1, <1>4, <1>9, CpuUpdate DEF CpuStillCurrent
<1>10. ASSUME NEW pending \in Nat, EndReservation(w, pending),
              Len(works') = Len(works)
       PROVE  CpuTypeOK' /\ hashes' \in [cpu : Nat, gpu : Nat]
  <2> DEFINE c == [IdleCpu EXCEPT
                     !.pending = IF pending >= Reservation THEN 0 ELSE pending]
  <2>1. c \in CpuType /\ c.pc = "top" /\ cpu' = [cpu EXCEPT ![w] = c]
    BY <1>10, Sizes DEF EndReservation, IdleCpu, CpuType, CpuPlaces
  <2> HIDE DEF c
  <2> QED
    BY <2>1, <1>5, <1>10, CpuUpdate DEF EndReservation
<1>11. CASE CpuAbandon(w)
  BY <1>11, <1>2, <1>4, <1>10 DEF CpuAbandon
<1>12. CASE CpuReserve(w)
  <2> DEFINE k == cpu[w].work
             c == [cpu[w] EXCEPT !.pc = "check", !.start = works[k].next,
                                 !.offset = 0]
             r == [works[k] EXCEPT !.next = @ + Reservation]
  <2>1. k \in 1 .. Len(works) /\ works[k] \in WorkType
    BY <1>2, <1>12 DEF CpuReserve, CpuType
  <2>2. r \in WorkType
    BY <2>1, Sizes, ReservedWork
  <2>3a. works' = [works EXCEPT ![k] = r]
    BY <2>1, <1>12 DEF CpuReserve
  <2>3. /\ c \in CpuType /\ c.work # 0
        /\ cpu' = [cpu EXCEPT ![w] = c]
    BY <2>1, <1>2, <1>12 DEF CpuReserve, CpuType, WorkType, CpuPlaces
  <2> HIDE DEF c, r, k
  <2>4. WorksTypeOK' /\ GpuTypeOK' /\ SharesTypeOK' /\ Len(works') = Len(works)
    BY <2>1, <2>2, <2>3a, <1>0, <1>12, WorksUpdate DEF CpuReserve
  <2>5. CpuTypeOK'
    BY <2>3, <2>4, CpuUpdate
  <2> QED
    BY <2>4, <2>5, <1>0, <1>1, <1>12 DEF CpuReserve
<1>13. CASE CpuHash(w)
  <2> DEFINE k == cpu[w].work
             n == Nonce(cpu[w].start, cpu[w].offset)
             off == cpu[w].offset + 1
             place == IF off % StaleInterval = 0 THEN "check" ELSE "hash"
             c == [cpu[w] EXCEPT !.pc = place, !.offset = off,
                                 !.pending = @ + 1]
             r == [works[k] EXCEPT !.hashed = @ \cup {n}]
  <2>1. k \in 1 .. Len(works) /\ works[k] \in WorkType
    BY <1>2, <1>13 DEF CpuHash
  <2>1a. n \in Nonces
    BY <1>2, NonceIsNonce
  <2>2. r \in WorkType
    BY <2>1a, <2>1, HashedWork
  <2>3a. works' = [works EXCEPT ![k] = r]
    BY <2>1, <1>13 DEF CpuHash
  <2>3. WorksTypeOK' /\ GpuTypeOK' /\ Len(works') = Len(works)
        /\ ShareType' = ShareType /\ SentType' = SentType
    BY <2>1, <2>2, <2>3a, <1>0, WorksUpdate
  <2>4. SharesTypeOK'
    <3>1. [work |-> k, nonce |-> n] \in ShareType
      BY <2>1a, <2>1 DEF ShareType
    <3>2. shares' \in Seq(ShareType)
      BY <3>1, <1>13 DEF CpuHash, SharesTypeOK
    <3> QED
      BY <3>2, <2>3, <1>0 DEF SharesTypeOK
  <2>5. CpuTypeOK' /\ hashes' \in [cpu : Nat, gpu : Nat]
    <3>1. \/ /\ off < Reservation
             /\ cpu' = [cpu EXCEPT ![w] = c]
             /\ UNCHANGED hashes
          \/ /\ off >= Reservation
             /\ EndReservation(w, cpu[w].pending + 1)
      BY <1>13 DEF CpuHash
    <3>2. place \in CpuPlaces /\ off \in Nat
      BY <1>2 DEF CpuPlaces
    <3> HIDE DEF place, off
    <3>3. c \in CpuType /\ c.work # 0
      <4>1. c \in CpuType /\ c.work = cpu[w].work
        BY ONLY <3>2, <1>2, HashedOne
      <4> QED
        BY <4>1, <2>1
    <3>4. CASE off < Reservation
      <4>1. cpu' = [cpu EXCEPT ![w] = c] /\ UNCHANGED hashes
        BY <3>1, <3>2, <3>4, Sizes
      <4> HIDE DEF c
      <4> QED
        BY <4>1, <3>3, <2>3, CpuUpdate
    <3>5. CASE off >= Reservation
      <4>1. EndReservation(w, cpu[w].pending + 1)
        BY <3>1, <3>2, <3>5, Sizes
      <4> QED
        BY <4>1, <2>3, <1>2, <1>10
    <3> QED
      BY <3>2, <3>4, <3>5, Sizes
  <2> QED
    BY <2>3, <2>4, <2>5, <1>0, <1>1
<1> QED
  BY <1>6, <1>7, <1>8, <1>9, <1>11, <1>12, <1>13 DEF CpuStep

(* See CpuUpdate.                                                          *)
LEMMA GpuUpdate ==
  ASSUME TypeOK, NEW g \in GpuWorkers, NEW d \in GpuType,
         d.pc \in {"reserve", "mine", "check", "send"} => d.work # 0,
         d.pc \in {"reserve", "mine"} => d.cached # None,
         Len(works') = Len(works),
         gpu' = [gpu EXCEPT ![g] = d]
  PROVE  GpuTypeOK'
<1>1. GpuType' = GpuType
  BY DEF GpuType
<1> QED
  BY <1>1 DEF TypeOK, GpuTypeOK

(* The record updates of a GPU worker, over the sets its fields are from.  *)
LEMMA GpuRecords ==
  ASSUME NEW P, NEW W, NEW N, NEW V, NEW C, NEW L,
         NEW d \in [pc : P, work : W, start : N, wins : V, cached : C,
                    loaded : L],
         NEW p \in P, NEW k \in W, NEW s \in N, NEW v \in V, NEW c \in C,
         NEW l \in L
  PROVE  /\ [d EXCEPT !.pc = p, !.work = k, !.start = s, !.wins = v]
              \in [pc : P, work : W, start : N, wins : V, cached : C, loaded : L]
         /\ [d EXCEPT !.pc = p, !.work = k, !.start = s, !.wins = v].pc = p
         /\ [d EXCEPT !.pc = p, !.work = k, !.cached = c]
              \in [pc : P, work : W, start : N, wins : V, cached : C, loaded : L]
         /\ [d EXCEPT !.pc = p, !.work = k, !.cached = c].work = k
         /\ [d EXCEPT !.pc = p, !.work = k, !.cached = c].cached = c
         /\ [d EXCEPT !.pc = p, !.start = s]
              \in [pc : P, work : W, start : N, wins : V, cached : C, loaded : L]
         /\ [d EXCEPT !.pc = p, !.start = s].work = d.work
         /\ [d EXCEPT !.pc = p, !.start = s].cached = d.cached
         /\ [d EXCEPT !.pc = p, !.loaded = l, !.wins = v]
              \in [pc : P, work : W, start : N, wins : V, cached : C, loaded : L]
         /\ [d EXCEPT !.pc = p, !.loaded = l, !.wins = v].work = d.work
         /\ [d EXCEPT !.pc = p, !.loaded = l, !.wins = v].pc = p
  OBVIOUS

(* Every step of a GPU worker keeps the types.                             *)
LEMMA GpuKeepsType ==
  ASSUME TypeOK, NEW g \in GpuWorkers, GpuStep(g) PROVE TypeOK'
<1> USE DEF TypeOK, WorksTypeOK, FlagsTypeOK
<1>0. UNCHANGED <<main, pool, current, activeEpoch, cpu, sent>>
  BY DEF GpuStep, GpuExit, GpuContinue, GpuNoWork, GpuLoad, GpuReserve, GpuMine,
         GpuOutdated, GpuStillCurrent, GpuSend, GpuSent, GpuFails, GpuStops,
         rest
<1>1. MainTypeOK'
  BY <1>0 DEF MainTypeOK, pool
<1>2. /\ gpu[g] \in GpuType
      /\ gpu[g].pc \in {"reserve", "mine", "check", "send"} => gpu[g].work # 0
      /\ gpu[g].pc \in {"reserve", "mine"} => gpu[g].cached # None
  BY DEF GpuTypeOK
<1>3. /\ gpu[g].start \in Nat /\ gpu[g].work \in 0 .. Len(works)
      /\ gpu[g].wins \in SUBSET Nonces
  BY <1>2 DEF GpuType
<1>3a. /\ {"top", "reserve", "mine", "check"} \subseteq GpuPlaces
       /\ 0 \in 0 .. Len(works) /\ 0 \in Nat /\ {} \in SUBSET Nonces
       /\ current \in 0 .. Len(works)
  BY DEF GpuPlaces
<1>4. ASSUME UNCHANGED <<works, shares>>, GpuTypeOK', FlagsTypeOK'
      PROVE  TypeOK'
  <2>1. SharesTypeOK' /\ CpuTypeOK'
    BY <1>0, <1>4, GrowthKeepsIndices
  <2> QED
    BY <2>1, <1>0, <1>1, <1>4
<1>5. IdleGpu \in GpuType
  BY DEF IdleGpu, GpuType, GpuPlaces
<1>6. CASE GpuExit(g) \/ GpuFails(g)
  <2> DEFINE d(pc) == [IdleGpu EXCEPT !.pc = pc]
  <2>1. d("done") \in GpuType /\ d("failing") \in GpuType
    BY <1>5 DEF GpuType, GpuPlaces
  <2>2. d("done").pc = "done" /\ d("failing").pc = "failing"
    BY <1>5 DEF GpuType
  <2>3. gpu' = [gpu EXCEPT ![g] = d("done")]
          \/ gpu' = [gpu EXCEPT ![g] = d("failing")]
    BY <1>6 DEF GpuExit, GpuFails
  <2> HIDE DEF d
  <2>4. GpuTypeOK'
    BY <2>1, <2>2, <2>3, <1>6, GpuUpdate DEF GpuExit, GpuFails
  <2> QED
    BY <2>4, <1>4, <1>6 DEF GpuExit, GpuFails
<1>7. CASE \/ GpuContinue(g) \/ GpuNoWork(g) \/ GpuStops(g)
           \/ GpuStillCurrent(g)
  <2> DEFINE d(pc) == [gpu[g] EXCEPT !.pc = pc]
  <2>1. ASSUME NEW pc \in GpuPlaces
        PROVE  d(pc) \in GpuType /\ d(pc).pc = pc /\ d(pc).work = gpu[g].work
    BY <1>2 DEF GpuType
  <2>2. \/ gpu' = [gpu EXCEPT ![g] = d("load")]
        \/ gpu' = [gpu EXCEPT ![g] = d("top")]
        \/ gpu' = [gpu EXCEPT ![g] = d("done")]
        \/ gpu[g].work # 0 /\ gpu' = [gpu EXCEPT ![g] = d("send")]
    BY <1>2, <1>7 DEF GpuContinue, GpuNoWork, GpuStops, GpuStillCurrent
  <2> HIDE DEF d
  <2>3. GpuTypeOK'
    BY <2>1, <2>2, <1>7, GpuUpdate
       DEF GpuContinue, GpuNoWork, GpuStops, GpuStillCurrent, GpuPlaces
  <2> QED
    BY <2>3, <1>4, <1>7 DEF GpuContinue, GpuNoWork, GpuStops, GpuStillCurrent
<1>8. CASE GpuLoad(g)
  <2> DEFINE job0 == IF CachedFor(gpu[g].cached, works[current])
                       THEN gpu[g].cached ELSE Prepared(works[current])
             d == [gpu[g] EXCEPT !.pc = "reserve", !.work = current,
                                 !.cached = job0]
  <2>1. works[current] \in WorkType /\ current # 0
    BY <1>8 DEF GpuLoad
  <2>2. /\ Prepared(works[current]) \in
             [epoch : Nat, header : Headers, target : Targets]
    BY <2>1 DEF Prepared, WorkType
  <2>2a. job0 \in [epoch : Nat, header : Headers, target : Targets]
    BY <2>2, <1>2 DEF GpuType, CachedFor
  <2>2b. job0 # None
    BY <2>2a, MinerAssumption
  <2>3. gpu' = [gpu EXCEPT ![g] = d]
    BY <1>8 DEF GpuLoad
  <2> HIDE DEF job0
  <2>4. d \in GpuType /\ d.work # 0 /\ d.cached = job0 
    BY ONLY <2>1, <2>2a, <1>2, <1>3, <1>3a, GpuRecords DEF GpuType
  <2> HIDE DEF d
  <2> QED
    BY <2>2b, <2>3, <2>4, <1>4, <1>8, GpuUpdate DEF GpuLoad
<1>9. CASE GpuOutdated(g) \/ GpuSent(g)
  <2> DEFINE d == [gpu[g] EXCEPT !.pc = "top", !.work = 0, !.start = 0,
                                 !.wins = {}]
  <2>1. d \in GpuType /\ d.pc = "top" 
    BY ONLY <1>2, <1>3, <1>3a, GpuRecords DEF GpuType
  <2>2. gpu' = [gpu EXCEPT ![g] = d]
    BY <1>9 DEF GpuOutdated, GpuSent, GpuDone
  <2> HIDE DEF d
  <2> QED
    BY <2>1, <2>2, <1>4, <1>9, GpuUpdate DEF GpuOutdated, GpuSent
<1>10. CASE GpuReserve(g)
  <2> DEFINE k == gpu[g].work
             d == [gpu[g] EXCEPT !.pc = "mine", !.start = works[k].next]
             r == [works[k] EXCEPT !.next = @ + BatchSize]
  <2>1. k \in 1 .. Len(works) /\ works[k] \in WorkType /\ gpu[g].cached # None
    BY <1>2, <1>3, <1>10 DEF GpuReserve
  <2>2. r \in WorkType
    BY <2>1, Sizes, ReservedWork
  <2>3. works' = [works EXCEPT ![k] = r]
    BY <2>1, <1>10 DEF GpuReserve
  <2>3a. works[k].next \in Nat
    BY <2>1 DEF WorkType
  <2>4. d \in GpuType /\ d.work = k /\ d.cached = gpu[g].cached
    BY ONLY <2>3a, <1>2, <1>3, <1>3a, GpuRecords DEF GpuType
  <2>4a. gpu' = [gpu EXCEPT ![g] = d]
    BY <1>10 DEF GpuReserve
  <2> HIDE DEF d, r, k
  <2>5. WorksTypeOK' /\ CpuTypeOK' /\ SharesTypeOK' /\ Len(works') = Len(works)
    BY <2>1, <2>2, <2>3, <1>0, <1>10, WorksUpdate DEF GpuReserve
  <2>5a. d.work # 0 /\ d.cached # None
    BY <2>1, <2>4 DEF k
  <2>6. GpuTypeOK'
    BY ONLY TypeOK, <2>4, <2>4a, <2>5, <2>5a, GpuUpdate
  <2> QED
    BY <2>5, <2>6, <1>0, <1>1, <1>10 DEF GpuReserve
<1>11. CASE GpuMine(g)
  <2> DEFINE k == gpu[g].work
             batch == Batch(gpu[g].start)
             loaded == Upload(gpu[g].loaded, gpu[g].cached)
             wins == Candidates(loaded.header, gpu[g].cached.target, batch)
             d == [gpu[g] EXCEPT !.pc = "check", !.loaded = loaded,
                                 !.wins = wins]
             r == [works[k] EXCEPT !.hashed = @ \cup batch]
  <2>1. k \in 1 .. Len(works) /\ works[k] \in WorkType /\ gpu[g].cached # None
    BY <1>2, <1>3, <1>11 DEF GpuMine
  <2>2. batch \in SUBSET Nonces
    BY <1>3, NonceIsNonce DEF Batch
  <2>2a. loaded \in [epoch : Nat, header : Headers] \cup {None}
    BY <2>1, <1>2 DEF Upload, GpuType
  <2>2b. wins \in SUBSET Nonces
    BY <2>2 DEF Candidates
  <2>3. r \in WorkType
    BY <2>1, <2>2, HashedWork
  <2>4. /\ works' = [works EXCEPT ![k] = r]
        /\ gpu' = [gpu EXCEPT ![g] = d]
    BY <2>1, <1>11 DEF GpuMine
  <2>5. FlagsTypeOK'
    BY <1>11, Sizes DEF GpuMine
  <2> HIDE DEF r, k, loaded, wins, batch
  <2>6. d \in GpuType /\ d.work = gpu[g].work /\ d.pc = "check"
    BY ONLY <2>2a, <2>2b, <1>2, <1>3, <1>3a, GpuRecords DEF GpuType
  <2> HIDE DEF d
  <2>7. WorksTypeOK' /\ CpuTypeOK' /\ SharesTypeOK' /\ Len(works') = Len(works)
    BY <2>1, <2>3, <2>4, <1>0, <1>11, WorksUpdate DEF GpuMine
  <2>7a. d.work # 0 /\ d.pc = "check"
    BY <2>1, <2>6 DEF k
  <2>8. GpuTypeOK'
    BY ONLY TypeOK, <2>4, <2>6, <2>7, <2>7a, GpuUpdate
  <2> QED
    BY <2>5, <2>7, <2>8, <1>1
<1>12. ASSUME NEW n \in Nonces, GpuSend(g, n) PROVE TypeOK'
  <2> DEFINE k == gpu[g].work
             d == [gpu[g] EXCEPT !.wins = @ \ {n}]
  <2>1. k \in 1 .. Len(works)
    BY <1>2, <1>3, <1>12 DEF GpuSend
  <2>2. [work |-> k, nonce |-> n] \in ShareType
    BY <2>1 DEF ShareType
  <2>3. works' = works /\ sent' = sent
    BY <1>0, <1>12 DEF GpuSend
  <2>4. shares' \in Seq(ShareType)
    BY <2>2, <1>12 DEF GpuSend, SharesTypeOK
  <2>5. ShareType' = ShareType /\ SentType' = SentType
    BY <2>3 DEF ShareType, SentType
  <2>6. SharesTypeOK'
    BY <2>3, <2>4, <2>5 DEF SharesTypeOK
  <2>7. /\ d \in GpuType /\ d.work = gpu[g].work /\ d.pc = gpu[g].pc
        /\ d.cached = gpu[g].cached
    BY <1>2, <1>3 DEF GpuType
  <2>8. gpu' = [gpu EXCEPT ![g] = d]
    BY <1>12 DEF GpuSend
  <2> HIDE DEF d, k
  <2>9. GpuTypeOK'
    BY <2>3, <2>7, <2>8, <1>2, GpuUpdate
  <2>10. CpuTypeOK'
    BY <2>3, <1>0, GrowthKeepsIndices
  <2> QED
    BY <2>3, <2>6, <2>9, <2>10, <1>0, <1>1, <1>12 DEF GpuSend
<1> QED
  BY <1>6, <1>7, <1>8, <1>9, <1>10, <1>11, <1>12 DEF GpuStep

(* Every step keeps the types.                                             *)
LEMMA StepKeepsType == TypeOK /\ [Next]_vars => TypeOK'
<1> SUFFICES ASSUME TypeOK, [Next]_vars PROVE TypeOK'
  OBVIOUS
<1>1. CASE Interrupt
  <2>1. UNCHANGED <<works, shares, sent, cpu, gpu>>
    BY <1>1 DEF Interrupt, job, workers
  <2>2. SharesTypeOK' /\ CpuTypeOK' /\ GpuTypeOK'
    BY <2>1, GrowthKeepsIndices DEF TypeOK, WorksTypeOK
  <2> QED
    BY <2>2, <1>1 DEF Interrupt, job, pool, workers, TypeOK, MainTypeOK,
                      WorksTypeOK, FlagsTypeOK
<1>2. CASE UNCHANGED vars
  <2>1. SharesTypeOK' /\ CpuTypeOK' /\ GpuTypeOK'
    BY <1>2, GrowthKeepsIndices DEF TypeOK, WorksTypeOK, vars, job
  <2> QED
    BY <2>1, <1>2 DEF vars, job, pool, TypeOK, MainTypeOK, WorksTypeOK,
                      FlagsTypeOK
<1> QED
  BY <1>1, <1>2, MainKeepsType, CpuKeepsType, GpuKeepsType DEF Next, Terminated

(* Type correctness: every variable keeps its type in every reachable      *)
(* state; a worker that needs a Work, or a prepared job, holds one; every  *)
(* index held by a worker, a share or the ArcSwap names an allocated Work. *)
THEOREM TypeCorrect == Spec => []TypeOK
<1>1. Init => TypeOK
  BY TypeInit
<1>2. TypeOK /\ [Next]_vars => TypeOK'
  BY StepKeepsType
<1> QED
  BY <1>1, <1>2, PTL DEF Spec
----------------------------------------------------------------------------
(* Epochs and submissions.                                                 *)

(* What a Work was received as never changes.                              *)
WorksKept ==
  \A i \in DOMAIN works :
    /\ i \in DOMAIN works'
    /\ works'[i].header = works[i].header
    /\ works'[i].target = works[i].target
    /\ works'[i].epoch = works[i].epoch
    /\ works'[i].connection = works[i].connection

(* The type of the Works, spelled out.                                     *)
LEMMA AboutWorks ==
  ASSUME TypeOK
  PROVE  /\ works \in Seq(WorkType) /\ current \in 0 .. Len(works)
         /\ activeEpoch \in Nat /\ Len(works) \in Nat
         /\ DOMAIN works = 1 .. Len(works)
         /\ \A i \in DOMAIN works :
              /\ works[i] \in WorkType /\ works[i].epoch \in Nat
              /\ works[i].header \in Headers /\ works[i].target \in Targets
<1>1. works \in Seq(WorkType) /\ current \in 0 .. Len(works) /\ activeEpoch \in Nat
  BY DEF TypeOK, WorksTypeOK
<1>2. \A i \in DOMAIN works : works[i] \in WorkType
  BY <1>1
<1>3. DOMAIN works = 1 .. Len(works) /\ Len(works) \in Nat
  BY <1>1
<1>4. \A r \in WorkType :
        r.epoch \in Nat /\ r.header \in Headers /\ r.target \in Targets
  BY DEF WorkType
<1> QED
  BY ONLY <1>1, <1>2, <1>3, <1>4

(* A share in the channel is a nonce of an allocated Work.                 *)
LEMMA AboutShares ==
  ASSUME TypeOK
  PROVE  \A i \in DOMAIN shares :
           shares[i].work \in DOMAIN works /\ shares[i].nonce \in Nonces
<1>1. shares \in Seq(ShareType)
  BY DEF TypeOK, SharesTypeOK
<1>2. \A i \in DOMAIN shares : shares[i] \in ShareType
  BY <1>1
<1> QED
  BY <1>2, AboutWorks DEF ShareType

(* An update of the counter or of the hashed nonces of one Work keeps what *)
(* it was received as.                                                     *)
LEMMA UpdateKeepsWorks ==
  ASSUME TypeOK, NEW k \in DOMAIN works, NEW n, NEW S,
         \/ works' = [works EXCEPT ![k].next = n]
         \/ works' = [works EXCEPT ![k].hashed = S]
  PROVE  WorksKept /\ Len(works') = Len(works) /\ DOMAIN works' = DOMAIN works
<1>1. works \in Seq(WorkType) /\ works[k] \in WorkType
  BY DEF TypeOK, WorksTypeOK
<1>2. ASSUME NEW r \in WorkType
      PROVE  \A f \in {"header", "target", "epoch", "connection"} :
               /\ [r EXCEPT !.next = n][f] = r[f]
               /\ [r EXCEPT !.hashed = S][f] = r[f]
  BY DEF WorkType
<1>3. \A i \in DOMAIN works :
        \/ works'[i] = works[i]
        \/ works'[i] = [works[i] EXCEPT !.next = n]
        \/ works'[i] = [works[i] EXCEPT !.hashed = S]
  BY <1>1
<1>4. \A i \in DOMAIN works : works[i] \in WorkType
  BY <1>1
<1>5. DOMAIN works' = DOMAIN works /\ Len(works') = Len(works)
  BY <1>1
<1>6. \A i \in DOMAIN works :
        \A f \in {"header", "target", "epoch", "connection"} :
          works'[i][f] = works[i][f]
  BY ONLY <1>2, <1>3, <1>4
<1>7. WorksKept
  BY ONLY <1>5, <1>6 DEF WorksKept
<1> QED
  BY <1>5, <1>7

(* Workers change neither the Works as received nor what the main thread   *)
(* publishes.                                                              *)
LEMMA CpuKeepsWorks ==
  ASSUME TypeOK, NEW w \in CpuWorkers, CpuStep(w)
  PROVE  /\ WorksKept /\ DOMAIN works' = DOMAIN works
         /\ UNCHANGED <<main, current, activeEpoch, connection, stop>>
<1>1. UNCHANGED <<main, current, activeEpoch, connection, stop>>
  BY DEF CpuStep, CpuExit, CpuContinue, CpuNoWork, CpuLoad, CpuReserve,
         CpuAbandon, CpuStillCurrent, CpuHash, others, pool
<1>2. CASE CpuReserve(w) \/ CpuHash(w)
  <2>1. cpu[w].work \in DOMAIN works
    BY <1>2 DEF CpuReserve, CpuHash, TypeOK, CpuTypeOK, CpuType, WorksTypeOK
  <2> QED
    BY <1>1, <1>2, <2>1, UpdateKeepsWorks DEF CpuReserve, CpuHash
<1>3. CASE UNCHANGED works
  BY <1>1, <1>3 DEF WorksKept
<1> QED
  BY <1>2, <1>3 DEF CpuStep, CpuExit, CpuContinue, CpuNoWork, CpuLoad,
                    CpuAbandon, CpuStillCurrent

(* See CpuKeepsWorks.                                                      *)
LEMMA GpuKeepsWorks ==
  ASSUME TypeOK, NEW g \in GpuWorkers, GpuStep(g)
  PROVE  /\ WorksKept /\ DOMAIN works' = DOMAIN works
         /\ UNCHANGED <<main, current, activeEpoch, connection>>
         /\ stop => stop'
<1>0. stop => stop'
  BY DEF GpuStep, GpuExit, GpuContinue, GpuNoWork, GpuLoad, GpuReserve,
         GpuMine, GpuOutdated, GpuStillCurrent, GpuSend, GpuSent, GpuFails,
         GpuStops
<1>1. UNCHANGED <<main, current, activeEpoch, connection>>
  BY DEF GpuStep, GpuExit, GpuContinue, GpuNoWork, GpuLoad, GpuReserve,
         GpuMine, GpuOutdated, GpuStillCurrent, GpuSend, GpuSent, GpuFails,
         GpuStops, rest, pool
<1>2. CASE GpuReserve(g) \/ GpuMine(g)
  <2>1. gpu[g].work \in DOMAIN works
    BY <1>2 DEF GpuReserve, GpuMine, TypeOK, GpuTypeOK, GpuType, WorksTypeOK
  <2> QED
    BY <1>1, <1>2, <2>1, <1>0, UpdateKeepsWorks DEF GpuReserve, GpuMine
<1>3. CASE UNCHANGED works
  BY <1>0, <1>1, <1>3 DEF WorksKept
<1> QED
  BY <1>0, <1>1, <1>2, <1>3 DEF GpuStep, GpuExit, GpuContinue, GpuNoWork, GpuLoad,
                    GpuOutdated, GpuStillCurrent, GpuSend, GpuSent, GpuFails,
                    GpuStops

(* No epoch is active in the initial state: there is no Work.              *)
LEMMA EpochInit == Init => EpochInv
  BY DEF Init, EpochInv, EpochsGrow, ActiveIsPublished, ActiveIsOfThisPool

(* A step that leaves the main thread and what it publishes alone keeps    *)
(* the epoch invariant; raising stop only weakens it.                      *)
LEMMA WorkersKeepEpochs ==
  ASSUME EpochInv, WorksKept, DOMAIN works' = DOMAIN works,
         UNCHANGED <<main, current, activeEpoch, connection>>,
         stop => stop', stop \in BOOLEAN, stop' \in BOOLEAN
  PROVE  EpochInv'
<1> USE DEF EpochInv, WorksKept
<1>1. EpochsGrow'
  BY DEF EpochsGrow
<1>2. ActiveIsPublished'
  BY DEF ActiveIsPublished
<1>3. ActiveIsOfThisPool'
  BY DEF ActiveIsOfThisPool
<1> QED
  BY <1>1, <1>2, <1>3

(* The main thread orders its writes so that the epoch invariant holds at  *)
(* every one of them: the epoch is bumped before a Work is published, and  *)
(* the publication is withdrawn before the epoch is bumped.                *)
LEMMA MainKeepsEpochs ==
  ASSUME TypeOK, EpochInv, MainStep PROVE EpochInv'
<1> USE DEF EpochInv
<1>0. /\ works \in Seq(WorkType) /\ current \in 0 .. Len(works)
      /\ activeEpoch \in Nat
      /\ \A i \in DOMAIN works : works[i].epoch \in Nat
  BY AboutWorks
<1>1. CASE \/ Connect \/ ConnectFails \/ LeaveSession \/ EnterLoop
           \/ DiscardShare \/ SubmitShare \/ SubmitFails \/ Drained
           \/ ReadNothing \/ SessionFails \/ JoinWorkers
  <2>1. UNCHANGED <<works, current, activeEpoch, stop>>
    BY <1>1 DEF Connect, ConnectFails, LeaveSession, EnterLoop, DiscardShare,
                SubmitShare, SubmitFails, Drained, ReadNothing, SessionFails,
                JoinWorkers, job
  <2>2. EpochsGrow'
    BY <2>1 DEF EpochsGrow
  <2>3. \/ main = "outer" /\ ~stop /\ main' \in {"loop", "withdraw"}
        \/ main = "loop" /\ stop /\ main' = "outer"
        \/ /\ main \in {"loop", "drain", "read"} /\ connection' = connection
           /\ main' \in {"loop", "drain", "read", "withdraw"}
        \/ main = "join" /\ main' \in {"ok", "failed"}
    BY <1>1 DEF Connect, ConnectFails, LeaveSession, EnterLoop, DiscardShare,
                SubmitShare, SubmitFails, Drained, ReadNothing, SessionFails,
                JoinWorkers, pool
  <2>4. ActiveIsPublished'
    BY <2>1, <2>3 DEF ActiveIsPublished
  <2>5. ActiveIsOfThisPool'
    BY <2>1, <2>3 DEF ActiveIsPublished, ActiveIsOfThisPool
  <2> QED
    BY <2>2, <2>4, <2>5
<1>2. CASE WithdrawWork \/ ShutdownWithdraw
  BY <1>2 DEF WithdrawWork, ShutdownWithdraw, EpochsGrow, ActiveIsPublished,
              ActiveIsOfThisPool
<1>3. ASSUME UNCHANGED works, activeEpoch' = activeEpoch + 1
      PROVE  EpochInv'
  <2>1. \A i \in DOMAIN works' : works'[i].epoch < activeEpoch'
    BY <1>0, <1>3 DEF EpochsGrow
  <2>2. \A i \in DOMAIN works' : works'[i].epoch # activeEpoch'
    BY <2>1, <1>0, <1>3
  <2>3. EpochsGrow'
    BY <2>1, <1>0, <1>3 DEF EpochsGrow
  <2> QED
    BY <2>2, <2>3 DEF ActiveIsPublished, ActiveIsOfThisPool
<1>4. CASE BumpEpoch \/ ShutdownBump
  BY <1>3, <1>4 DEF BumpEpoch, ShutdownBump
<1>5. CASE \/ \E h \in Headers : Notify(h)
           \/ \E t \in Targets : SetTarget(t)
  <2>1. CASE activeEpoch' = activeEpoch
    <3>1. /\ main = "read" /\ main' = "loop"
          /\ UNCHANGED <<works, current, connection>>
      BY <2>1, <1>5, <1>0 DEF Notify, SetTarget, BeginInstall
    <3> QED
      BY <3>1, <2>1 DEF EpochsGrow, ActiveIsPublished, ActiveIsOfThisPool
  <2>2. CASE activeEpoch' = activeEpoch + 1
    BY <2>2, <1>3, <1>5 DEF Notify, SetTarget
  <2> QED
    BY <2>1, <2>2, <1>5 DEF Notify, SetTarget, BeginInstall
<1>6. CASE StoreWork
  <2> DEFINE new == Work(incoming, activeEpoch)
  <2>1. /\ main = "store" /\ main' = "loop" /\ activeEpoch' = activeEpoch
        /\ connection' = connection /\ current' = Len(works) + 1
        /\ works' = Append(works, new)
    BY <1>6 DEF StoreWork
  <2>2. new.epoch = activeEpoch /\ new.connection = connection
    BY DEF Work
  <2> HIDE DEF new
  <2>3. /\ Len(works') = Len(works) + 1
        /\ works'[Len(works) + 1] = new
        /\ \A i \in 1 .. Len(works) : works'[i] = works[i]
    BY <2>1, <1>0
  <2>4. \A i \in 1 .. Len(works) : works[i].epoch < activeEpoch
    BY <2>1, <1>0 DEF EpochsGrow, ActiveIsPublished
  <2>4a. DOMAIN works = 1 .. Len(works) /\ DOMAIN works' = 1 .. Len(works) + 1
    BY <1>0, <2>1
  <2>5. EpochsGrow'
    BY <1>0, <2>1, <2>2, <2>3, <2>4, <2>4a DEF EpochsGrow
  <2>6. \A i \in DOMAIN works' : works'[i].epoch = activeEpoch' =>
          i = current' /\ works'[i].connection = connection'
    BY <1>0, <2>1, <2>2, <2>3, <2>4, <2>4a
  <2> QED
    BY <2>1, <2>5, <2>6 DEF ActiveIsPublished, ActiveIsOfThisPool
<1> QED
  BY <1>1, <1>2, <1>4, <1>5, <1>6 DEF MainStep

(* The epoch invariant is inductive.                                       *)
LEMMA StepKeepsEpochs == TypeOK /\ EpochInv /\ [Next]_vars => EpochInv'
<1> SUFFICES ASSUME TypeOK, TypeOK', EpochInv, [Next]_vars PROVE EpochInv'
  BY StepKeepsType
<1>0. stop \in BOOLEAN /\ stop' \in BOOLEAN
  BY DEF TypeOK, FlagsTypeOK
<1>1. CASE Interrupt \/ UNCHANGED vars
  <2>1. /\ UNCHANGED <<works, main, current, activeEpoch, connection>>
        /\ stop => stop'
    BY <1>1 DEF Interrupt, vars, job, pool
  <2> QED
    BY <1>0, <2>1, WorkersKeepEpochs DEF WorksKept
<1>2. ASSUME NEW w \in CpuWorkers, CpuStep(w) PROVE EpochInv'
  BY <1>0, <1>2, CpuKeepsWorks, WorkersKeepEpochs
<1>3. ASSUME NEW g \in GpuWorkers, GpuStep(g) PROVE EpochInv'
  BY <1>0, <1>3, GpuKeepsWorks, WorkersKeepEpochs
<1> QED
  BY <1>1, <1>2, <1>3, MainKeepsEpochs DEF Next, Terminated

(* Epochs grow with the Works, and the active epoch, when it is some       *)
(* Work's, is the epoch of the published Work, of the present connection.  *)
THEOREM EpochsCorrect == Spec => []EpochInv
<1>1. Init => TypeOK /\ EpochInv
  BY TypeInit, EpochInit
<1>2. TypeOK /\ EpochInv /\ [Next]_vars => TypeOK' /\ EpochInv'
  BY StepKeepsType, StepKeepsEpochs
<1> QED
  BY <1>1, <1>2, PTL DEF Spec

(* What the inductive invariant is for.                                    *)
LEMMA EpochsDistinguish == TypeOK /\ EpochInv => EpochNamesOneWork
<1> SUFFICES ASSUME TypeOK, EpochInv PROVE EpochNamesOneWork
  OBVIOUS
<1>1. /\ DOMAIN works = 1 .. Len(works) /\ Len(works) \in Nat
      /\ \A i \in DOMAIN works : works[i].epoch \in Nat
  BY AboutWorks
<1>2. \A i, j \in DOMAIN works : works[i].epoch = works[j].epoch => i = j
  BY <1>1 DEF EpochInv, EpochsGrow
<1> QED
  BY <1>2 DEF EpochNamesOneWork, EpochInv, ActiveIsPublished

(* No two Works share an epoch, so the epoch a worker, a share or a cached *)
(* GPU job is compared by names one Work.                                  *)
THEOREM EpochsAreUnique == Spec => []EpochNamesOneWork
  BY TypeCorrect, EpochsCorrect, EpochsDistinguish, PTL

(* Shares go to the connection whose job they solve: a share is sent only  *)
(* while its epoch is active, and that epoch is of this connection.        *)
LEMMA StepKeepsSubmissions ==
  TypeOK /\ EpochInv /\ SubmittedToItsPool /\ [Next]_vars
    => SubmittedToItsPool'
<1> SUFFICES ASSUME TypeOK, EpochInv, SubmittedToItsPool, [Next]_vars
             PROVE  SubmittedToItsPool'
  OBVIOUS
<1>0. \A s \in sent : s.work \in DOMAIN works
  BY DEF TypeOK, SharesTypeOK, SentType, WorksTypeOK
<1>1. ASSUME WorksKept, UNCHANGED sent PROVE SubmittedToItsPool'
  BY <1>0, <1>1 DEF WorksKept, SubmittedToItsPool
<1>2. CASE SubmitShare
  <2>1. Head(shares).work \in DOMAIN works
    <3>1. shares \in Seq(ShareType) /\ shares # <<>>
      BY <1>2 DEF SubmitShare, TypeOK, SharesTypeOK
    <3>2. 1 \in DOMAIN shares /\ Head(shares) = shares[1]
      BY <3>1
    <3> QED
      BY <3>2, AboutShares
  <2>2. works[Head(shares).work].connection = connection
    BY <1>2, <2>1 DEF SubmitShare, ShareIsCurrent, EpochInv, ActiveIsOfThisPool
  <2> QED
    BY <1>2, <2>2 DEF SubmitShare, SubmittedToItsPool, job
<1>3. ASSUME MainStep, ~SubmitShare PROVE SubmittedToItsPool'
  <2>1. UNCHANGED sent
    BY <1>3 DEF MainStep, Connect, ConnectFails, WithdrawWork, BumpEpoch,
         ShutdownWithdraw, ShutdownBump, JoinWorkers, LeaveSession, EnterLoop,
         DiscardShare, SubmitFails, Drained, ReadNothing, SessionFails,
         StoreWork, Notify, SetTarget
  <2>2. \/ UNCHANGED works
        \/ works' = Append(works, Work(incoming, activeEpoch))
    BY <1>3 DEF MainStep, Connect, ConnectFails, WithdrawWork, BumpEpoch,
         ShutdownWithdraw, ShutdownBump, JoinWorkers, LeaveSession, EnterLoop,
         DiscardShare, SubmitFails, Drained, ReadNothing, SessionFails,
         StoreWork, Notify, SetTarget, job
  <2>3. WorksKept
    BY <2>2 DEF WorksKept, TypeOK, WorksTypeOK
  <2> QED
    BY <2>1, <2>3, <1>1
<1>4. CASE Interrupt \/ UNCHANGED vars
  BY <1>1, <1>4 DEF Interrupt, vars, job, WorksKept
<1>5. ASSUME NEW w \in CpuWorkers, CpuStep(w) PROVE SubmittedToItsPool'
  <2>1. UNCHANGED sent
    BY <1>5 DEF CpuStep, CpuExit, CpuContinue, CpuNoWork, CpuLoad, CpuReserve,
         CpuAbandon, CpuStillCurrent, CpuHash, others
  <2> QED
    BY <2>1, <1>1, <1>5, CpuKeepsWorks
<1>6. ASSUME NEW g \in GpuWorkers, GpuStep(g) PROVE SubmittedToItsPool'
  <2>1. UNCHANGED sent
    BY <1>6 DEF GpuStep, GpuExit, GpuContinue, GpuNoWork, GpuLoad, GpuReserve,
         GpuMine, GpuOutdated, GpuStillCurrent, GpuSend, GpuSent, GpuFails,
         GpuStops, rest
  <2> QED
    BY <2>1, <1>1, <1>6, GpuKeepsWorks
<1> QED
  BY <1>2, <1>3, <1>4, <1>5, <1>6 DEF Next, Terminated

(* No share found before a disconnect reaches the pool after the reconnect.*)
THEOREM SharesReachTheirPool == Spec => []SubmittedToItsPool
<1>1. Init => TypeOK /\ EpochInv /\ SubmittedToItsPool
  BY TypeInit, EpochInit DEF Init, SubmittedToItsPool
<1>2. TypeOK /\ EpochInv /\ SubmittedToItsPool /\ [Next]_vars
        => TypeOK' /\ EpochInv' /\ SubmittedToItsPool'
  BY StepKeepsType, StepKeepsEpochs, StepKeepsSubmissions
<1> QED
  BY <1>1, <1>2, PTL DEF Spec
----------------------------------------------------------------------------
(* The miner keeps its promise: Miner.tla implements ShareSubmission.tla.  *)
(* On the way, that a GPU batch is always searched for the Work it was     *)
(* reserved from, and that only solutions reach the channel.               *)

(* What a worker holds does not depend on counters or hashed nonces.       *)
LEMMA HoldsKept ==
  ASSUME WorksKept, NEW d, HoldsWorks(works, d),
         d.pc \in {"reserve", "mine"} => d.work \in DOMAIN works
  PROVE  HoldsWorks(works', d)
<1>1. ASSUME NEW i \in DOMAIN works
      PROVE  /\ i \in DOMAIN works'
             /\ Prepared(works'[i]) = Prepared(works[i])
             /\ works'[i].epoch = works[i].epoch
             /\ works'[i].header = works[i].header
  BY DEF WorksKept, Prepared
<1> QED
  BY <1>1 DEF HoldsWorks

(* The place, Work and caches of one GPU worker after each of its steps.   *)
LEMMA GpuKeepsHolding ==
  ASSUME TypeOK, EpochInv, GpuHoldsWorks, NEW g \in GpuWorkers, GpuStep(g)
  PROVE  HoldsWorks(works, gpu'[g])
<1>0. /\ HoldsWorks(works, gpu[g])
      /\ gpu[g] \in GpuType
      /\ DOMAIN works = 1 .. Len(works)
      /\ gpu[g].pc \in {"reserve", "mine"} =>
           gpu[g].work \in DOMAIN works /\ gpu[g].cached # None
  BY AboutWorks DEF GpuHoldsWorks, TypeOK, GpuTypeOK, GpuType
<1>1. gpu \in [GpuWorkers -> GpuType]
  BY DEF TypeOK, GpuTypeOK
<1>2. CASE GpuExit(g) \/ GpuFails(g)
  <2>1. /\ gpu'[g].cached = None /\ gpu'[g].loaded = None
        /\ gpu'[g].pc \in {"done", "failing"}
    BY <1>1, <1>2 DEF GpuExit, GpuFails, IdleGpu
  <2> QED
    BY <2>1 DEF HoldsWorks
<1>3. CASE \/ GpuContinue(g) \/ GpuNoWork(g) \/ GpuStops(g)
           \/ GpuStillCurrent(g) \/ GpuOutdated(g) \/ GpuSent(g)
           \/ \E n \in Nonces : GpuSend(g, n)
  <2>1. /\ gpu'[g].cached = gpu[g].cached /\ gpu'[g].loaded = gpu[g].loaded
        /\ gpu'[g].pc \notin {"reserve", "mine"}
    <3>1. CASE GpuContinue(g) \/ GpuNoWork(g) \/ GpuStops(g) \/ GpuStillCurrent(g)
      BY <1>0, <1>1, <3>1
         DEF GpuContinue, GpuNoWork, GpuStops, GpuStillCurrent, GpuType
    <3>2. CASE GpuOutdated(g) \/ GpuSent(g)
      <4>1. gpu'[g] = [gpu[g] EXCEPT !.pc = "top", !.work = 0, !.start = 0,
                                     !.wins = {}]
        BY <1>1, <3>2 DEF GpuOutdated, GpuSent, GpuDone
      <4> QED
        BY <1>0, <4>1 DEF GpuType
    <3>3. ASSUME NEW n \in Nonces, GpuSend(g, n)
          PROVE  /\ gpu'[g].cached = gpu[g].cached
                 /\ gpu'[g].loaded = gpu[g].loaded
                 /\ gpu'[g].pc \notin {"reserve", "mine"}
      <4>1. gpu'[g] = [gpu[g] EXCEPT !.wins = @ \ {n}] /\ gpu[g].pc = "send"
        BY <1>1, <3>3 DEF GpuSend
      <4> QED
        BY <1>0, <4>1 DEF GpuType
    <3> QED
      BY <1>3, <3>1, <3>2, <3>3
  <2> QED
    BY <1>0, <2>1 DEF HoldsWorks
<1>4. CASE GpuLoad(g)
  <2>1. current \in DOMAIN works
    BY <1>4, AboutWorks DEF GpuLoad
  <2>2. /\ gpu'[g].loaded = gpu[g].loaded /\ gpu'[g].work = current
        /\ gpu'[g].cached = IF CachedFor(gpu[g].cached, works[current])
                              THEN gpu[g].cached ELSE Prepared(works[current])
    BY <1>0, <1>1, <1>4 DEF GpuLoad, GpuType
  <2>3. gpu'[g].cached.epoch = works[current].epoch
    BY <2>2 DEF CachedFor, Prepared
  <2> QED
    BY <1>0, <2>1, <2>2, <2>3 DEF HoldsWorks, CachedFor
<1>5. CASE GpuReserve(g)
  <2>1. /\ gpu'[g].cached = gpu[g].cached /\ gpu'[g].loaded = gpu[g].loaded
        /\ gpu'[g].work = gpu[g].work
    BY <1>0, <1>1, <1>5 DEF GpuReserve, GpuType
  <2> QED
    BY <1>0, <1>5, <2>1 DEF HoldsWorks, GpuReserve
<1>6. CASE GpuMine(g)
  <2>1. /\ gpu'[g].cached = gpu[g].cached /\ gpu'[g].pc = "check"
        /\ gpu'[g].loaded = Upload(gpu[g].loaded, gpu[g].cached)
    BY <1>0, <1>1, <1>6 DEF GpuMine, GpuType
  <2>2. PICK i \in DOMAIN works : gpu[g].cached = Prepared(works[i])
    BY <1>0, <1>6 DEF GpuMine, HoldsWorks
  <2>3. \/ gpu'[g].loaded = gpu[g].loaded
        \/ gpu'[g].loaded = [epoch |-> works[i].epoch,
                             header |-> works[i].header]
    BY <2>1, <2>2 DEF Upload, Prepared
  <2> QED
    BY <1>0, <2>1, <2>3 DEF HoldsWorks
<1> QED
  BY <1>2, <1>3, <1>4, <1>5, <1>6 DEF GpuStep

(* The steps of the others: they keep the Works and this worker's record.  *)
LEMMA OthersKeepHolding ==
  ASSUME TypeOK, GpuHoldsWorks, WorksKept, NEW g \in GpuWorkers,
         gpu'[g] = gpu[g]
  PROVE  HoldsWorks(works', gpu'[g])
<1>1. gpu[g].pc \in {"reserve", "mine"} => gpu[g].work \in DOMAIN works
  BY AboutWorks DEF TypeOK, GpuTypeOK, GpuType
<1> QED
  BY <1>1, HoldsKept DEF GpuHoldsWorks

(* Every step but a GPU worker's keeps the Works and all GPU workers.      *)
LEMMA OtherSteps ==
  ASSUME TypeOK,
         \/ MainStep
         \/ \E w \in CpuWorkers : CpuStep(w)
         \/ Interrupt
         \/ UNCHANGED vars
  PROVE  WorksKept /\ UNCHANGED gpu
<1>1. CASE MainStep
  <2>1. /\ UNCHANGED gpu
        /\ \/ UNCHANGED works
           \/ works' = Append(works, Work(incoming, activeEpoch))
    BY <1>1 DEF MainStep, Connect, ConnectFails, WithdrawWork, BumpEpoch,
         ShutdownWithdraw, ShutdownBump, JoinWorkers, LeaveSession, EnterLoop,
         DiscardShare, SubmitShare, SubmitFails, Drained, ReadNothing,
         SessionFails, StoreWork, Notify, SetTarget, job, workers
  <2> QED
    BY <2>1, AboutWorks DEF WorksKept
<1>2. ASSUME NEW w \in CpuWorkers, CpuStep(w) PROVE WorksKept /\ UNCHANGED gpu
  <2>1. UNCHANGED gpu
    BY <1>2 DEF CpuStep, CpuExit, CpuContinue, CpuNoWork, CpuLoad, CpuReserve,
         CpuAbandon, CpuStillCurrent, CpuHash, others
  <2> QED
    BY <2>1, <1>2, CpuKeepsWorks
<1>3. CASE Interrupt \/ UNCHANGED vars
  BY <1>3 DEF Interrupt, vars, job, workers, WorksKept
<1> QED
  BY <1>1, <1>2, <1>3

(* Only a GPU worker changes its own record.                               *)
LEMMA GpuChangesItsOwn ==
  ASSUME TypeOK, NEW g \in GpuWorkers, GpuStep(g)
  PROVE  \A f \in GpuWorkers \ {g} : gpu'[f] = gpu[f]
<1>1. gpu \in [GpuWorkers -> GpuType]
  BY DEF TypeOK, GpuTypeOK
<1>2. \E d : gpu' = [gpu EXCEPT ![g] = d]
  BY DEF GpuStep, GpuExit, GpuContinue, GpuNoWork, GpuLoad, GpuReserve, GpuMine,
         GpuOutdated, GpuStillCurrent, GpuSend, GpuSent, GpuFails, GpuStops,
         GpuDone
<1> QED
  BY <1>1, <1>2

(* Every step of the miner keeps what a GPU worker and its device hold.   *)
LEMMA StepKeepsHolding ==
  TypeOK /\ EpochInv /\ GpuHoldsWorks /\ [Next]_vars => GpuHoldsWorks'
<1> SUFFICES ASSUME TypeOK, TypeOK', EpochInv, GpuHoldsWorks, [Next]_vars
             PROVE  GpuHoldsWorks'
  BY StepKeepsType
<1>1. ASSUME NEW g \in GpuWorkers, GpuStep(g) PROVE GpuHoldsWorks'
  <2>1. WorksKept /\ DOMAIN works' = DOMAIN works
    BY <1>1, GpuKeepsWorks
  <2>2. HoldsWorks(works, gpu'[g])
    BY <1>1, GpuKeepsHolding
  <2>3. gpu'[g].pc \in {"reserve", "mine"} => gpu'[g].work \in DOMAIN works'
    <3>1. gpu'[g] \in GpuType' /\ works' \in Seq(WorkType')
      BY DEF TypeOK, GpuTypeOK, WorksTypeOK
    <3>2. gpu'[g].work \in 0 .. Len(works')
      BY ONLY <3>1 DEF GpuType
    <3>3. gpu'[g].pc \in {"reserve", "mine"} => gpu'[g].work # 0
      BY DEF TypeOK, GpuTypeOK
    <3> QED
      BY <3>1, <3>2, <3>3
  <2>4. HoldsWorks(works', gpu'[g])
    BY <2>1, <2>2, <2>3, HoldsKept
  <2>5. \A f \in GpuWorkers \ {g} : HoldsWorks(works', gpu'[f])
    BY <2>1, <1>1, GpuChangesItsOwn, OthersKeepHolding
  <2> QED
    BY <2>4, <2>5 DEF GpuHoldsWorks
<1>2. CASE \/ MainStep \/ (\E w \in CpuWorkers : CpuStep(w))
           \/ Interrupt \/ UNCHANGED vars
  BY <1>2, OtherSteps, OthersKeepHolding DEF GpuHoldsWorks
<1> QED
  BY <1>1, <1>2 DEF Next, Terminated

(* Whatever a GPU worker has cached, prepared or uploaded stands for a     *)
(* Work of this miner, and while it mines for the Work it reserved from.   *)
THEOREM GpuHoldingCorrect == Spec => []GpuHoldsWorks
<1>1. Init => TypeOK /\ EpochInv /\ GpuHoldsWorks
  BY TypeInit, EpochInit DEF Init, GpuHoldsWorks, HoldsWorks, IdleGpu
<1>2. TypeOK /\ EpochInv /\ GpuHoldsWorks /\ [Next]_vars
        => TypeOK' /\ EpochInv' /\ GpuHoldsWorks'
  BY StepKeepsType, StepKeepsEpochs, StepKeepsHolding
<1> QED
  BY <1>1, <1>2, PTL DEF Spec
----------------------------------------------------------------------------
(* A kernel reports every solution of the batch it was given: it compares  *)
(* less of the digest than the target demands, never more.                 *)
LEMMA KernelFindsSolutions ==
  ASSUME NEW work \in WorkType, NEW batch \in SUBSET Nonces
  PROVE  {n \in batch : Solves(work, n)}
           \subseteq Candidates(work.header, work.target, batch)
<1>1. work.header \in Headers /\ work.target \in Targets
  BY DEF WorkType
<1> QED
  BY <1>1, MinerAssumption DEF Candidates, Solves, Nonces

(* A batch keeps its solutions as long as the worker checks its epoch.     *)
LEMMA SearchKept ==
  ASSUME TypeOK, GpuSearchesItsWork, WorksKept, NEW g \in GpuWorkers,
         gpu'[g] = gpu[g], gpu'[g].pc = "check"
  PROVE  {n \in Batch(gpu'[g].start) : Solves(works'[gpu'[g].work], n)}
           \subseteq gpu'[g].wins
<1>1. gpu[g].work \in DOMAIN works
  BY AboutWorks DEF TypeOK, GpuTypeOK, GpuType
<1> QED
  BY <1>1 DEF WorksKept, GpuSearchesItsWork, Solves

(* What mine leaves in the worker's record.                                *)
LEMMA MineSearchesItsWork ==
  ASSUME TypeOK, EpochInv, GpuHoldsWorks, NEW g \in GpuWorkers, GpuMine(g)
  PROVE  {n \in Batch(gpu'[g].start) : Solves(works'[gpu'[g].work], n)}
           \subseteq gpu'[g].wins
<1> DEFINE k == gpu[g].work
           batch == Batch(gpu[g].start)
           loaded == Upload(gpu[g].loaded, gpu[g].cached)
<1>1. /\ gpu \in [GpuWorkers -> GpuType] /\ gpu[g] \in GpuType
      /\ gpu[g].pc = "mine" /\ gpu[g].cached # None
      /\ HoldsWorks(works, gpu[g])
  BY DEF GpuMine, GpuHoldsWorks, TypeOK, GpuTypeOK
<1>1a. gpu[g].start \in Nat /\ gpu[g].work \in 0 .. Len(works)
  BY ONLY <1>1 DEF GpuType
<1>2. k \in DOMAIN works /\ works[k] \in WorkType
  BY <1>1, <1>1a, AboutWorks DEF TypeOK, GpuTypeOK
<1>3. gpu'[g] = [gpu[g] EXCEPT !.pc = "check", !.loaded = loaded,
                   !.wins = Candidates(loaded.header, gpu[g].cached.target,
                                       batch)]
  BY <1>1 DEF GpuMine
<1>4. \A i, j \in DOMAIN works : works[i].epoch = works[j].epoch => i = j
  BY EpochsDistinguish DEF EpochNamesOneWork
<1>5. gpu[g].cached = Prepared(works[k])
  <2>1. PICK i \in DOMAIN works : gpu[g].cached = Prepared(works[i])
    BY <1>1 DEF HoldsWorks
  <2>2. gpu[g].cached.epoch = works[k].epoch
    BY <1>1 DEF HoldsWorks
  <2> QED
    BY <2>1, <2>2, <1>2, <1>4 DEF Prepared
<1>6. loaded.header = works[k].header
  <2>1. CASE gpu[g].loaded # None /\ gpu[g].loaded.epoch = gpu[g].cached.epoch
    <3>1. PICK i \in DOMAIN works :
            gpu[g].loaded = [epoch |-> works[i].epoch,
                             header |-> works[i].header]
      BY <2>1, <1>1 DEF HoldsWorks
    <3> QED
      BY <2>1, <3>1, <1>2, <1>4, <1>5 DEF Upload, Prepared
  <2>2. CASE ~(gpu[g].loaded # None
                 /\ gpu[g].loaded.epoch = gpu[g].cached.epoch)
    BY <2>2, <1>5 DEF Upload, Prepared
  <2> QED
    BY <2>1, <2>2
<1>7. batch \in SUBSET Nonces
  BY <1>1a, NonceIsNonce DEF Batch
<1>8. {n \in batch : Solves(works[k], n)}
        \subseteq Candidates(works[k].header, works[k].target, batch)
  BY <1>2, <1>7, KernelFindsSolutions
<1> HIDE DEF loaded
<1>9. /\ gpu'[g].start = gpu[g].start /\ gpu'[g].work = k
      /\ gpu'[g].wins = Candidates(works[k].header, works[k].target, batch)
  <2> DEFINE wins == Candidates(loaded.header, gpu[g].cached.target, batch)
  <2>1. wins = Candidates(works[k].header, works[k].target, batch)
    BY <1>5, <1>6 DEF Prepared
  <2>2. gpu'[g] = [gpu[g] EXCEPT !.pc = "check", !.loaded = loaded,
                                 !.wins = wins]
    BY <1>3
  <2> HIDE DEF wins, batch
  <2>3. gpu'[g].start = gpu[g].start /\ gpu'[g].work = k /\ gpu'[g].wins = wins
    BY <2>2, <1>1 DEF GpuType
  <2> QED
    BY <2>1, <2>3 DEF batch
<1>10. \A n : Solves(works'[k], n) <=> Solves(works[k], n)
  <2>1. WorksKept
    BY GpuKeepsWorks DEF GpuStep
  <2> QED
    BY <2>1, <1>2 DEF WorksKept, Solves
<1> QED
  BY <1>8, <1>9, <1>10

(* Every step keeps each solution of a searched batch among its wins.     *)
LEMMA StepKeepsSearch ==
  TypeOK /\ EpochInv /\ GpuHoldsWorks /\ GpuSearchesItsWork /\ [Next]_vars
    => GpuSearchesItsWork'
<1> SUFFICES ASSUME TypeOK, EpochInv, GpuHoldsWorks, GpuSearchesItsWork,
                    [Next]_vars
             PROVE  GpuSearchesItsWork'
  OBVIOUS
<1>1. ASSUME NEW g \in GpuWorkers, GpuStep(g) PROVE GpuSearchesItsWork'
  <2>1. WorksKept
    BY <1>1, GpuKeepsWorks
  <2>2. \A f \in GpuWorkers \ {g} : gpu'[f].pc = "check" =>
          {n \in Batch(gpu'[f].start) : Solves(works'[gpu'[f].work], n)}
            \subseteq gpu'[f].wins
    BY <2>1, <1>1, GpuChangesItsOwn, SearchKept
  <2>3. CASE GpuMine(g)
    BY <2>2, <2>3, MineSearchesItsWork DEF GpuSearchesItsWork
  <2>4. CASE ~GpuMine(g)
    <3>1. gpu \in [GpuWorkers -> GpuType] /\ gpu[g] \in GpuType
      BY DEF TypeOK, GpuTypeOK
    <3>2. gpu'[g].pc # "check"
      <4>1. CASE GpuExit(g) \/ GpuFails(g)
        BY <3>1, <4>1 DEF GpuExit, GpuFails, IdleGpu
      <4>2. CASE \/ GpuContinue(g) \/ GpuNoWork(g) \/ GpuStops(g)
                 \/ GpuStillCurrent(g)
        BY <3>1, <4>2 DEF GpuContinue, GpuNoWork, GpuStops, GpuStillCurrent,
                          GpuType
      <4>3. CASE GpuLoad(g)
        <5> DEFINE c == IF CachedFor(gpu[g].cached, works[current])
                          THEN gpu[g].cached ELSE Prepared(works[current])
        <5>1. gpu'[g] = [gpu[g] EXCEPT !.pc = "reserve", !.work = current,
                                       !.cached = c]
          BY <3>1, <4>3 DEF GpuLoad
        <5> HIDE DEF c
        <5> QED
          BY <3>1, <5>1 DEF GpuType
      <4>4. CASE GpuReserve(g)
        BY <3>1, <4>4 DEF GpuReserve, GpuType
      <4>5. CASE GpuOutdated(g) \/ GpuSent(g)
        <5>1. gpu'[g] = [gpu[g] EXCEPT !.pc = "top", !.work = 0, !.start = 0,
                                       !.wins = {}]
          BY <3>1, <4>5 DEF GpuOutdated, GpuSent, GpuDone
        <5> QED
          BY <3>1, <5>1 DEF GpuType
      <4>6. CASE \E n \in Nonces : GpuSend(g, n)
        <5>1. PICK n \in Nonces : GpuSend(g, n)
          BY <4>6
        <5>2. gpu'[g] = [gpu[g] EXCEPT !.wins = @ \ {n}] /\ gpu[g].pc = "send"
          BY <3>1, <5>1 DEF GpuSend
        <5> QED
          BY <3>1, <5>2 DEF GpuType
      <4> QED
        BY <1>1, <2>4, <4>1, <4>2, <4>3, <4>4, <4>5, <4>6 DEF GpuStep
    <3> QED
      BY <2>2, <3>2 DEF GpuSearchesItsWork
  <2> QED
    BY <2>3, <2>4
<1>2. CASE \/ MainStep \/ (\E w \in CpuWorkers : CpuStep(w))
           \/ Interrupt \/ UNCHANGED vars
  BY <1>2, OtherSteps, SearchKept DEF GpuSearchesItsWork
<1> QED
  BY <1>1, <1>2 DEF Next, Terminated

(* The candidates of a batch hold every solution of its own Work, whatever *)
(* the worker had cached and the device had loaded before.                 *)
THEOREM GpuSearchCorrect == Spec => []GpuSearchesItsWork
<1>1. Init => TypeOK /\ EpochInv /\ GpuHoldsWorks /\ GpuSearchesItsWork
  BY TypeInit, EpochInit
     DEF Init, GpuHoldsWorks, HoldsWorks, IdleGpu, GpuSearchesItsWork
<1>2. TypeOK /\ EpochInv /\ GpuHoldsWorks /\ GpuSearchesItsWork /\ [Next]_vars
        => TypeOK' /\ EpochInv' /\ GpuHoldsWorks' /\ GpuSearchesItsWork'
  BY StepKeepsType, StepKeepsEpochs, StepKeepsHolding, StepKeepsSearch
<1> QED
  BY <1>1, <1>2, PTL DEF Spec
----------------------------------------------------------------------------
(* A share put into the channel, by either kind of worker, is a solution.  *)
LEMMA WorkersSendSolutions ==
  ASSUME TypeOK,
         \/ \E w \in CpuWorkers : CpuHash(w)
         \/ \E g \in GpuWorkers, n \in Nonces : GpuSend(g, n)
  PROVE  \/ UNCHANGED shares
         \/ \E k \in DOMAIN works, n \in Nonces :
              /\ Solves(works[k], n)
              /\ shares' = Append(shares, [work |-> k, nonce |-> n])
<1>1. ASSUME NEW w \in CpuWorkers, CpuHash(w), ~UNCHANGED shares
      PROVE  \E k \in DOMAIN works, n \in Nonces :
               /\ Solves(works[k], n)
               /\ shares' = Append(shares, [work |-> k, nonce |-> n])
  <2>1. cpu[w] \in CpuType /\ cpu[w].work # 0
    BY <1>1 DEF CpuHash, TypeOK, CpuTypeOK
  <2>1a. /\ cpu[w].work \in 0 .. Len(works)
         /\ cpu[w].start \in Nat /\ cpu[w].offset \in Nat
    BY ONLY <2>1 DEF CpuType
  <2>2. /\ cpu[w].work \in DOMAIN works
        /\ Nonce(cpu[w].start, cpu[w].offset) \in Nonces
    BY <2>1, <2>1a, AboutWorks, NonceIsNonce
  <2> QED
    BY <2>2, <1>1 DEF CpuHash
<1>2. ASSUME NEW g \in GpuWorkers, NEW n \in Nonces, GpuSend(g, n),
             ~UNCHANGED shares
      PROVE  \E k \in DOMAIN works, m \in Nonces :
               /\ Solves(works[k], m)
               /\ shares' = Append(shares, [work |-> k, nonce |-> m])
  <2>1. gpu[g] \in GpuType /\ gpu[g].work # 0
    BY <1>2 DEF GpuSend, TypeOK, GpuTypeOK
  <2>1a. gpu[g].work \in 0 .. Len(works)
    BY ONLY <2>1 DEF GpuType
  <2>2. gpu[g].work \in DOMAIN works
    BY <2>1, <2>1a, AboutWorks
  <2> QED
    BY <2>2, <1>2 DEF GpuSend
<1> QED
  BY <1>1, <1>2

(* What can happen to the channel in any step.                             *)
LEMMA ChannelSteps ==
  ASSUME TypeOK, [Next]_vars
  PROVE  \/ UNCHANGED shares
         \/ shares # <<>> /\ shares' = Tail(shares)
         \/ \E k \in DOMAIN works, n \in Nonces :
              /\ Solves(works[k], n)
              /\ shares' = Append(shares, [work |-> k, nonce |-> n])
<1>1. CASE MainStep
  BY <1>1 DEF MainStep, Connect, ConnectFails, WithdrawWork, BumpEpoch,
       ShutdownWithdraw, ShutdownBump, JoinWorkers, LeaveSession, EnterLoop,
       DiscardShare, SubmitShare, SubmitFails, Drained, ReadNothing,
       SessionFails, StoreWork, Notify, SetTarget
<1>2. ASSUME NEW w \in CpuWorkers, CpuStep(w), ~CpuHash(w)
      PROVE  UNCHANGED shares
  BY <1>2 DEF CpuStep, CpuExit, CpuContinue, CpuNoWork, CpuLoad, CpuReserve,
       CpuAbandon, CpuStillCurrent
<1>3. ASSUME NEW g \in GpuWorkers, GpuStep(g),
             ~\E n \in Nonces : GpuSend(g, n)
      PROVE  UNCHANGED shares
  BY <1>3 DEF GpuStep, GpuExit, GpuContinue, GpuNoWork, GpuLoad, GpuReserve,
       GpuMine, GpuOutdated, GpuStillCurrent, GpuSent, GpuFails, GpuStops
<1>4. CASE Interrupt \/ UNCHANGED vars
  BY <1>4 DEF Interrupt, vars
<1> QED
  BY <1>1, <1>2, <1>3, <1>4, WorkersSendSolutions DEF Next, Terminated

(* What can happen to the submitted shares in any step.                    *)
LEMMA SentSteps ==
  ASSUME TypeOK, [Next]_vars
  PROVE  UNCHANGED sent \/ SubmitShare
<1>1. CASE MainStep
  BY <1>1 DEF MainStep, Connect, ConnectFails, WithdrawWork, BumpEpoch,
       ShutdownWithdraw, ShutdownBump, JoinWorkers, LeaveSession, EnterLoop,
       DiscardShare, SubmitFails, Drained, ReadNothing, SessionFails,
       StoreWork, Notify, SetTarget
<1>2. ASSUME NEW w \in CpuWorkers, CpuStep(w) PROVE UNCHANGED sent
  BY <1>2 DEF CpuStep, CpuExit, CpuContinue, CpuNoWork, CpuLoad, CpuReserve,
       CpuAbandon, CpuStillCurrent, CpuHash, others
<1>3. ASSUME NEW g \in GpuWorkers, GpuStep(g) PROVE UNCHANGED sent
  BY <1>3 DEF GpuStep, GpuExit, GpuContinue, GpuNoWork, GpuLoad, GpuReserve,
       GpuMine, GpuOutdated, GpuStillCurrent, GpuSend, GpuSent, GpuFails,
       GpuStops, rest
<1>4. CASE Interrupt \/ UNCHANGED vars
  BY <1>4 DEF Interrupt, vars
<1> QED
  BY <1>1, <1>2, <1>3, <1>4 DEF Next, Terminated

(* Every step keeps the Works as received.                                 *)
LEMMA StepKeepsWorks ==
  ASSUME TypeOK, [Next]_vars PROVE WorksKept
  BY OtherSteps, GpuKeepsWorks DEF Next, Terminated

(* The oldest share in the channel is one of its shares.                   *)
LEMMA HeadOfChannel ==
  ASSUME TypeOK, SharesSolve, shares # <<>>
  PROVE  /\ Head(shares).work \in DOMAIN works
         /\ Head(shares).nonce \in Nonces
         /\ Solves(works[Head(shares).work], Head(shares).nonce)
<1>1. shares \in Seq(ShareType)
  BY DEF TypeOK, SharesTypeOK
<1>2. 1 \in DOMAIN shares /\ Head(shares) = shares[1]
  BY <1>1
<1> QED
  BY <1>2, AboutShares DEF SharesSolve

(* Every step keeps the channel and the pool free of non-solutions.       *)
LEMMA StepKeepsSolutions ==
  TypeOK /\ SharesSolve /\ [Next]_vars => SharesSolve'
<1> SUFFICES ASSUME TypeOK, SharesSolve, [Next]_vars PROVE SharesSolve'
  OBVIOUS
<1>1. ASSUME NEW k \in DOMAIN works, NEW n, Solves(works[k], n)
      PROVE  Solves(works'[k], n)
  BY <1>1, StepKeepsWorks DEF WorksKept, Solves
<1>2. shares \in Seq(ShareType)
  BY DEF TypeOK, SharesTypeOK
<1>3. \A i \in DOMAIN shares' :
        Solves(works'[shares'[i].work], shares'[i].nonce)
  <2>1. \A i \in DOMAIN shares :
          Solves(works'[shares[i].work], shares[i].nonce)
    BY <1>1, AboutShares DEF SharesSolve
  <2>2. CASE UNCHANGED shares
    BY <2>1, <2>2
  <2>3. CASE shares # <<>> /\ shares' = Tail(shares)
    <3>1. \A i \in DOMAIN shares' :
            i + 1 \in DOMAIN shares /\ shares'[i] = shares[i + 1]
      BY <1>2, <2>3
    <3> QED
      BY <2>1, <3>1
  <2>4. ASSUME NEW k \in DOMAIN works, NEW n \in Nonces, Solves(works[k], n),
               shares' = Append(shares, [work |-> k, nonce |-> n])
        PROVE  \A i \in DOMAIN shares' :
                 Solves(works'[shares'[i].work], shares'[i].nonce)
    <3>1. \A i \in DOMAIN shares' :
            \/ i \in DOMAIN shares /\ shares'[i] = shares[i]
            \/ shares'[i] = [work |-> k, nonce |-> n]
      BY <1>2, <2>4
    <3> QED
      BY <1>1, <2>1, <2>4, <3>1
  <2> QED
    BY <2>2, <2>3, <2>4, ChannelSteps
<1>4. \A s \in sent' : Solves(works'[s.work], s.nonce)
  <2>1. \A s \in sent : s.work \in DOMAIN works
    BY AboutWorks DEF TypeOK, SharesTypeOK, SentType
  <2>2. \A s \in sent : Solves(works'[s.work], s.nonce)
    BY <2>1, <1>1 DEF SharesSolve
  <2>3. CASE SubmitShare
    <3>1. Solves(works'[Head(shares).work], Head(shares).nonce)
      BY <2>3, <1>1, HeadOfChannel DEF SubmitShare
    <3> QED
      BY <2>2, <2>3, <3>1 DEF SubmitShare
  <2> QED
    BY <2>2, <2>3, SentSteps
<1> QED
  BY <1>3, <1>4 DEF SharesSolve

(* Only solutions reach the channel and the pool.                          *)
THEOREM SharesCorrect == Spec => []SharesSolve
<1>1. Init => TypeOK /\ SharesSolve
  BY TypeInit DEF Init, SharesSolve
<1>2. TypeOK /\ SharesSolve /\ [Next]_vars => TypeOK' /\ SharesSolve'
  BY StepKeepsType, StepKeepsSolutions
<1> QED
  BY <1>1, <1>2, PTL DEF Spec
----------------------------------------------------------------------------
(* What the pool has been sent stays what it was, if nothing is sent now.  *)
LEMMA SubmittedKept ==
  ASSUME TypeOK, WorksKept, UNCHANGED sent
  PROVE  SubmittedShares' = SubmittedShares
<1>1. \A s \in sent : s.work \in DOMAIN works
  BY AboutWorks DEF TypeOK, SharesTypeOK, SentType
<1> QED
  BY <1>1 DEF SubmittedShares, WorksKept

(* A step that publishes nothing leaves the held job alone.                *)
LEMMA HeldKept ==
  ASSUME TypeOK, WorksKept, UNCHANGED <<current, activeEpoch>>
  PROVE  HeldJob' = HeldJob
<1>1. current # 0 => current \in DOMAIN works
  BY AboutWorks
<1> QED
  BY <1>1 DEF HeldJob, WorksKept

(* Sending the oldest share of the channel submits a solution of the job   *)
(* held at that moment.                                                    *)
LEMMA SubmitKeepsPromise ==
  ASSUME TypeOK, EpochInv, SharesSolve, SubmitShare
  PROVE  \E n \in Nonces : Promise!Submit(n)
<1> DEFINE k == Head(shares).work
           n == Head(shares).nonce
<1>1. k \in DOMAIN works /\ n \in Nonces /\ Solves(works[k], n)
  BY HeadOfChannel DEF SubmitShare
<1>2. k = current /\ works[k].epoch = activeEpoch
  BY <1>1 DEF SubmitShare, ShareIsCurrent, EpochInv, ActiveIsPublished
<1>3. current # 0
  BY <1>1, <1>2, AboutWorks
<1>4. HeldJob = [header |-> works[k].header, target |-> works[k].target]
  BY <1>2, <1>3 DEF HeldJob
<1>5. HeldJob # None
  BY <1>1, <1>4, AboutWorks, MinerAssumption
<1>6. UNCHANGED <<works, current, activeEpoch>>
  BY DEF SubmitShare, job
<1>7. HeldJob' = HeldJob
  BY <1>6 DEF HeldJob
<1>8. SubmittedShares' = SubmittedShares \cup
        {[header |-> works[k].header, target |-> works[k].target, nonce |-> n]}
  <2> DEFINE s == [work |-> k, nonce |-> n, connection |-> connection]
             F(x) == [header |-> works[x.work].header,
                      target |-> works[x.work].target, nonce |-> x.nonce]
  <2>1. sent' = sent \cup {s} /\ works' = works
    BY <1>6 DEF SubmitShare
  <2>2. SubmittedShares = {F(x) : x \in sent}
    BY DEF SubmittedShares
  <2>3. SubmittedShares' = {F(x) : x \in sent'}
    BY <2>1 DEF SubmittedShares
  <2>4. F(s) = [header |-> works[k].header, target |-> works[k].target,
                nonce |-> n]
    OBVIOUS
  <2> HIDE DEF F, s
  <2> QED
    BY <2>1, <2>2, <2>3, <2>4
<1>9. Digest(HeldJob.header, n) <= HeldJob.target
  BY <1>1, <1>4 DEF Solves
<1>10. SubmittedShares' = SubmittedShares \cup
        {[header |-> HeldJob.header, target |-> HeldJob.target, nonce |-> n]}
  BY <1>4, <1>8
<1> HIDE DEF n, k
<1> QED
  BY <1>1, <1>5, <1>7, <1>9, <1>10 DEF Promise!Submit

(* Every step of the miner is a step its promise allows, or a stutter.     *)
LEMMA StepKeepsPromise ==
  TypeOK /\ EpochInv /\ SharesSolve /\ [Next]_vars
    => [Promise!Next]_(Promise!vars)
<1> SUFFICES ASSUME TypeOK, EpochInv, SharesSolve, [Next]_vars
             PROVE  Promise!Next \/ UNCHANGED <<HeldJob, SubmittedShares>>
  BY DEF Promise!vars
<1>1. CASE SubmitShare
  BY <1>1, SubmitKeepsPromise DEF Promise!Next
<1>2. CASE StoreWork
  <2>1. incoming \in JobSpecs
    BY <1>2 DEF StoreWork, TypeOK, MainTypeOK
  <2>2. /\ works' = Append(works, Work(incoming, activeEpoch))
        /\ current' = Len(works) + 1 /\ UNCHANGED <<activeEpoch, sent>>
    BY <1>2 DEF StoreWork
  <2>3. works'[current'] = Work(incoming, activeEpoch) /\ current' # 0
    BY <2>2, AboutWorks
  <2>4. HeldJob' = [header |-> incoming.header, target |-> incoming.target]
    BY <2>2, <2>3 DEF HeldJob, Work
  <2>5. HeldJob' \in Promise!Jobs
    BY <2>1, <2>4 DEF JobSpecs, Promise!Jobs
  <2> QED
    BY <2>2, <2>5, StepKeepsWorks, SubmittedKept
       DEF Promise!Next, Promise!Assign
<1>3. ASSUME HeldJob' = None, UNCHANGED sent PROVE Promise!Next
  BY <1>3, StepKeepsWorks, SubmittedKept DEF Promise!Next, Promise!Withdraw
<1>4. CASE WithdrawWork \/ ShutdownWithdraw
  BY <1>3, <1>4 DEF WithdrawWork, ShutdownWithdraw, HeldJob
<1>5. ASSUME activeEpoch' = activeEpoch + 1, UNCHANGED <<works, current, sent>>
      PROVE  Promise!Next
  <2>1. current # 0 => works[current].epoch # activeEpoch + 1
    BY AboutWorks DEF EpochInv, EpochsGrow
  <2> QED
    BY <2>1, <1>3, <1>5 DEF HeldJob
<1>6. ASSUME UNCHANGED <<current, activeEpoch, sent>>
      PROVE  UNCHANGED <<HeldJob, SubmittedShares>>
  BY <1>6, StepKeepsWorks, SubmittedKept, HeldKept
<1>7. CASE MainStep
  <2>1. CASE BumpEpoch \/ ShutdownBump
    BY <2>1, <1>5 DEF BumpEpoch, ShutdownBump
  <2>2. CASE \/ \E h \in Headers : Notify(h)
             \/ \E t \in Targets : SetTarget(t)
    <3>1. /\ UNCHANGED <<works, current, sent>>
          /\ activeEpoch' \in {activeEpoch, activeEpoch + 1}
      BY <2>2 DEF Notify, SetTarget, BeginInstall
    <3> QED
      BY <3>1, <1>5, <1>6
  <2>3. CASE \/ Connect \/ ConnectFails \/ LeaveSession \/ EnterLoop
             \/ DiscardShare \/ SubmitFails \/ Drained \/ ReadNothing
             \/ SessionFails \/ JoinWorkers
    BY <2>3, <1>6
       DEF Connect, ConnectFails, LeaveSession, EnterLoop, DiscardShare,
           SubmitFails, Drained, ReadNothing, SessionFails, JoinWorkers, job
  <2> QED
    BY <1>1, <1>2, <1>4, <1>7, <2>1, <2>2, <2>3 DEF MainStep
<1>8. ASSUME NEW w \in CpuWorkers, CpuStep(w)
      PROVE  UNCHANGED <<HeldJob, SubmittedShares>>
  <2>1. UNCHANGED sent
    BY <1>8 DEF CpuStep, CpuExit, CpuContinue, CpuNoWork, CpuLoad, CpuReserve,
       CpuAbandon, CpuStillCurrent, CpuHash, others
  <2> QED
    BY <2>1, <1>6, <1>8, CpuKeepsWorks
<1>9. ASSUME NEW g \in GpuWorkers, GpuStep(g)
      PROVE  UNCHANGED <<HeldJob, SubmittedShares>>
  <2>1. UNCHANGED sent
    BY <1>9 DEF GpuStep, GpuExit, GpuContinue, GpuNoWork, GpuLoad, GpuReserve,
       GpuMine, GpuOutdated, GpuStillCurrent, GpuSend, GpuSent, GpuFails,
       GpuStops, rest
  <2> QED
    BY <2>1, <1>6, <1>9, GpuKeepsWorks
<1>10. CASE Interrupt \/ UNCHANGED vars
  BY <1>6, <1>10 DEF Interrupt, vars, job
<1> QED
  BY <1>7, <1>8, <1>9, <1>10 DEF Next, Terminated

(* The miner implements ShareSubmission: each share it submits solves the  *)
(* job it holds at that moment, under that job's target.                   *)
THEOREM MinerKeepsPromise == Spec => KeepsPromise
<1>1. Init => Promise!Init
  BY DEF Init, Promise!Init, HeldJob, SubmittedShares
<1>2. Init => TypeOK /\ EpochInv /\ SharesSolve
  BY TypeInit, EpochInit DEF Init, SharesSolve
<1>3. TypeOK /\ EpochInv /\ SharesSolve /\ [Next]_vars
        => TypeOK' /\ EpochInv' /\ SharesSolve'
  BY StepKeepsType, StepKeepsEpochs, StepKeepsSolutions
<1>4. TypeOK /\ EpochInv /\ SharesSolve /\ [Next]_vars
        => [Promise!Next]_(Promise!vars)
  BY StepKeepsPromise
<1> QED
  BY <1>1, <1>2, <1>3, <1>4, PTL DEF Spec, KeepsPromise, Promise!Spec
------------------------------------------------------------------------------
(* The nonces of a Work: the workers hash disjoint ranges, no solution     *)
(* they find is lost while its job is in hand, and run ends when every     *)
(* worker has, telling whether a GPU failed.                               *)

(* What a step of a CPU worker leaves alone.                               *)
LEMMA CpuChangesItsOwn ==
  ASSUME TypeOK, NEW w \in CpuWorkers, CpuStep(w)
  PROVE  /\ \A v \in CpuWorkers \ {w} : cpu'[v] = cpu[v]
         /\ UNCHANGED <<gpu, sent, gpuFailed>>
<1>1. cpu \in [CpuWorkers -> CpuType]
  BY DEF TypeOK, CpuTypeOK
<1>2. \E c : cpu' = [cpu EXCEPT ![w] = c]
  BY DEF CpuStep, CpuExit, CpuContinue, CpuNoWork, CpuLoad, CpuReserve,
         CpuAbandon, CpuStillCurrent, CpuHash, EndReservation
<1>3. UNCHANGED <<gpu, sent, gpuFailed>>
  BY DEF CpuStep, CpuExit, CpuContinue, CpuNoWork, CpuLoad, CpuReserve,
         CpuAbandon, CpuStillCurrent, CpuHash, others
<1> QED
  BY <1>1, <1>2, <1>3

(* What a step of a GPU worker, or of anybody but a worker, leaves alone.  *)
LEMMA CpusLeftAlone ==
  ASSUME TypeOK,
         \/ MainStep
         \/ \E g \in GpuWorkers : GpuStep(g)
         \/ Interrupt
         \/ UNCHANGED vars
  PROVE  UNCHANGED cpu
<1>1. CASE MainStep
  BY <1>1 DEF MainStep, Connect, ConnectFails, WithdrawWork, BumpEpoch,
       ShutdownWithdraw, ShutdownBump, JoinWorkers, LeaveSession, EnterLoop,
       DiscardShare, SubmitShare, SubmitFails, Drained, ReadNothing,
       SessionFails, StoreWork, Notify, SetTarget, workers
<1>2. ASSUME NEW g \in GpuWorkers, GpuStep(g) PROVE UNCHANGED cpu
  BY <1>2 DEF GpuStep, GpuExit, GpuContinue, GpuNoWork, GpuLoad, GpuReserve,
       GpuMine, GpuOutdated, GpuStillCurrent, GpuSend, GpuSent, GpuFails,
       GpuStops, rest
<1>3. CASE Interrupt \/ UNCHANGED vars
  BY <1>3 DEF Interrupt, workers, vars
<1> QED
  BY <1>1, <1>2, <1>3

(* A CPU worker that ended takes no step.                                  *)
LEMMA CpuStepRuns ==
  ASSUME NEW w \in CpuWorkers, CpuStep(w)
  PROVE  cpu[w].pc # "done"
BY DEF CpuStep, CpuExit, CpuContinue, CpuNoWork, CpuLoad, CpuReserve,
       CpuAbandon, CpuStillCurrent, CpuHash

LEMMA GpuStepRuns ==
  ASSUME NEW g \in GpuWorkers, GpuStep(g)
  PROVE  gpu[g].pc # "done"
BY DEF GpuStep, GpuExit, GpuContinue, GpuNoWork, GpuLoad, GpuReserve, GpuMine,
       GpuOutdated, GpuStillCurrent, GpuSend, GpuSent, GpuFails, GpuStops
----------------------------------------------------------------------------
(* How run ends.                                                           *)

(* A CPU worker ends by counting what it hashed, and by nothing else.      *)
LEMMA CpuEnds ==
  ASSUME TypeOK, NEW w \in CpuWorkers, CpuStep(w), cpu'[w].pc = "done"
  PROVE  cpu'[w].pending = 0
<1>1. cpu \in [CpuWorkers -> CpuType] /\ cpu[w] \in CpuType
  BY DEF TypeOK, CpuTypeOK
<1>2. CASE CpuExit(w)
  BY <1>1, <1>2 DEF CpuExit, CpuType
<1>3. CASE CpuContinue(w) \/ CpuNoWork(w) \/ CpuLoad(w) \/ CpuStillCurrent(w)
  BY <1>1, <1>3 DEF CpuContinue, CpuNoWork, CpuLoad, CpuStillCurrent, CpuType
<1>4. CASE CpuReserve(w)
  BY <1>1, <1>4 DEF CpuReserve, CpuType
<1>5. ASSUME NEW p, EndReservation(w, p) PROVE cpu'[w].pc = "top"
  BY <1>1, <1>5 DEF EndReservation, IdleCpu
<1>6. CASE CpuAbandon(w)
  BY <1>5, <1>6 DEF CpuAbandon
<1>7. CASE CpuHash(w)
  <2>1. CASE EndReservation(w, cpu[w].pending + 1)
    BY <1>5, <2>1
  <2>2. CASE ~EndReservation(w, cpu[w].pending + 1)
    <3>1. cpu[w].offset + 1 \in Nat
      BY ONLY <1>1 DEF CpuType
    <3> DEFINE o == cpu[w].offset + 1
               p == IF o % StaleInterval = 0 THEN "check" ELSE "hash"
               c == [cpu[w] EXCEPT !.pc = p, !.offset = o, !.pending = @ + 1]
    <3>2. cpu' = [cpu EXCEPT ![w] = c]
      BY <1>7, <2>2 DEF CpuHash
    <3>3. c.pc = p
      BY <1>1 DEF CpuType
    <3> QED
      BY <1>1, <3>2, <3>3
  <2> QED
    BY <2>1, <2>2
<1> QED
  BY <1>2, <1>3, <1>4, <1>5, <1>6, <1>7 DEF CpuStep

LEMMA StepKeepsFlushed == TypeOK /\ DoneFlushed /\ [Next]_vars => DoneFlushed'
<1> SUFFICES ASSUME TypeOK, DoneFlushed, [Next]_vars PROVE DoneFlushed'
  OBVIOUS
<1>1. ASSUME NEW w \in CpuWorkers, CpuStep(w) PROVE DoneFlushed'
  BY <1>1, CpuEnds, CpuChangesItsOwn DEF DoneFlushed
<1>2. CASE UNCHANGED cpu
  BY <1>2 DEF DoneFlushed
<1> QED
  BY <1>1, <1>2, CpusLeftAlone DEF Next, Terminated

(* Once run has returned nobody takes a step any more; it returns from the *)
(* joins.                                                                  *)
LEMMA StepKeepsExit ==
  TypeOK /\ DoneFlushed /\ ExitTellsFailure /\ [Next]_vars => ExitTellsFailure'
<1> SUFFICES ASSUME TypeOK, DoneFlushed, ExitTellsFailure, [Next]_vars
             PROVE  ExitTellsFailure'
  OBVIOUS
<1>1. gpuFailed \in BOOLEAN
  BY DEF TypeOK, FlagsTypeOK
<1>2. CASE JoinWorkers
  BY <1>1, <1>2 DEF JoinWorkers, ExitTellsFailure, DoneFlushed, workers
<1>3. CASE MainStep /\ ~JoinWorkers
  <2>1. main' \notin {"ok", "failed"}
    BY <1>3 DEF MainStep, Connect, ConnectFails, WithdrawWork, BumpEpoch,
         ShutdownWithdraw, ShutdownBump, LeaveSession, EnterLoop,
         DiscardShare, SubmitShare, SubmitFails, Drained, ReadNothing,
         SessionFails, StoreWork, Notify, SetTarget, BeginInstall
  <2> QED
    BY <2>1 DEF ExitTellsFailure
<1>4. ASSUME NEW w \in CpuWorkers, CpuStep(w) PROVE ExitTellsFailure'
  BY <1>4, CpuStepRuns, CpuKeepsWorks DEF ExitTellsFailure
<1>5. ASSUME NEW g \in GpuWorkers, GpuStep(g) PROVE ExitTellsFailure'
  BY <1>5, GpuStepRuns, GpuKeepsWorks DEF ExitTellsFailure
<1>6. CASE Interrupt \/ UNCHANGED vars
  BY <1>6 DEF Interrupt, ExitTellsFailure, vars, workers
<1> QED
  BY <1>2, <1>3, <1>4, <1>5, <1>6 DEF Next, Terminated

(* run reports a GPU failure exactly when there was one, with every worker *)
(* ended and every hash counted, however failure, Ctrl-C and joins mix.    *)
THEOREM ExitCorrect == Spec => []ExitTellsFailure
<1>1. Init => TypeOK /\ DoneFlushed /\ ExitTellsFailure
  BY TypeInit DEF Init, DoneFlushed, ExitTellsFailure, IdleCpu
<1>2. TypeOK /\ DoneFlushed /\ ExitTellsFailure /\ [Next]_vars
        => TypeOK' /\ DoneFlushed' /\ ExitTellsFailure'
  BY StepKeepsType, StepKeepsFlushed, StepKeepsExit
<1> QED
  BY <1>1, <1>2, PTL DEF Spec
----------------------------------------------------------------------------
(* Reservations.                                                           *)

(* The counter of a Work that is reserved from, and the nonces of one that *)
(* is hashed for, alone change.                                            *)
LEMMA CountersAreNat ==
  ASSUME TypeOK
  PROVE  \A k \in DOMAIN works : works[k].next \in Nat
<1>1. \A k \in DOMAIN works : works[k] \in WorkType
  BY AboutWorks
<1> QED
  BY ONLY <1>1 DEF WorkType

LEMMA UpdatedNext ==
  ASSUME TypeOK, NEW k \in DOMAIN works, NEW n,
         works' = [works EXCEPT ![k].next = @ + n]
  PROVE  /\ DOMAIN works' = DOMAIN works
         /\ \A i \in DOMAIN works :
              /\ works'[i].hashed = works[i].hashed
              /\ works'[i].next =
                   IF i = k THEN works[i].next + n ELSE works[i].next
<1> DEFINE r == [works[k] EXCEPT !.next = @ + n]
<1>1. works[k] \in WorkType
  BY AboutWorks
<1>2. r.hashed = works[k].hashed /\ r.next = works[k].next + n
  BY <1>1 DEF WorkType
<1>3. works' = [works EXCEPT ![k] = r]
  OBVIOUS
<1> HIDE DEF r
<1> QED
  BY <1>2, <1>3

LEMMA UpdatedHashed ==
  ASSUME TypeOK, NEW k \in DOMAIN works, NEW S,
         works' = [works EXCEPT ![k].hashed = @ \cup S]
  PROVE  /\ DOMAIN works' = DOMAIN works
         /\ \A i \in DOMAIN works :
              /\ works'[i].next = works[i].next
              /\ works'[i].hashed =
                   IF i = k THEN works[i].hashed \cup S ELSE works[i].hashed
<1> DEFINE r == [works[k] EXCEPT !.hashed = @ \cup S]
<1>1. works[k] \in WorkType
  BY AboutWorks
<1>2. r.next = works[k].next /\ r.hashed = works[k].hashed \cup S
  BY <1>1 DEF WorkType
<1>3. works' = [works EXCEPT ![k] = r]
  OBVIOUS
<1> HIDE DEF r
<1> QED
  BY <1>2, <1>3

(* A nonce below the nonce space does not wrap.                            *)
LEMMA SmallRemainder ==
  ASSUME NEW a \in Nat, NEW b \in Nat \ {0}, a < b
  PROVE  a % b = a
  OBVIOUS

(* A worker that stays where it is.                                        *)
Still(x) == On(x)' = On(x) /\ Ahead(x)' = Ahead(x)

Ranges == RangesReserved /\ RangesDisjoint

(* A worker hashes part of what it has ahead, or gives the rest up.        *)
LEMMA HashingKeepsRanges ==
  ASSUME TypeOK, Ranges, NEW x \in Workers, NEW S,
         \A y \in Workers \ {x} : Still(y),
         DOMAIN works' = DOMAIN works,
         \A k \in DOMAIN works :
           /\ works'[k].next = works[k].next
           /\ works'[k].hashed =
                IF k = On(x) THEN works[k].hashed \cup S ELSE works[k].hashed,
         Ahead(x)' # {} => On(x)' = On(x),
         On(x) \in DOMAIN works /\ Unwrapped(On(x)) =>
           S \subseteq Ahead(x) /\ Ahead(x)' \subseteq Ahead(x) \ S
  PROVE  Ranges'
<1> USE DEF Ranges
<1>1. ASSUME NEW k \in DOMAIN works, Unwrapped(k)' PROVE Unwrapped(k)
  BY <1>1 DEF Unwrapped
<1>2. Workers' = Workers
  BY DEF Workers
<1>3. RangesReserved'
  <2> SUFFICES ASSUME NEW k \in DOMAIN works, Unwrapped(k)
               PROVE  /\ works'[k].hashed \subseteq 0 .. works'[k].next - 1
                      /\ \A y \in Workers : On(y)' = k =>
                           Ahead(y)' \subseteq 0 .. works'[k].next - 1
    BY <1>1, <1>2 DEF RangesReserved
  <2>1. /\ works[k].hashed \subseteq 0 .. works[k].next - 1
        /\ \A y \in Workers :
             On(y) = k => Ahead(y) \subseteq 0 .. works[k].next - 1
    BY DEF RangesReserved
  <2>2. works'[k].hashed \subseteq 0 .. works'[k].next - 1
    BY <2>1
  <2>3. ASSUME NEW y \in Workers, On(y)' = k
        PROVE  Ahead(y)' \subseteq 0 .. works'[k].next - 1
    BY <2>1, <2>3 DEF Still
  <2> QED
    BY <2>2, <2>3
<1>4. RangesDisjoint'
  <2> SUFFICES ASSUME NEW k \in DOMAIN works, NEW y \in Workers, Unwrapped(k),
                      On(y)' = k
               PROVE  /\ Ahead(y)' \cap works'[k].hashed = {}
                      /\ \A z \in Workers \ {y} :
                           On(z)' = k => Ahead(y)' \cap Ahead(z)' = {}
    BY <1>1, <1>2 DEF RangesDisjoint
  <2>1. \A z \in Workers : On(z)' = k =>
          Ahead(z)' = {} \/ (On(z) = k /\ Ahead(z)' \subseteq Ahead(z))
    BY DEF Still
  <2>2. On(y) = k => Ahead(y) \cap works[k].hashed = {}
    BY DEF RangesDisjoint
  <2>3. \A z \in Workers \ {y} :
          On(y) = k /\ On(z) = k => Ahead(y) \cap Ahead(z) = {}
    BY DEF RangesDisjoint
  <2>4. Ahead(y)' \cap works'[k].hashed = {}
    <3>1. CASE k = On(x) /\ y # x
      BY <2>1, <2>2, <2>3, <3>1
    <3>2. CASE k = On(x) /\ y = x
      BY <2>1, <2>2, <3>2
    <3>3. CASE k # On(x)
      BY <2>1, <2>2, <3>3
    <3> QED
      BY <3>1, <3>2, <3>3
  <2> QED
    BY <2>1, <2>3, <2>4
<1> QED
  BY <1>3, <1>4

(* A worker takes the next nonces of its Work.                             *)
LEMMA ReservingKeepsRanges ==
  ASSUME TypeOK, Ranges, NEW x \in Workers, NEW n \in Nat \ {0},
         \A y \in Workers \ {x} : Still(y), On(x)' = On(x),
         On(x) \in DOMAIN works, DOMAIN works' = DOMAIN works,
         \A k \in DOMAIN works :
           /\ works'[k].hashed = works[k].hashed
           /\ works'[k].next =
                IF k = On(x) THEN works[k].next + n ELSE works[k].next,
         Ahead(x)' = works[On(x)].next .. works[On(x)].next + n - 1
  PROVE  Ranges'
<1> USE DEF Ranges
<1>0. \A k \in DOMAIN works : works[k].next \in Nat
  <2>1. \A k \in DOMAIN works : works[k] \in WorkType
    BY AboutWorks
  <2> QED
    BY ONLY <2>1 DEF WorkType
<1>1. ASSUME NEW k \in DOMAIN works, Unwrapped(k)'
      PROVE  /\ Unwrapped(k)
             /\ works[k].hashed \subseteq 0 .. works[k].next - 1
             /\ \A y \in Workers :
                  On(y) = k => Ahead(y) \subseteq 0 .. works[k].next - 1
  <2>1. Unwrapped(k)
    BY <1>0, <1>1, Sizes DEF Unwrapped
  <2> QED
    BY <2>1 DEF RangesReserved
<1>2. Workers' = Workers
  BY DEF Workers
<1>3. RangesReserved'
  <2> SUFFICES ASSUME NEW k \in DOMAIN works, Unwrapped(k)'
               PROVE  /\ works'[k].hashed \subseteq 0 .. works'[k].next - 1
                      /\ \A y \in Workers : On(y)' = k =>
                           Ahead(y)' \subseteq 0 .. works'[k].next - 1
    BY <1>2 DEF RangesReserved
  <2>1. 0 .. works[k].next - 1 \subseteq 0 .. works'[k].next - 1
    BY <1>0
  <2>2. ASSUME NEW y \in Workers, On(y)' = k
        PROVE  Ahead(y)' \subseteq 0 .. works'[k].next - 1
    <3>1. CASE y = x
      BY <1>0, <2>2, <3>1
    <3>2. CASE y # x
      BY <1>1, <2>1, <2>2, <3>2 DEF Still
    <3> QED
      BY <3>1, <3>2
  <2> QED
    BY <1>1, <2>1, <2>2
<1>4. RangesDisjoint'
  <2> SUFFICES ASSUME NEW k \in DOMAIN works, NEW y \in Workers, Unwrapped(k)',
                      On(y)' = k
               PROVE  /\ Ahead(y)' \cap works'[k].hashed = {}
                      /\ \A z \in Workers \ {y} :
                           On(z)' = k => Ahead(y)' \cap Ahead(z)' = {}
    BY <1>2 DEF RangesDisjoint
  <2>1. ASSUME NEW z \in Workers \ {x}, On(z)' = k
        PROVE  /\ On(z) = k /\ Ahead(z)' = Ahead(z)
               /\ k = On(x) => Ahead(z)' \cap Ahead(x)' = {}
    <3>1. On(z) = k /\ Ahead(z)' = Ahead(z)
      BY <2>1 DEF Still
    <3>2. Ahead(z) \subseteq 0 .. works[k].next - 1
      BY <1>1, <3>1
    <3> QED
      BY <1>0, <3>1, <3>2
  <2>2. CASE y = x
    <3>1. Ahead(y)' \cap works'[k].hashed = {}
      BY <1>0, <1>1, <2>2
    <3> QED
      BY <2>1, <2>2, <3>1
  <2>3. CASE y # x
    <3>1. /\ Ahead(y) \cap works[k].hashed = {}
          /\ \A z \in Workers \ {y} :
               On(z) = k => Ahead(y) \cap Ahead(z) = {}
      BY <1>1, <2>1, <2>3 DEF RangesDisjoint
    <3> QED
      BY <2>1, <2>3, <3>1
  <2> QED
    BY <2>2, <2>3
<1> QED
  BY <1>3, <1>4

(* Both kinds of workers, and where they are after a step.                 *)
LEMMA BothKinds ==
  /\ \A w \in CpuWorkers :
       /\ On(w) = cpu[w].work /\ On(w)' = cpu'[w].work
       /\ Ahead(w) = CpuAhead(w) /\ Ahead(w)' = CpuAhead(w)'
  /\ \A g \in GpuWorkers :
       /\ g \notin CpuWorkers
       /\ On(g) = gpu[g].work /\ On(g)' = gpu'[g].work
       /\ Ahead(g) = GpuAhead(g) /\ Ahead(g)' = GpuAhead(g)'
<1>1. \A g \in GpuWorkers : g \notin CpuWorkers
  BY MinerAssumption
<1> QED
  BY <1>1 DEF On, Ahead

(* What a worker does not touch stays.                                     *)
LEMMA OthersStill ==
  ASSUME NEW x \in Workers,
         \A w \in CpuWorkers \ {x} : cpu'[w] = cpu[w],
         \A g \in GpuWorkers \ {x} : gpu'[g] = gpu[g]
  PROVE  \A y \in Workers \ {x} : Still(y)
<1>1. ASSUME NEW w \in CpuWorkers \ {x} PROVE Still(w)
  <2>1. cpu'[w] = cpu[w]
    OBVIOUS
  <2>2. CpuAhead(w)' = CpuAhead(w)
    BY <2>1 DEF CpuAhead
  <2> QED
    BY <2>1, <2>2, BothKinds DEF Still
<1>2. ASSUME NEW g \in GpuWorkers \ {x} PROVE Still(g)
  BY BothKinds DEF Still, GpuAhead
<1> QED
  BY <1>1, <1>2 DEF Workers

(* A step that neither reserves nor hashes.                                *)
LEMMA RestingKeepsRanges ==
  ASSUME TypeOK, Ranges, NEW x \in Workers, UNCHANGED works,
         \A y \in Workers \ {x} : Still(y),
         Ahead(x)' = {} \/ Still(x)
  PROVE  Ranges'
<1>1. \A k \in DOMAIN works :
        works'[k].hashed =
          IF k = On(x) THEN works[k].hashed \cup {} ELSE works[k].hashed
  OBVIOUS
<1>2. Ahead(x)' # {} => On(x)' = On(x)
  BY DEF Still
<1>3. Ahead(x)' \subseteq Ahead(x) \ {}
  BY DEF Still
<1> QED
  BY <1>1, <1>2, <1>3, HashingKeepsRanges

(* The nonce a CPU worker hashes is the first it has ahead.                *)
LEMMA NonceIsAhead ==
  ASSUME TypeOK, RangesReserved, OffsetsInside, NEW w \in CpuWorkers,
         CpuHash(w), cpu[w].work \in DOMAIN works, Unwrapped(cpu[w].work)
  PROVE  /\ Nonce(cpu[w].start, cpu[w].offset) = cpu[w].start + cpu[w].offset
         /\ Nonce(cpu[w].start, cpu[w].offset) \in Ahead(w)
<1> DEFINE k == cpu[w].work
           m == cpu[w].start + cpu[w].offset
<1>1. cpu[w] \in CpuType /\ w \in Workers
  BY DEF TypeOK, CpuTypeOK, Workers
<1>2. cpu[w].start \in Nat /\ cpu[w].offset \in Nat
  BY ONLY <1>1 DEF CpuType
<1>3. cpu[w].pc = "hash" /\ cpu[w].offset < Reservation
  BY DEF CpuHash, OffsetsInside
<1>4. Ahead(w) = m .. cpu[w].start + Reservation - 1
  BY <1>3, BothKinds DEF CpuAhead
<1>5. m \in Ahead(w) /\ m \in Nat
  BY <1>2, <1>3, <1>4, Sizes
<1>6. Ahead(w) \subseteq 0 .. works[k].next - 1
  BY <1>1, BothKinds DEF RangesReserved
<1>7. works[k].next \in Nat /\ works[k].next <= NonceSpace
  BY CountersAreNat DEF Unwrapped
<1>8. m < NonceSpace
  BY <1>5, <1>6, <1>7, Sizes
<1> HIDE DEF m
<1>9. m % NonceSpace = m
  BY ONLY <1>5, <1>8, Sizes, SmallRemainder
<1> QED BY <1>5, <1>9 DEF Nonce, m

(* The place a CPU worker moves to, and what it has ahead there.           *)
LEMMA CpuKeepsRanges ==
  ASSUME TypeOK, Ranges, OffsetsInside, NEW w \in CpuWorkers, CpuStep(w)
  PROVE  Ranges' /\ OffsetsInside'
<1>1. /\ cpu \in [CpuWorkers -> CpuType] /\ cpu[w] \in CpuType
      /\ w \in Workers
  BY DEF TypeOK, CpuTypeOK, Workers
<1>1a. cpu[w].start \in Nat /\ cpu[w].offset \in Nat
  BY ONLY <1>1 DEF CpuType
<1>2. \A v \in CpuWorkers \ {w} : cpu'[v] = cpu[v]
  BY CpuChangesItsOwn
<1>3. \A y \in Workers \ {w} : Still(y)
  BY <1>1, CpuChangesItsOwn, OthersStill
<1>4. ASSUME cpu'[w].pc \in {"check", "hash"} => cpu'[w].offset < Reservation
      PROVE  OffsetsInside'
  BY <1>2, <1>4 DEF OffsetsInside
<1>5. ASSUME UNCHANGED works, cpu'[w].pc \notin {"check", "hash"}
      PROVE  Ranges' /\ OffsetsInside'
  <2>1. Ahead(w)' = {}
    BY <1>5, BothKinds DEF CpuAhead
  <2> QED
    BY <1>1, <1>3, <1>4, <1>5, <2>1, RestingKeepsRanges
<1>6. ASSUME NEW p, EndReservation(w, p) PROVE cpu'[w].pc = "top"
  BY <1>1, <1>6 DEF EndReservation, IdleCpu
<1>7. CASE CpuExit(w) \/ CpuContinue(w) \/ CpuNoWork(w) \/ CpuLoad(w)
  BY <1>1, <1>5, <1>7 DEF CpuExit, CpuContinue, CpuNoWork, CpuLoad, CpuType
<1>8. CASE CpuAbandon(w)
  BY <1>5, <1>6, <1>8 DEF CpuAbandon
<1>9. CASE CpuStillCurrent(w)
  <2>1. /\ cpu'[w].work = cpu[w].work /\ cpu'[w].start = cpu[w].start
        /\ cpu'[w].offset = cpu[w].offset /\ cpu'[w].pc = "hash"
        /\ cpu[w].pc = "check" /\ UNCHANGED works
    BY <1>1, <1>9 DEF CpuStillCurrent, CpuType
  <2>2. Still(w)
    BY <2>1, BothKinds DEF Still, CpuAhead
  <2>3. OffsetsInside'
    BY <1>4, <2>1 DEF OffsetsInside
  <2> QED
    BY <1>1, <1>3, <2>1, <2>2, <2>3, RestingKeepsRanges
<1>10. CASE CpuReserve(w)
  <2> DEFINE k == cpu[w].work
  <2>1. k \in DOMAIN works
    BY <1>10 DEF CpuReserve, TypeOK, CpuTypeOK, CpuType, WorksTypeOK
  <2>2. /\ cpu'[w].work = k /\ cpu'[w].start = works[k].next
        /\ cpu'[w].offset = 0 /\ cpu'[w].pc = "check"
    BY <1>1, <1>10 DEF CpuReserve, CpuType
  <2>3. /\ DOMAIN works' = DOMAIN works
        /\ \A i \in DOMAIN works :
             /\ works'[i].hashed = works[i].hashed
             /\ works'[i].next = IF i = k THEN works[i].next + Reservation
                                          ELSE works[i].next
    <3>1. works' = [works EXCEPT ![k].next = @ + Reservation]
      BY <1>10 DEF CpuReserve
    <3> QED
      BY <2>1, <3>1, UpdatedNext
  <2>4. Ahead(w)' = works[k].next .. works[k].next + Reservation - 1
    <3>1. works[k].next \in Nat
      BY <2>1, CountersAreNat
    <3> QED
      BY <2>2, <3>1, BothKinds DEF CpuAhead
  <2>5. Ranges'
    BY <1>1, <1>3, <2>1, <2>2, <2>3, <2>4, BothKinds, Sizes,
       ReservingKeepsRanges
  <2> QED
    BY <1>4, <2>2, <2>5, Sizes
<1>11. CASE CpuHash(w)
  <2> DEFINE k == cpu[w].work
             o == cpu[w].offset + 1
             n == Nonce(cpu[w].start, cpu[w].offset)
  <2>1. k \in DOMAIN works
    BY <1>11 DEF CpuHash, TypeOK, CpuTypeOK, CpuType, WorksTypeOK
  <2>2. /\ DOMAIN works' = DOMAIN works
        /\ \A i \in DOMAIN works :
             /\ works'[i].next = works[i].next
             /\ works'[i].hashed =
                  IF i = k THEN works[i].hashed \cup {n} ELSE works[i].hashed
    <3>1. works' = [works EXCEPT ![k].hashed = @ \cup {n}]
      BY <1>11 DEF CpuHash
    <3> QED
      BY <2>1, <3>1, UpdatedHashed
  <2>3. cpu[w].pc = "hash" /\ cpu[w].offset < Reservation
    BY <1>11 DEF CpuHash, OffsetsInside
  <2>4. Ahead(w) = cpu[w].start + cpu[w].offset .. cpu[w].start + Reservation - 1
    BY <2>3, BothKinds DEF CpuAhead
  <2>5. Unwrapped(k) =>
          n = cpu[w].start + cpu[w].offset /\ n \in Ahead(w)
    BY <1>11, <2>1, NonceIsAhead DEF Ranges
  <2>6. CASE EndReservation(w, cpu[w].pending + 1)
    <3>1. cpu'[w].pc = "top"
      BY <1>6, <2>6
    <3>2. Ahead(w)' = {}
      BY <3>1, BothKinds DEF CpuAhead
    <3>3. On(w) = k
      BY BothKinds
    <3> HIDE DEF k, n
    <3>4. Ranges'
      BY <1>1, <1>3, <2>1, <2>2, <2>5, <3>2, <3>3, HashingKeepsRanges
    <3> QED
      BY <1>4, <3>1, <3>4
  <2>7. CASE ~EndReservation(w, cpu[w].pending + 1)
    <3> DEFINE p == IF o % StaleInterval = 0 THEN "check" ELSE "hash"
               c == [cpu[w] EXCEPT !.pc = p, !.offset = o, !.pending = @ + 1]
    <3>1. cpu' = [cpu EXCEPT ![w] = c] /\ o < Reservation
      BY <1>11, <2>7 DEF CpuHash
    <3>2. c.work = k /\ c.start = cpu[w].start /\ c.offset = o /\ c.pc = p
      BY <1>1 DEF CpuType
    <3> HIDE DEF p, c
    <3>3. /\ cpu'[w].work = k /\ cpu'[w].start = cpu[w].start
          /\ cpu'[w].offset = o /\ cpu'[w].pc = p
      BY <1>1, <3>1, <3>2
    <3>4. Ahead(w)' = cpu[w].start + o .. cpu[w].start + Reservation - 1
      BY <3>3, BothKinds DEF CpuAhead, p
    <3>5. Unwrapped(k) => Ahead(w)' \subseteq Ahead(w) \ {n}
      BY <1>1a, <2>4, <2>5, <3>4, Sizes
    <3>6. On(w) = k /\ On(w)' = k
      BY <3>3, BothKinds
    <3> HIDE DEF k, n, o
    <3>7. Ranges'
      BY <1>1, <1>3, <2>1, <2>2, <2>5, <3>5, <3>6, HashingKeepsRanges
    <3> QED
      BY <1>4, <3>1, <3>3, <3>7
  <2> QED
    BY <2>6, <2>7
<1> QED
  BY <1>7, <1>8, <1>9, <1>10, <1>11 DEF CpuStep

(* Where a GPU worker's steps lead, but for those that reserve and mine.   *)
LEMMA GpuElsewhere ==
  ASSUME TypeOK, NEW g \in GpuWorkers, GpuStep(g),
         ~GpuReserve(g), ~GpuMine(g)
  PROVE  UNCHANGED works /\ gpu'[g].pc # "mine"
<1>1. gpu \in [GpuWorkers -> GpuType] /\ gpu[g] \in GpuType
  BY DEF TypeOK, GpuTypeOK
<1>2. CASE GpuExit(g) \/ GpuFails(g)
  BY <1>1, <1>2 DEF GpuExit, GpuFails, IdleGpu
<1>3. CASE GpuContinue(g) \/ GpuNoWork(g) \/ GpuStops(g) \/ GpuStillCurrent(g)
  BY <1>1, <1>3 DEF GpuContinue, GpuNoWork, GpuStops, GpuStillCurrent, GpuType
<1>4. CASE GpuLoad(g)
  <2> DEFINE c == IF CachedFor(gpu[g].cached, works[current])
                    THEN gpu[g].cached ELSE Prepared(works[current])
  <2>1. gpu'[g] = [gpu[g] EXCEPT !.pc = "reserve", !.work = current,
                                 !.cached = c]
    BY <1>1, <1>4 DEF GpuLoad
  <2> HIDE DEF c
  <2> QED
    BY <1>1, <1>4, <2>1 DEF GpuType, GpuLoad
<1>5. CASE GpuOutdated(g) \/ GpuSent(g)
  <2>1. gpu'[g] = [gpu[g] EXCEPT !.pc = "top", !.work = 0, !.start = 0,
                                 !.wins = {}]
    BY <1>1, <1>5 DEF GpuOutdated, GpuSent, GpuDone
  <2> QED
    BY <1>1, <1>5, <2>1 DEF GpuType, GpuOutdated, GpuSent
<1>6. ASSUME NEW n \in Nonces, GpuSend(g, n)
      PROVE  UNCHANGED works /\ gpu'[g].pc # "mine"
  <2>1. gpu'[g] = [gpu[g] EXCEPT !.wins = @ \ {n}] /\ gpu[g].pc = "send"
    BY <1>1, <1>6 DEF GpuSend
  <2> QED
    BY <1>1, <1>6, <2>1 DEF GpuType, GpuSend
<1> QED
  BY <1>2, <1>3, <1>4, <1>5, <1>6 DEF GpuStep

(* The batch of a counter that did not wrap is the range behind it.        *)
LEMMA BatchIsRange ==
  ASSUME NEW start \in Nat, start + BatchSize <= NonceSpace
  PROVE  Batch(start) = start .. start + BatchSize - 1
<1>1. BatchSize \in Nat \ {0} /\ NonceSpace \in Nat \ {0}
  BY Sizes
<1>2. ASSUME NEW i \in 0 .. BatchSize - 1 PROVE Nonce(start, i) = start + i
  <2>1. start + i \in Nat /\ start + i < NonceSpace
    BY <1>1
  <2> HIDE DEF Nonce
  <2>2. (start + i) % NonceSpace = start + i
    BY ONLY <1>1, <2>1, SmallRemainder
  <2> QED
    BY <2>2 DEF Nonce
<1>3. \A m \in start .. start + BatchSize - 1 :
        m - start \in 0 .. BatchSize - 1 /\ m = start + (m - start)
  BY <1>1
<1>4. \A i \in 0 .. BatchSize - 1 : start + i \in start .. start + BatchSize - 1
  BY <1>1
<1> QED
  BY <1>2, <1>3, <1>4 DEF Batch

(* The batch a GPU worker mines is what it has ahead.                      *)
LEMMA BatchIsAhead ==
  ASSUME TypeOK, RangesReserved, NEW g \in GpuWorkers, GpuMine(g),
         gpu[g].work \in DOMAIN works, Unwrapped(gpu[g].work)
  PROVE  /\ Batch(gpu[g].start) = gpu[g].start .. gpu[g].start + BatchSize - 1
         /\ Batch(gpu[g].start) = Ahead(g)
<1> DEFINE k == gpu[g].work
<1>1. gpu[g] \in GpuType /\ g \in Workers
  BY DEF TypeOK, GpuTypeOK, Workers
<1>2. gpu[g].start \in Nat
  BY ONLY <1>1 DEF GpuType
<1>3. On(g) = k /\ Ahead(g) = gpu[g].start .. gpu[g].start + BatchSize - 1
  BY BothKinds DEF GpuMine, GpuAhead
<1>4. Ahead(g) \subseteq 0 .. works[k].next - 1
  BY <1>1, <1>3 DEF RangesReserved
<1>5. gpu[g].start + BatchSize - 1 \in Ahead(g)
  BY <1>2, <1>3, Sizes
<1>6. works[k].next \in Nat /\ works[k].next <= NonceSpace
  BY CountersAreNat DEF Unwrapped
<1>7. gpu[g].start + BatchSize <= NonceSpace
  BY <1>2, <1>4, <1>5, <1>6, Sizes
<1> QED BY <1>2, <1>3, <1>7, BatchIsRange

(* See CpuKeepsRanges.                                                     *)
LEMMA GpuKeepsRanges ==
  ASSUME TypeOK, Ranges, NEW g \in GpuWorkers, GpuStep(g)
  PROVE  Ranges'
<1>1. /\ gpu \in [GpuWorkers -> GpuType] /\ gpu[g] \in GpuType
      /\ g \in Workers
  BY DEF TypeOK, GpuTypeOK, Workers
<1>1a. gpu[g].start \in Nat
  BY ONLY <1>1 DEF GpuType
<1>2. \A y \in Workers \ {g} : Still(y)
  BY <1>1, GpuChangesItsOwn, CpusLeftAlone, OthersStill
<1>3. CASE ~GpuReserve(g) /\ ~GpuMine(g)
  <2>1. UNCHANGED works /\ gpu'[g].pc # "mine"
    BY <1>3, GpuElsewhere
  <2>2. Ahead(g)' = {}
    BY <2>1, BothKinds DEF GpuAhead
  <2> QED
    BY <1>1, <1>2, <2>1, <2>2, RestingKeepsRanges
<1>4. CASE GpuReserve(g)
  <2> DEFINE k == gpu[g].work
  <2>1. k \in DOMAIN works
    BY <1>4 DEF GpuReserve, TypeOK, GpuTypeOK, GpuType, WorksTypeOK
  <2>2. gpu'[g].work = k /\ gpu'[g].start = works[k].next /\ gpu'[g].pc = "mine"
    BY <1>1, <1>4 DEF GpuReserve, GpuType
  <2>3. works' = [works EXCEPT ![k].next = @ + BatchSize]
    BY <1>4 DEF GpuReserve
  <2>4. Ahead(g)' = works[k].next .. works[k].next + BatchSize - 1
    BY <2>2, BothKinds DEF GpuAhead
  <2> QED
    BY <1>1, <1>2, <2>1, <2>2, <2>3, <2>4, UpdatedNext, BothKinds, Sizes,
       ReservingKeepsRanges
<1>5. CASE GpuMine(g)
  <2> DEFINE k == gpu[g].work
             batch == Batch(gpu[g].start)
  <2>1. k \in DOMAIN works
    BY <1>5 DEF GpuMine, TypeOK, GpuTypeOK, GpuType, WorksTypeOK
  <2>2. works' = [works EXCEPT ![k].hashed = @ \cup batch]
    BY <1>5 DEF GpuMine
  <2>3. On(g) = k /\ Ahead(g) = gpu[g].start .. gpu[g].start + BatchSize - 1
    BY <1>5, BothKinds DEF GpuMine, GpuAhead
  <2>4. Ahead(g)' = {}
    <3>1. gpu'[g].pc = "check"
      <4> DEFINE loaded == Upload(gpu[g].loaded, gpu[g].cached)
                 wins == Candidates(loaded.header, gpu[g].cached.target, batch)
      <4>1. gpu'[g] = [gpu[g] EXCEPT !.pc = "check", !.loaded = loaded,
                                     !.wins = wins]
        BY <1>1, <1>5 DEF GpuMine
      <4> HIDE DEF wins, loaded
      <4> QED
        BY <1>1, <4>1 DEF GpuType
    <3> QED
      BY <3>1, BothKinds DEF GpuAhead
  <2>5. Unwrapped(k) => batch \subseteq Ahead(g)
    BY <1>5, <2>1, <2>3, BatchIsAhead DEF Ranges
  <2> HIDE DEF batch, k
  <2> QED
    BY <1>1, <1>2, <2>1, <2>2, <2>3, <2>4, <2>5, UpdatedHashed,
       HashingKeepsRanges
<1> QED
  BY <1>3, <1>4, <1>5

(* The main thread allocates Works nobody is on.                           *)
LEMMA MainKeepsRanges ==
  ASSUME TypeOK, Ranges, MainStep
  PROVE  Ranges'
<1>1. UNCHANGED <<cpu, gpu>>
  BY CpusLeftAlone, OtherSteps
<1>2. Workers' = Workers
  BY DEF Workers
<1>3. \A x \in Workers : Still(x)
  BY <1>1 DEF Still, On, Ahead, CpuAhead, GpuAhead
<1>4. CASE UNCHANGED works
  BY <1>2, <1>3, <1>4 DEF Ranges, RangesReserved, RangesDisjoint, Unwrapped, Still
<1>5. CASE works' = Append(works, Work(incoming, activeEpoch))
  <2>1. \A x \in Workers : On(x) \in 0 .. Len(works)
    <3>1. \A w \in CpuWorkers : cpu[w].work \in 0 .. Len(works)
      BY DEF TypeOK, CpuTypeOK, CpuType
    <3>2. \A g \in GpuWorkers : gpu[g].work \in 0 .. Len(works)
      BY DEF TypeOK, GpuTypeOK, GpuType
    <3> QED
      BY <3>1, <3>2 DEF Workers, On
  <2>2. /\ DOMAIN works' = 1 .. Len(works) + 1
        /\ \A k \in DOMAIN works : works'[k] = works[k]
        /\ works'[Len(works) + 1].hashed = {}
    BY <1>5, AboutWorks DEF Work
  <2>3. ASSUME NEW k \in DOMAIN works', k \notin DOMAIN works
        PROVE  works'[k].hashed = {} /\ \A x \in Workers : On(x)' # k
    BY <1>3, <2>1, <2>2, <2>3, AboutWorks DEF Still
  <2>4. \A k \in DOMAIN works : Unwrapped(k)' => Unwrapped(k)
    BY <2>2 DEF Unwrapped
  <2>5. RangesReserved'
    BY <1>2, <1>3, <2>2, <2>3, <2>4 DEF Ranges, RangesReserved, Still
  <2>6. RangesDisjoint'
    BY <1>2, <1>3, <2>2, <2>3, <2>4 DEF Ranges, RangesDisjoint, Still
  <2> QED
    BY <2>5, <2>6 DEF Ranges
<1> QED
  BY <1>4, <1>5
     DEF MainStep, Connect, ConnectFails, WithdrawWork, BumpEpoch,
         ShutdownWithdraw, ShutdownBump, JoinWorkers, LeaveSession, EnterLoop,
         DiscardShare, SubmitShare, SubmitFails, Drained, ReadNothing,
         SessionFails, StoreWork, Notify, SetTarget, job

LEMMA StepKeepsRanges ==
  TypeOK /\ OffsetsInside /\ Ranges /\ [Next]_vars => OffsetsInside' /\ Ranges'
<1> SUFFICES ASSUME TypeOK, OffsetsInside, Ranges, [Next]_vars
             PROVE  OffsetsInside' /\ Ranges'
  OBVIOUS
<1>1. ASSUME UNCHANGED cpu PROVE OffsetsInside'
  BY <1>1 DEF OffsetsInside
<1>2. CASE MainStep \/ \E g \in GpuWorkers : GpuStep(g)
  BY <1>1, <1>2, CpusLeftAlone, MainKeepsRanges, GpuKeepsRanges
<1>3. CASE \E w \in CpuWorkers : CpuStep(w)
  BY <1>3, CpuKeepsRanges
<1>4. CASE Interrupt \/ UNCHANGED vars
  <2>1. UNCHANGED <<works, cpu, gpu>>
    BY <1>4 DEF Interrupt, vars, job, workers
  <2>2. \A x \in Workers : Still(x)
    BY <2>1 DEF Still, On, Ahead, CpuAhead, GpuAhead
  <2> QED
    BY <1>1, <2>1, <2>2
       DEF Ranges, RangesReserved, RangesDisjoint, Unwrapped, Still, Workers
<1> QED
  BY <1>2, <1>3, <1>4 DEF Next, Terminated

LEMMA RangesInit == Init => OffsetsInside /\ Ranges
  BY DEF Init, OffsetsInside, Ranges, RangesReserved, RangesDisjoint, IdleCpu

(* Any number of CPU and GPU workers reserve disjoint ranges of a Work and *)
(* hash each nonce once, until its counter wraps.                          *)
THEOREM RangesCorrect == Spec => []RangesDisjoint
<1>1. Init => TypeOK /\ OffsetsInside /\ Ranges
  BY TypeInit, RangesInit
<1>2. TypeOK /\ OffsetsInside /\ Ranges /\ [Next]_vars
        => TypeOK' /\ OffsetsInside' /\ Ranges'
  BY StepKeepsType, StepKeepsRanges
<1>3. Ranges => RangesDisjoint
  BY DEF Ranges
<1> QED
  BY <1>1, <1>2, <1>3, PTL DEF Spec

(* Types, epochs, prepared jobs, shares, reservations and counters: what   *)
(* the safety of the miner rests on.                                       *)
THEOREM MinerCorrect == Spec => []MinerInv
<1> DEFINE IInv == TypeOK /\ OffsetsInside /\ Ranges /\ DoneFlushed
<1>1. Init => IInv
  BY TypeInit, RangesInit DEF Init, DoneFlushed, IdleCpu
<1>2. IInv /\ [Next]_vars => IInv'
  BY StepKeepsType, StepKeepsRanges, StepKeepsFlushed
<1>3. IInv => OffsetsInside /\ RangesReserved /\ DoneFlushed
  BY DEF Ranges
<1> HIDE DEF IInv
<1>4. Spec => []IInv
  BY <1>1, <1>2, PTL DEF Spec
<1> QED
  BY <1>3, <1>4, TypeCorrect, EpochsCorrect, GpuHoldingCorrect, SharesCorrect,
     PTL DEF MinerInv
----------------------------------------------------------------------------
(* Counting hashes.                                                        *)

(* Pairing tags the members of a set and keeps their number.               *)
LEMMA TaggedAreAsMany ==
  ASSUME NEW tag, NEW S, IsFiniteSet(S)
  PROVE  /\ IsFiniteSet({tag} \X S)
         /\ Cardinality({tag} \X S) = Cardinality(S)
<1> DEFINE f == [x \in S |-> <<tag, x>>]
<1>1. f \in [S -> {tag} \X S]
  OBVIOUS
<1>2. \A x, y \in S : f[x] = f[y] => x = y
  OBVIOUS
<1>3. \A z \in {tag} \X S : \E x \in S : f[x] = z
  OBVIOUS
<1>4. f \in Bijection(S, {tag} \X S)
  <2> HIDE DEF f
  <2> QED BY <1>1, <1>2, <1>3, Fun_IsBij
<1> QED BY <1>4, FS_Bijection DEF ExistsBijection

(* What one worker holds, and what all hold.                               *)
LEMMA HeldByOne ==
  ASSUME NEW w, NEW n \in Nat
  PROVE  /\ IsFiniteSet({w} \X (1 .. n))
         /\ Cardinality({w} \X (1 .. n)) = n
<1>1. IsFiniteSet(1 .. n) /\ Cardinality(1 .. n) = n
  BY FS_Interval
<1> QED BY <1>1, TaggedAreAsMany

(* When one worker's count changes, the sum changes by as much.            *)
LEMMA PendingChanges ==
  ASSUME NEW w \in CpuWorkers, cpu[w].pending \in Nat, cpu'[w].pending \in Nat,
         \A v \in CpuWorkers \ {w} : cpu'[v] = cpu[v],
         IsFiniteSet(Pending)
  PROVE  /\ IsFiniteSet(Pending)' /\ Cardinality(Pending) \in Nat
         /\ Cardinality(Pending') \in Nat
         /\ Cardinality(Pending') + cpu[w].pending =
              Cardinality(Pending) + cpu'[w].pending
<1> DEFINE kept == UNION {{v} \X (1 .. cpu[v].pending) :
                          v \in CpuWorkers \ {w}}
           old == {w} \X (1 .. cpu[w].pending)
           new == {w} \X (1 .. cpu'[w].pending)
<1>1. Pending = kept \cup old
  BY DEF Pending
<1>2. Pending' = kept \cup new
  <2>1. kept = UNION {{v} \X (1 .. cpu'[v].pending) : v \in CpuWorkers \ {w}}
    OBVIOUS
  <2>2. Pending' = UNION {{v} \X (1 .. cpu'[v].pending) : v \in CpuWorkers}
    BY DEF Pending
  <2> HIDE DEF kept
  <2> QED BY <2>1, <2>2
<1>3. kept \cap old = {} /\ kept \cap new = {}
  OBVIOUS
<1>4. /\ IsFiniteSet(old) /\ Cardinality(old) = cpu[w].pending
      /\ IsFiniteSet(new) /\ Cardinality(new) = cpu'[w].pending
  BY HeldByOne
<1> HIDE DEF kept, old, new
<1>5. IsFiniteSet(kept)
  <2>1. kept \in SUBSET Pending
    BY <1>1
  <2> QED BY <2>1, FS_Subset
<1>6. Cardinality({}) = 0
  BY FS_EmptySet
<1>7. /\ IsFiniteSet(kept \cup old) /\ IsFiniteSet(kept \cup new)
      /\ Cardinality(kept \cup old) =
           Cardinality(kept) + Cardinality(old) - Cardinality(kept \cap old)
      /\ Cardinality(kept \cup new) =
           Cardinality(kept) + Cardinality(new) - Cardinality(kept \cap new)
  BY <1>4, <1>5, FS_Union
<1>8. Cardinality(kept) \in Nat
  BY <1>5, FS_CardinalityType
<1>9. Cardinality(kept \cap old) = 0 /\ Cardinality(kept \cap new) = 0
  BY <1>3, <1>6, Zenon
<1>10. /\ Cardinality(kept \cup old) = Cardinality(kept) + cpu[w].pending
       /\ Cardinality(kept \cup new) = Cardinality(kept) + cpu'[w].pending
  BY <1>4, <1>7, <1>8, <1>9
<1> QED BY <1>1, <1>2, <1>7, <1>8, <1>10

(* Nonces hashed for the first time count.                                 *)
LEMMA HashedGrows ==
  ASSUME NEW k \in DOMAIN works, NEW S, IsFiniteSet(S),
         S \cap works[k].hashed = {}, IsFiniteSet(Hashed),
         DOMAIN works' = DOMAIN works,
         \A i \in DOMAIN works :
           works'[i].hashed =
             IF i = k THEN works[i].hashed \cup S ELSE works[i].hashed
  PROVE  /\ IsFiniteSet(Hashed)' /\ Cardinality(Hashed) \in Nat
         /\ Cardinality(Hashed') = Cardinality(Hashed) + Cardinality(S)
<1> DEFINE more == {k} \X S
<1>1. Hashed' = Hashed \cup more
  <2>1. \A i \in DOMAIN works :
          {i} \X works'[i].hashed =
            IF i = k THEN ({i} \X works[i].hashed) \cup more
                     ELSE {i} \X works[i].hashed
    OBVIOUS
  <2>2. Hashed' = UNION {{i} \X works'[i].hashed : i \in DOMAIN works}
    BY DEF Hashed
  <2> HIDE DEF more
  <2> QED BY <2>1, <2>2 DEF Hashed
<1>2. Hashed \cap more = {}
  BY DEF Hashed
<1>3. IsFiniteSet(more) /\ Cardinality(more) = Cardinality(S)
  BY TaggedAreAsMany
<1> HIDE DEF more
<1>4. /\ IsFiniteSet(Hashed \cup more)
      /\ Cardinality(Hashed \cup more) =
           Cardinality(Hashed) + Cardinality(more)
             - Cardinality(Hashed \cap more)
  BY <1>3, FS_Union
<1>5. Cardinality(Hashed \cap more) = 0
  BY <1>2, FS_EmptySet, Zenon
<1>6. Cardinality(Hashed) \in Nat /\ Cardinality(S) \in Nat
  BY FS_CardinalityType
<1>7. Cardinality(Hashed \cup more) = Cardinality(Hashed) + Cardinality(S)
  BY <1>3, <1>4, <1>5, <1>6
<1> QED BY <1>1, <1>4, <1>6, <1>7

(* Works that keep what was hashed for them, and new ones without any.     *)
LEMMA HashedStays ==
  ASSUME DOMAIN works \subseteq DOMAIN works',
         \A i \in DOMAIN works : works'[i].hashed = works[i].hashed,
         \A i \in DOMAIN works' \ DOMAIN works : works'[i].hashed = {}
  PROVE  Hashed' = Hashed
<1>1. Hashed' = UNION {{i} \X works'[i].hashed : i \in DOMAIN works'}
  BY DEF Hashed
<1> QED BY <1>1 DEF Hashed

(* The end of a reservation moves the pending count, or leaves it.         *)
LEMMA EndingCounts ==
  ASSUME TypeOK, NEW w \in CpuWorkers, NEW p \in Nat, EndReservation(w, p)
  PROVE  /\ cpu'[w].pending \in Nat
         /\ hashes'.cpu + cpu'[w].pending = hashes.cpu + p
         /\ hashes'.gpu = hashes.gpu
<1>1. hashes \in [cpu : Nat, gpu : Nat] /\ cpu \in [CpuWorkers -> CpuType]
  BY DEF TypeOK, FlagsTypeOK, CpuTypeOK
<1>2. CASE p >= Reservation
  BY <1>1, <1>2 DEF EndReservation, IdleCpu, Flushed
<1>3. CASE ~(p >= Reservation)
  BY <1>1, <1>3 DEF EndReservation, IdleCpu
<1> QED BY <1>2, <1>3

(* What a step of a CPU worker adds to its counts: 1 if it hashes.         *)
LEMMA CpuCounts ==
  ASSUME TypeOK, NEW w \in CpuWorkers, CpuStep(w)
  PROVE  /\ cpu'[w].pending \in Nat /\ hashes'.gpu = hashes.gpu
         /\ hashes'.cpu + cpu'[w].pending =
              hashes.cpu + cpu[w].pending + (IF CpuHash(w) THEN 1 ELSE 0)
<1>1. /\ hashes \in [cpu : Nat, gpu : Nat]
      /\ cpu \in [CpuWorkers -> CpuType] /\ cpu[w] \in CpuType
  BY DEF TypeOK, FlagsTypeOK, CpuTypeOK
<1>1a. cpu[w].pending \in Nat /\ hashes.cpu \in Nat /\ cpu[w].offset \in Nat
  BY ONLY <1>1 DEF CpuType
<1>2. CASE CpuExit(w) \/ CpuNoWork(w)
  <2>1. ~CpuHash(w)
    BY <1>2 DEF CpuExit, CpuNoWork, CpuHash
  <2>2. /\ hashes' = [hashes EXCEPT !.cpu = @ + cpu[w].pending]
        /\ cpu'[w].pending = 0
    BY <1>1, <1>2 DEF CpuExit, CpuNoWork, Flushed, CpuType
  <2> QED BY <1>1, <1>1a, <2>1, <2>2
<1>3. CASE CpuContinue(w) \/ CpuLoad(w) \/ CpuReserve(w) \/ CpuStillCurrent(w)
  <2>1. ~CpuHash(w)
    BY <1>3 DEF CpuContinue, CpuLoad, CpuReserve, CpuStillCurrent, CpuHash
  <2>2. hashes' = hashes /\ cpu'[w].pending = cpu[w].pending
    BY <1>1, <1>3 DEF CpuContinue, CpuLoad, CpuReserve, CpuStillCurrent,
                      CpuType
  <2> QED BY <1>1a, <2>1, <2>2
<1>4. CASE CpuAbandon(w)
  <2>1. ~CpuHash(w) /\ EndReservation(w, cpu[w].pending)
    BY <1>4 DEF CpuAbandon, CpuHash
  <2> QED BY <1>1a, <2>1, EndingCounts
<1>5. CASE CpuHash(w)
  <2>1. CASE EndReservation(w, cpu[w].pending + 1)
    <3>1. cpu[w].pending + 1 \in Nat
      BY <1>1a
    <3>2. /\ cpu'[w].pending \in Nat /\ hashes'.gpu = hashes.gpu
          /\ hashes'.cpu + cpu'[w].pending = hashes.cpu + (cpu[w].pending + 1)
      BY <2>1, <3>1, EndingCounts
    <3> QED BY <1>1a, <1>5, <3>2
  <2>2. CASE ~EndReservation(w, cpu[w].pending + 1)
    <3> DEFINE o == cpu[w].offset + 1
               p == IF o % StaleInterval = 0 THEN "check" ELSE "hash"
               c == [cpu[w] EXCEPT !.pc = p, !.offset = o, !.pending = @ + 1]
    <3>1. cpu' = [cpu EXCEPT ![w] = c] /\ hashes' = hashes
      BY <1>5, <2>2 DEF CpuHash
    <3>2. c.pending = cpu[w].pending + 1
      BY <1>1 DEF CpuType
    <3> HIDE DEF c
    <3> QED BY <1>1, <1>1a, <1>5, <3>1, <3>2
  <2> QED BY <2>1, <2>2
<1> QED BY <1>2, <1>3, <1>4, <1>5 DEF CpuStep

(* HashesAccounted with the finiteness that its induction needs.           *)
AllUnwrapped == \A k \in DOMAIN works : Unwrapped(k)
Accounted ==
  AllUnwrapped => IsFiniteSet(Hashed) /\ IsFiniteSet(Pending) /\ HashesAccounted

(* A step that changes no count and hashes nothing.                        *)
LEMMA QuietStepsKeepAccounts ==
  ASSUME Accounted, UNCHANGED <<cpu, hashes>>, Hashed' = Hashed,
         AllUnwrapped' => AllUnwrapped
  PROVE  Accounted'
<1>1. Pending' = Pending
  BY DEF Pending
<1> QED BY <1>1 DEF Accounted, HashesAccounted, AllUnwrapped

(* A step of one CPU worker that hashes S, all of it for the first time.   *)
LEMMA CountingKeepsAccounts ==
  ASSUME TypeOK, Accounted, AllUnwrapped' => AllUnwrapped,
         NEW w \in CpuWorkers, CpuStep(w), NEW n \in {0, 1},
         n = IF CpuHash(w) THEN 1 ELSE 0,
         AllUnwrapped /\ IsFiniteSet(Hashed) =>
           /\ IsFiniteSet(Hashed)' /\ Cardinality(Hashed) \in Nat
           /\ Cardinality(Hashed') = Cardinality(Hashed) + n
  PROVE  Accounted'
<1> SUFFICES ASSUME AllUnwrapped
             PROVE  IsFiniteSet(Hashed)' /\ IsFiniteSet(Pending)'
                      /\ HashesAccounted'
  BY DEF Accounted
<1>1. IsFiniteSet(Hashed) /\ IsFiniteSet(Pending)
      /\ Cardinality(Hashed) = hashes.cpu + hashes.gpu + Cardinality(Pending)
  BY DEF Accounted, HashesAccounted, AllUnwrapped
<1>2. /\ IsFiniteSet(Hashed)' /\ Cardinality(Hashed) \in Nat
      /\ Cardinality(Hashed') = Cardinality(Hashed) + n
  BY <1>1
<1>3. /\ cpu'[w].pending \in Nat /\ hashes'.gpu = hashes.gpu
      /\ hashes'.cpu + cpu'[w].pending = hashes.cpu + cpu[w].pending + n
  BY CpuCounts
<1>4. cpu[w] \in CpuType /\ hashes \in [cpu : Nat, gpu : Nat]
  BY DEF TypeOK, CpuTypeOK, FlagsTypeOK
<1>5. cpu[w].pending \in Nat
  BY ONLY <1>4 DEF CpuType
<1>6. /\ IsFiniteSet(Pending)' /\ Cardinality(Pending) \in Nat
      /\ Cardinality(Pending') \in Nat
      /\ Cardinality(Pending') + cpu[w].pending =
           Cardinality(Pending) + cpu'[w].pending
  BY <1>1, <1>3, <1>5, CpuChangesItsOwn, PendingChanges
<1>7. hashes'.cpu \in Nat
  BY StepKeepsType DEF TypeOK, FlagsTypeOK, Next
<1>8. hashes.cpu \in Nat /\ hashes.gpu \in Nat
  BY <1>4
<1>9. Cardinality(Hashed') =
        hashes'.cpu + hashes'.gpu + Cardinality(Pending')
  BY ONLY <1>1, <1>2, <1>3, <1>5, <1>6, <1>7, <1>8, n \in {0, 1}
<1> QED BY <1>2, <1>6, <1>9 DEF HashesAccounted

(* See StepKeepsAccounts.                                                  *)
LEMMA CpuKeepsAccounts ==
  ASSUME TypeOK, OffsetsInside, Ranges, Accounted,
         NEW w \in CpuWorkers, CpuStep(w)
  PROVE  Accounted'
<1>1. CASE UNCHANGED works
  <2>1. Hashed' = Hashed /\ (AllUnwrapped' => AllUnwrapped)
    BY <1>1 DEF Hashed, AllUnwrapped, Unwrapped
  <2>2. CASE CpuHash(w)
    <3> DEFINE k == cpu[w].work
               n == Nonce(cpu[w].start, cpu[w].offset)
    <3>1. k \in DOMAIN works
      BY <2>2 DEF CpuHash, TypeOK, CpuTypeOK, CpuType, WorksTypeOK
    <3>2. works' = [works EXCEPT ![k].hashed = @ \cup {n}]
      BY <2>2 DEF CpuHash
    <3>3. works'[k].hashed = works[k].hashed \cup {n}
      <4> HIDE DEF k, n
      <4> QED BY <3>1, <3>2, UpdatedHashed
    <3>4. AllUnwrapped => n \in Ahead(w) /\ n \in works[k].hashed
      BY <1>1, <2>2, <3>1, <3>3, NonceIsAhead DEF AllUnwrapped, Ranges
    <3>5. AllUnwrapped => Ahead(w) \cap works[k].hashed = {}
      BY <3>1, BothKinds DEF AllUnwrapped, Ranges, RangesDisjoint, Workers
    <3> QED BY <2>1, <3>4, <3>5 DEF Accounted
  <2>3. CASE ~CpuHash(w)
    <3>1. IsFiniteSet(Hashed) =>
            /\ IsFiniteSet(Hashed)' /\ Cardinality(Hashed) \in Nat
            /\ Cardinality(Hashed') = Cardinality(Hashed) + 0
      BY <2>1, FS_CardinalityType
    <3> QED BY <2>1, <2>3, <3>1, CountingKeepsAccounts
  <2> QED BY <2>2, <2>3
<1>2. CASE CpuReserve(w)
  <2> DEFINE k == cpu[w].work
  <2>1. k \in DOMAIN works /\ ~CpuHash(w)
    BY <1>2 DEF CpuReserve, CpuHash, TypeOK, CpuTypeOK, CpuType, WorksTypeOK
  <2>2. works' = [works EXCEPT ![k].next = @ + Reservation]
    BY <1>2 DEF CpuReserve
  <2>3. /\ DOMAIN works' = DOMAIN works
        /\ \A i \in DOMAIN works :
             /\ works'[i].hashed = works[i].hashed
             /\ works'[i].next = IF i = k THEN works[i].next + Reservation
                                          ELSE works[i].next
    BY <2>1, <2>2, UpdatedNext
  <2>4. Hashed' = Hashed
    BY <2>3, HashedStays
  <2>5. AllUnwrapped' => AllUnwrapped
    BY <2>3, CountersAreNat, Sizes DEF AllUnwrapped, Unwrapped
  <2>6. IsFiniteSet(Hashed) =>
          /\ IsFiniteSet(Hashed)' /\ Cardinality(Hashed) \in Nat
          /\ Cardinality(Hashed') = Cardinality(Hashed) + 0
    BY <2>4, FS_CardinalityType
  <2> QED BY <2>1, <2>5, <2>6, CountingKeepsAccounts
<1>3. CASE CpuHash(w)
  <2> DEFINE k == cpu[w].work
             n == Nonce(cpu[w].start, cpu[w].offset)
  <2>1. k \in DOMAIN works /\ w \in Workers /\ On(w) = k
    BY <1>3, BothKinds
       DEF CpuHash, TypeOK, CpuTypeOK, CpuType, WorksTypeOK, Workers
  <2>2. works' = [works EXCEPT ![k].hashed = @ \cup {n}]
    BY <1>3 DEF CpuHash
  <2>3. /\ DOMAIN works' = DOMAIN works
        /\ \A i \in DOMAIN works :
             /\ works'[i].next = works[i].next
             /\ works'[i].hashed =
                  IF i = k THEN works[i].hashed \cup {n} ELSE works[i].hashed
    BY <2>1, <2>2, UpdatedHashed
  <2>4. AllUnwrapped' => AllUnwrapped
    BY <2>3 DEF AllUnwrapped, Unwrapped
  <2>5. AllUnwrapped => {n} \cap works[k].hashed = {}
    <3>1. AllUnwrapped => n \in Ahead(w)
      BY <1>3, <2>1, NonceIsAhead DEF AllUnwrapped, Ranges
    <3>2. AllUnwrapped => Ahead(w) \cap works[k].hashed = {}
      BY <2>1 DEF AllUnwrapped, Ranges, RangesDisjoint
    <3> QED BY <3>1, <3>2
  <2>6. IsFiniteSet({n}) /\ Cardinality({n}) = 1
    BY FS_Singleton
  <2> HIDE DEF n, k
  <2>7. AllUnwrapped /\ IsFiniteSet(Hashed) =>
          /\ IsFiniteSet(Hashed)' /\ Cardinality(Hashed) \in Nat
          /\ Cardinality(Hashed') = Cardinality(Hashed) + 1
    BY <2>1, <2>3, <2>5, <2>6, HashedGrows
  <2> QED BY <1>3, <2>4, <2>7, CountingKeepsAccounts
<1> QED
  BY <1>1, <1>2, <1>3
     DEF CpuStep, CpuExit, CpuContinue, CpuNoWork, CpuLoad, CpuAbandon,
         CpuStillCurrent

(* See StepKeepsAccounts.                                                  *)
LEMMA GpuKeepsAccounts ==
  ASSUME TypeOK, Ranges, Accounted, NEW g \in GpuWorkers, GpuStep(g)
  PROVE  Accounted'
<1>1. UNCHANGED cpu
  BY CpusLeftAlone
<1>2. CASE ~GpuReserve(g) /\ ~GpuMine(g)
  <2>1. UNCHANGED works
    BY <1>2, GpuElsewhere
  <2>2. UNCHANGED hashes
    BY <1>2 DEF GpuStep, GpuExit, GpuContinue, GpuNoWork, GpuLoad, GpuOutdated,
         GpuStillCurrent, GpuSend, GpuSent, GpuFails, GpuStops
  <2>3. Hashed' = Hashed /\ (AllUnwrapped' => AllUnwrapped)
    BY <2>1 DEF Hashed, AllUnwrapped, Unwrapped
  <2> QED BY <1>1, <2>2, <2>3, QuietStepsKeepAccounts
<1>3. CASE GpuReserve(g)
  <2> DEFINE k == gpu[g].work
  <2>1. k \in DOMAIN works /\ UNCHANGED hashes
    BY <1>3 DEF GpuReserve, TypeOK, GpuTypeOK, GpuType, WorksTypeOK
  <2>2. works' = [works EXCEPT ![k].next = @ + BatchSize]
    BY <1>3 DEF GpuReserve
  <2>3. /\ DOMAIN works' = DOMAIN works
        /\ \A i \in DOMAIN works :
             /\ works'[i].hashed = works[i].hashed
             /\ works'[i].next = IF i = k THEN works[i].next + BatchSize
                                          ELSE works[i].next
    BY <2>1, <2>2, UpdatedNext
  <2>4. Hashed' = Hashed
    BY <2>3, HashedStays
  <2>5. AllUnwrapped' => AllUnwrapped
    BY <2>3, CountersAreNat, Sizes DEF AllUnwrapped, Unwrapped
  <2> QED BY <1>1, <2>1, <2>4, <2>5, QuietStepsKeepAccounts
<1>4. CASE GpuMine(g)
  <2> DEFINE k == gpu[g].work
             batch == Batch(gpu[g].start)
  <2>1. k \in DOMAIN works /\ g \in Workers /\ On(g) = k
    BY <1>4, BothKinds
       DEF GpuMine, TypeOK, GpuTypeOK, GpuType, WorksTypeOK, Workers
  <2>2. works' = [works EXCEPT ![k].hashed = @ \cup batch]
    BY <1>4 DEF GpuMine
  <2>3. /\ DOMAIN works' = DOMAIN works
        /\ \A i \in DOMAIN works :
             /\ works'[i].next = works[i].next
             /\ works'[i].hashed =
                  IF i = k THEN works[i].hashed \cup batch ELSE works[i].hashed
    BY <2>1, <2>2, UpdatedHashed
  <2>4. AllUnwrapped' => AllUnwrapped
    BY <2>3 DEF AllUnwrapped, Unwrapped
  <2> SUFFICES ASSUME AllUnwrapped
               PROVE  IsFiniteSet(Hashed)' /\ IsFiniteSet(Pending)'
                        /\ HashesAccounted'
    BY <2>4 DEF Accounted
  <2>5. /\ batch = gpu[g].start .. gpu[g].start + BatchSize - 1
        /\ batch = Ahead(g)
    BY <1>4, <2>1, BatchIsAhead DEF AllUnwrapped, Ranges
  <2>6. batch \cap works[k].hashed = {}
    BY <2>1, <2>5 DEF AllUnwrapped, Ranges, RangesDisjoint
  <2>7. gpu[g].start \in Nat
    <3>1. gpu[g] \in GpuType
      BY DEF TypeOK, GpuTypeOK
    <3> QED BY ONLY <3>1 DEF GpuType
  <2>8. IsFiniteSet(batch) /\ Cardinality(batch) = BatchSize
    <3> DEFINE a == gpu[g].start
               b == gpu[g].start + BatchSize - 1
    <3>1. a \in Int /\ b \in Int /\ ~(a > b) /\ b - a + 1 = BatchSize
      BY <2>7, Sizes
    <3>2. batch = a .. b
      BY <2>5
    <3> HIDE DEF a, b, batch
    <3> QED BY <3>1, <3>2, FS_Interval
  <2>9. IsFiniteSet(Hashed) /\ IsFiniteSet(Pending)
        /\ Cardinality(Hashed) = hashes.cpu + hashes.gpu + Cardinality(Pending)
    BY DEF Accounted, HashesAccounted, AllUnwrapped
  <2>10. hashes' = [hashes EXCEPT !.gpu = @ + BatchSize]
    BY <1>4 DEF GpuMine
  <2> HIDE DEF batch, k
  <2>11. /\ IsFiniteSet(Hashed)' /\ Cardinality(Hashed) \in Nat
         /\ Cardinality(Hashed') = Cardinality(Hashed) + BatchSize
    BY <2>1, <2>3, <2>6, <2>8, <2>9, HashedGrows
  <2>12. Pending' = Pending /\ Cardinality(Pending) \in Nat
    BY <1>1, <2>9, FS_CardinalityType DEF Pending
  <2>13. hashes \in [cpu : Nat, gpu : Nat]
    BY DEF TypeOK, FlagsTypeOK
  <2>14. Cardinality(Hashed') =
           hashes'.cpu + hashes'.gpu + Cardinality(Pending')
    BY <2>9, <2>10, <2>11, <2>12, <2>13, Sizes
  <2> QED BY <2>9, <2>11, <2>12, <2>14 DEF HashesAccounted
<1> QED BY <1>2, <1>3, <1>4

(* Every step keeps the accounts, until a nonce counter wraps.             *)
LEMMA StepKeepsAccounts ==
  ASSUME TypeOK, OffsetsInside, Ranges, Accounted, [Next]_vars
  PROVE  Accounted'
<1>1. ASSUME UNCHANGED <<works, cpu, hashes>> PROVE Accounted'
  <2>1. Hashed' = Hashed /\ (AllUnwrapped' => AllUnwrapped)
    BY <1>1 DEF Hashed, AllUnwrapped, Unwrapped
  <2> QED BY <1>1, <2>1, QuietStepsKeepAccounts
<1>2. CASE MainStep
  <2>1. /\ UNCHANGED <<cpu, hashes>>
        /\ \/ UNCHANGED works
           \/ works' = Append(works, Work(incoming, activeEpoch))
    BY <1>2 DEF MainStep, Connect, ConnectFails, WithdrawWork, BumpEpoch,
         ShutdownWithdraw, ShutdownBump, JoinWorkers, LeaveSession, EnterLoop,
         DiscardShare, SubmitShare, SubmitFails, Drained, ReadNothing,
         SessionFails, StoreWork, Notify, SetTarget, job, workers
  <2>2. CASE works' = Append(works, Work(incoming, activeEpoch))
    <3>1. /\ DOMAIN works' = 1 .. Len(works) + 1
          /\ \A k \in DOMAIN works : works'[k] = works[k]
          /\ works'[Len(works) + 1].hashed = {}
          /\ DOMAIN works = 1 .. Len(works) /\ Len(works) \in Nat
      BY <2>2, AboutWorks DEF Work
    <3>2. Hashed' = Hashed
      BY <3>1, HashedStays
    <3>3. AllUnwrapped' => AllUnwrapped
      BY <3>1 DEF AllUnwrapped, Unwrapped
    <3> QED BY <2>1, <3>2, <3>3, QuietStepsKeepAccounts
  <2> QED BY <1>1, <2>1, <2>2
<1>3. CASE Interrupt \/ UNCHANGED vars
  BY <1>1, <1>3 DEF Interrupt, vars, job, workers
<1> QED
  BY <1>2, <1>3, CpuKeepsAccounts, GpuKeepsAccounts DEF Next, Terminated

(* HashesAccounted: what the hash counters show is what was hashed.        *)
THEOREM AccountsCorrect == Spec => []HashesAccounted
<1> DEFINE IInv == TypeOK /\ OffsetsInside /\ Ranges /\ Accounted
<1>1. Init => IInv
  <2>1. Init => Hashed = {} /\ Pending = {} /\ hashes = [cpu |-> 0, gpu |-> 0]
    BY DEF Init, Hashed, Pending, IdleCpu
  <2>2. IsFiniteSet({}) /\ Cardinality({}) = 0
    BY FS_EmptySet
  <2>3. Init => Cardinality(Hashed) = 0 /\ Cardinality(Pending) = 0
    BY <2>1, <2>2, Zenon
  <2>4. Init => Accounted
    BY <2>1, <2>2, <2>3 DEF Accounted, HashesAccounted
  <2> QED BY <2>4, TypeInit, RangesInit
<1>2. IInv /\ [Next]_vars => IInv'
  BY StepKeepsType, StepKeepsRanges, StepKeepsAccounts
<1>3. IInv => HashesAccounted
  BY DEF Accounted, HashesAccounted, AllUnwrapped
<1> QED
  BY <1>1, <1>2, <1>3, PTL DEF Spec
----------------------------------------------------------------------------
(* Solutions.                                                              *)

(* A solution of a Work that no step hashed nor dropped.                   *)
LEMMA StaysOnItsWay ==
  ASSUME NEW k, NEW n, OnItsWay(k, n),
         \A i \in DOMAIN shares : shares[i].work = k =>
           \/ \E j \in DOMAIN shares' : shares'[j] = shares[i]
           \/ \E s \in sent' : s.work = k /\ s.nonce = shares[i].nonce,
         sent \subseteq sent',
         \A g \in GpuWorkers :
           /\ gpu[g].work = k /\ gpu[g].pc \in {"check", "send"}
           /\ n \in gpu[g].wins
           => \/ /\ gpu'[g].work = k /\ gpu'[g].pc \in {"check", "send"}
                 /\ n \in gpu'[g].wins
              \/ \E j \in DOMAIN shares' :
                   shares'[j].work = k /\ shares'[j].nonce = n
  PROVE  OnItsWay(k, n)'
<1>1. CASE \E i \in DOMAIN shares : shares[i].work = k /\ shares[i].nonce = n
  BY <1>1 DEF OnItsWay
<1>2. CASE \E s \in sent : s.work = k /\ s.nonce = n
  BY <1>2 DEF OnItsWay
<1>3. CASE \E g \in GpuWorkers :
             /\ gpu[g].work = k /\ gpu[g].pc \in {"check", "send"}
             /\ n \in gpu[g].wins
  BY <1>3 DEF OnItsWay
<1> QED
  BY <1>1, <1>2, <1>3 DEF OnItsWay

(* The channel grows at its end.                                           *)
LEMMA Appended ==
  ASSUME TypeOK, NEW e, shares' = Append(shares, e)
  PROVE  /\ \A i \in DOMAIN shares :
              \E j \in DOMAIN shares' : shares'[j] = shares[i]
         /\ \E j \in DOMAIN shares' : shares'[j] = e
<1>1. shares \in Seq(ShareType)
  BY DEF TypeOK, SharesTypeOK
<1>2. /\ DOMAIN shares' = 1 .. Len(shares) + 1 /\ DOMAIN shares = 1 .. Len(shares)
      /\ Len(shares) \in Nat
      /\ shares'[Len(shares) + 1] = e
      /\ \A i \in 1 .. Len(shares) : shares'[i] = shares[i]
  BY <1>1
<1> QED
  BY ONLY <1>2

(* It loses its oldest share.                                              *)
LEMMA Shifted ==
  ASSUME TypeOK, shares # <<>>, shares' = Tail(shares)
  PROVE  \A i \in DOMAIN shares :
           \/ shares[i] = Head(shares)
           \/ \E j \in DOMAIN shares' : shares'[j] = shares[i]
<1>1. shares \in Seq(ShareType)
  BY DEF TypeOK, SharesTypeOK
<1>2. /\ DOMAIN shares = 1 .. Len(shares) /\ Len(shares) \in Nat \ {0}
      /\ DOMAIN shares' = 1 .. Len(shares) - 1
      /\ Head(shares) = shares[1]
      /\ \A j \in 1 .. Len(shares) - 1 : shares'[j] = shares[j + 1]
  BY <1>1
<1>3. ASSUME NEW i \in DOMAIN shares, i # 1
      PROVE  \E j \in DOMAIN shares' : shares'[j] = shares[i]
  <2>1. i - 1 \in DOMAIN shares' /\ shares'[i - 1] = shares[i]
    BY <1>2, <1>3
  <2> QED
    BY <2>1
<1> QED
  BY <1>2, <1>3

(* The main thread drops a share only when its job is over, or with it.    *)
LEMMA MainKeepsSolutions ==
  ASSUME TypeOK, EpochInv, EverySolutionKept, MainStep
  PROVE  EverySolutionKept'
<1>0. UNCHANGED gpu /\ WorksKept
  BY OtherSteps
<1>1. ASSUME NEW k \in DOMAIN works, works'[k] = works[k],
             works[k].epoch = activeEpoch, main \notin {"withdraw", "bump"},
             sent \subseteq sent',
             \A i \in DOMAIN shares : shares[i].work = k =>
               \/ \E j \in DOMAIN shares' : shares'[j] = shares[i]
               \/ \E s \in sent' : s.work = k /\ s.nonce = shares[i].nonce,
             NEW n \in works'[k].hashed, Solves(works'[k], n)
      PROVE  OnItsWay(k, n)'
  <2>1. OnItsWay(k, n)
    BY <1>1 DEF EverySolutionKept, Solves
  <2> QED
    BY <1>0, <1>1, <2>1, StaysOnItsWay
<1>2. CASE UNCHANGED <<works, activeEpoch, shares, sent>>
           /\ main \notin {"withdraw", "bump"}
  BY <1>1, <1>2 DEF EverySolutionKept
<1>3. CASE UNCHANGED works /\ \A k \in DOMAIN works : works[k].epoch # activeEpoch'
  BY <1>3 DEF EverySolutionKept
<1>4. CASE main' \in {"withdraw", "bump"}
  BY <1>4 DEF EverySolutionKept
<1>5. CASE Connect \/ ConnectFails
  BY <1>3, <1>5 DEF Connect, ConnectFails, EpochInv, ActiveIsPublished, job
<1>6. CASE WithdrawWork \/ SubmitFails \/ SessionFails
  BY <1>4, <1>6 DEF WithdrawWork, SubmitFails, SessionFails
<1>7. ASSUME UNCHANGED works, activeEpoch' = activeEpoch + 1
      PROVE  EverySolutionKept'
  <2>1. \A k \in DOMAIN works : works[k].epoch # activeEpoch + 1
    BY AboutWorks DEF EpochInv, EpochsGrow
  <2> QED
    BY <1>3, <1>7, <2>1
<1>8. CASE BumpEpoch \/ ShutdownBump
  BY <1>7, <1>8 DEF BumpEpoch, ShutdownBump
<1>9. CASE \/ ShutdownWithdraw \/ JoinWorkers \/ LeaveSession \/ EnterLoop
           \/ Drained \/ ReadNothing
  BY <1>2, <1>9 DEF ShutdownWithdraw, JoinWorkers, LeaveSession, EnterLoop,
                    Drained, ReadNothing, job
<1>10. CASE \/ \E h \in Headers : Notify(h)
            \/ \E t \in Targets : SetTarget(t)
  BY <1>2, <1>7, <1>10 DEF Notify, SetTarget, BeginInstall
<1>11. CASE DiscardShare \/ SubmitShare
  <2>1. /\ UNCHANGED <<works, activeEpoch>> /\ main = "drain"
        /\ shares # <<>> /\ shares' = Tail(shares) /\ sent \subseteq sent'
    BY <1>11 DEF DiscardShare, SubmitShare, job
  <2>2. ASSUME NEW k \in DOMAIN works, works[k].epoch = activeEpoch,
               NEW i \in DOMAIN shares, shares[i].work = k
        PROVE  \/ \E j \in DOMAIN shares' : shares'[j] = shares[i]
               \/ \E s \in sent' : s.work = k /\ s.nonce = shares[i].nonce
    <3>1. CASE shares[i] = Head(shares)
      <4>1. SubmitShare
        BY <1>11, <2>2, <3>1 DEF DiscardShare, ShareIsCurrent
      <4> DEFINE s == [work |-> Head(shares).work, nonce |-> Head(shares).nonce,
                       connection |-> connection]
      <4>2. s \in sent' /\ s.work = k /\ s.nonce = shares[i].nonce
        BY <2>2, <3>1, <4>1 DEF SubmitShare
      <4> QED
        BY <4>2
    <3>2. CASE shares[i] # Head(shares)
      BY <2>1, <3>2, Shifted
    <3> QED
      BY <3>1, <3>2
  <2> QED
    BY <1>1, <2>1, <2>2 DEF EverySolutionKept
<1>12. CASE StoreWork
  <2>1. /\ DOMAIN works' = 1 .. Len(works) + 1
        /\ \A k \in DOMAIN works :
             works'[k] = works[k] /\ works[k].epoch # activeEpoch'
        /\ works'[Len(works) + 1].hashed = {}
    BY <1>12, AboutWorks DEF StoreWork, Work, EpochInv, ActiveIsPublished
  <2> QED
    BY <2>1, AboutWorks DEF EverySolutionKept
<1> QED
  BY <1>5, <1>6, <1>8, <1>9, <1>10, <1>11, <1>12 DEF MainStep

(* What a CPU worker hashes for the job in hand, it sends if it solves it. *)
LEMMA CpuKeepsSolutions ==
  ASSUME TypeOK, EverySolutionKept, NEW w \in CpuWorkers, CpuStep(w)
  PROVE  EverySolutionKept'
<1>0. WorksKept /\ DOMAIN works' = DOMAIN works
        /\ UNCHANGED <<main, activeEpoch, gpu, sent>>
  BY CpuKeepsWorks, CpuChangesItsOwn
<1>1. ASSUME NEW k \in DOMAIN works, NEW n, OnItsWay(k, n),
             \A i \in DOMAIN shares :
               \E j \in DOMAIN shares' : shares'[j] = shares[i]
      PROVE  OnItsWay(k, n)'
  BY <1>0, <1>1, StaysOnItsWay
<1>2. \A k \in DOMAIN works : \A n :
        /\ works'[k].epoch = works[k].epoch
        /\ Solves(works'[k], n) <=> Solves(works[k], n)
  BY <1>0 DEF WorksKept, Solves
<1>3. CASE CpuHash(w)
  <2> DEFINE c == cpu[w].work
             m == Nonce(cpu[w].start, cpu[w].offset)
  <2>1. c \in DOMAIN works
    BY <1>3 DEF CpuHash, TypeOK, CpuTypeOK, CpuType, WorksTypeOK
  <2>2. /\ works' = [works EXCEPT ![c].hashed = @ \cup {m}]
        /\ shares' = IF Solves(works[c], m)
                       THEN Append(shares, [work |-> c, nonce |-> m])
                       ELSE shares
    BY <1>3 DEF CpuHash
  <2>3. \A i \in DOMAIN shares :
          \E j \in DOMAIN shares' : shares'[j] = shares[i]
    BY <2>2, Appended
  <2>4. ASSUME NEW k, NEW n, k = c, n = m, Solves(works[c], m)
        PROVE  OnItsWay(k, n)'
    <3>1. PICK j \in DOMAIN shares' : shares'[j] = [work |-> c, nonce |-> m]
      BY <2>2, <2>4, Appended
    <3>2. shares'[j].work = k /\ shares'[j].nonce = n
      BY <2>4, <3>1
    <3> QED
      BY <3>2 DEF OnItsWay
  <2> HIDE DEF c, m
  <2>5. \A k \in DOMAIN works :
          works'[k].hashed = IF k = c THEN works[k].hashed \cup {m}
                                      ELSE works[k].hashed
    BY <2>1, <2>2, UpdatedHashed
  <2> SUFFICES ASSUME NEW k \in DOMAIN works, works[k].epoch = activeEpoch,
                      main \notin {"withdraw", "bump"},
                      NEW n \in works'[k].hashed, Solves(works[k], n)
               PROVE  OnItsWay(k, n)'
    BY <1>0, <1>2 DEF EverySolutionKept
  <2>6. CASE n \in works[k].hashed
    BY <1>1, <2>3, <2>6 DEF EverySolutionKept
  <2>7. CASE n \notin works[k].hashed
    BY <2>4, <2>5, <2>7
  <2> QED
    BY <2>6, <2>7
<1>4. CASE ~CpuHash(w)
  <2>1. UNCHANGED shares
        /\ \A k \in DOMAIN works : works'[k].hashed = works[k].hashed
    <3>1. CASE CpuReserve(w)
      <4>1. cpu[w].work \in DOMAIN works
        BY <3>1 DEF CpuReserve, TypeOK, CpuTypeOK, CpuType, WorksTypeOK
      <4>2. works' = [works EXCEPT ![cpu[w].work].next = @ + Reservation]
        BY <3>1 DEF CpuReserve
      <4> QED
        BY <3>1, <4>1, <4>2, UpdatedNext DEF CpuReserve
    <3>2. CASE ~CpuReserve(w)
      BY <1>4, <3>2 DEF CpuStep, CpuExit, CpuContinue, CpuNoWork, CpuLoad,
                        CpuAbandon, CpuStillCurrent
    <3> QED
      BY <3>1, <3>2
  <2>2. \A i \in DOMAIN shares : \E j \in DOMAIN shares' : shares'[j] = shares[i]
    BY <2>1
  <2> QED
    BY <1>0, <1>1, <1>2, <2>1, <2>2 DEF EverySolutionKept
<1> QED
  BY <1>3, <1>4

(* A GPU worker lets go of a candidate only when it sends it, when it      *)
(* solves nothing, or when its job is over.                                *)
LEMMA GpuLetsGo ==
  ASSUME TypeOK, NEW g \in GpuWorkers, GpuStep(g), NEW n,
         gpu[g].pc \in {"check", "send"}, n \in gpu[g].wins,
         works[gpu[g].work].epoch = activeEpoch,
         Solves(works[gpu[g].work], n)
  PROVE  \/ /\ gpu'[g].work = gpu[g].work /\ gpu'[g].pc \in {"check", "send"}
            /\ n \in gpu'[g].wins
         \/ \E j \in DOMAIN shares' :
              shares'[j].work = gpu[g].work /\ shares'[j].nonce = n
<1>1. gpu \in [GpuWorkers -> GpuType] /\ gpu[g] \in GpuType
  BY DEF TypeOK, GpuTypeOK
<1>2. CASE GpuStillCurrent(g)
  BY <1>1, <1>2 DEF GpuStillCurrent, GpuType
<1>3. ASSUME NEW m \in Nonces, GpuSend(g, m)
      PROVE  \/ /\ gpu'[g].work = gpu[g].work
                /\ gpu'[g].pc \in {"check", "send"} /\ n \in gpu'[g].wins
             \/ \E j \in DOMAIN shares' :
                  shares'[j].work = gpu[g].work /\ shares'[j].nonce = n
  <2>1. CASE m = n
    <3>1. shares' = Append(shares, [work |-> gpu[g].work, nonce |-> n])
      BY <1>3, <2>1 DEF GpuSend
    <3>2. PICK j \in DOMAIN shares' :
            shares'[j] = [work |-> gpu[g].work, nonce |-> n]
      BY <3>1, Appended
    <3> QED
      BY <3>2
  <2>2. CASE m # n
    <3>1. gpu'[g] = [gpu[g] EXCEPT !.wins = @ \ {m}] /\ gpu[g].pc = "send"
      BY <1>1, <1>3 DEF GpuSend
    <3> QED
      BY <1>1, <2>2, <3>1 DEF GpuType
  <2> QED
    BY <2>1, <2>2
<1>4. CASE ~GpuStillCurrent(g) /\ ~\E m \in Nonces : GpuSend(g, m)
  BY <1>4 DEF GpuStep, GpuExit, GpuContinue, GpuNoWork, GpuLoad, GpuReserve,
              GpuMine, GpuOutdated, GpuSent, GpuFails, GpuStops
<1> QED
  BY <1>2, <1>3, <1>4

(* What a GPU worker hashes for the job in hand, it holds if it solves it. *)
LEMMA GpuKeepsSolutions ==
  ASSUME TypeOK, EpochInv, GpuHoldsWorks, EverySolutionKept,
         NEW g \in GpuWorkers, GpuStep(g)
  PROVE  EverySolutionKept'
<1>0. /\ WorksKept /\ DOMAIN works' = DOMAIN works
      /\ UNCHANGED <<main, activeEpoch>>
      /\ \A f \in GpuWorkers \ {g} : gpu'[f] = gpu[f]
  BY GpuKeepsWorks, GpuChangesItsOwn
<1>1. UNCHANGED sent
  BY DEF GpuStep, GpuExit, GpuContinue, GpuNoWork, GpuLoad, GpuReserve,
         GpuMine, GpuOutdated, GpuStillCurrent, GpuSend, GpuSent, GpuFails,
         GpuStops, rest
<1>2. \A k \in DOMAIN works : \A n :
        /\ works'[k].epoch = works[k].epoch
        /\ Solves(works'[k], n) <=> Solves(works[k], n)
  BY <1>0 DEF WorksKept, Solves
<1>3. \A i \in DOMAIN shares :
        \E j \in DOMAIN shares' : shares'[j] = shares[i]
  <2>1. CASE \E e : shares' = Append(shares, e)
    BY <2>1, Appended
  <2>2. CASE UNCHANGED shares
    BY <2>2
  <2> QED
    BY <2>1, <2>2 DEF GpuStep, GpuExit, GpuContinue, GpuNoWork, GpuLoad,
       GpuReserve, GpuMine, GpuOutdated, GpuStillCurrent, GpuSend, GpuSent,
       GpuFails, GpuStops
<1>4. ASSUME NEW k \in DOMAIN works, NEW n, OnItsWay(k, n),
             works[k].epoch = activeEpoch, Solves(works[k], n)
      PROVE  OnItsWay(k, n)'
  <2>1. gpu[g].work = k /\ gpu[g].pc \in {"check", "send"} /\ n \in gpu[g].wins
        => \/ /\ gpu'[g].work = k /\ gpu'[g].pc \in {"check", "send"}
              /\ n \in gpu'[g].wins
           \/ \E j \in DOMAIN shares' :
                shares'[j].work = k /\ shares'[j].nonce = n
    BY <1>4, GpuLetsGo
  <2> QED
    BY <1>0, <1>1, <1>3, <1>4, <2>1, StaysOnItsWay
<1>5. CASE GpuMine(g)
  <2> DEFINE c == gpu[g].work
             batch == Batch(gpu[g].start)
  <2>1. c \in DOMAIN works
    BY <1>5 DEF GpuMine, TypeOK, GpuTypeOK, GpuType, WorksTypeOK
  <2>2. works' = [works EXCEPT ![c].hashed = @ \cup batch]
    BY <1>5 DEF GpuMine
  <2>3. gpu'[g].work = c /\ gpu'[g].start = gpu[g].start /\ gpu'[g].pc = "check"
    <3>1. gpu \in [GpuWorkers -> GpuType] /\ gpu[g] \in GpuType
      BY DEF TypeOK, GpuTypeOK
    <3> DEFINE loaded == Upload(gpu[g].loaded, gpu[g].cached)
               wins == Candidates(loaded.header, gpu[g].cached.target, batch)
    <3>2. gpu'[g] = [gpu[g] EXCEPT !.pc = "check", !.loaded = loaded,
                                   !.wins = wins]
      BY <3>1, <1>5 DEF GpuMine
    <3> HIDE DEF wins, loaded
    <3> QED
      BY <3>1, <3>2 DEF GpuType
  <2>4. {n \in batch : Solves(works[c], n)} \subseteq gpu'[g].wins
    BY <1>2, <1>5, <2>1, <2>3, MineSearchesItsWork
  <2> HIDE DEF c, batch
  <2>5. \A k \in DOMAIN works :
          works'[k].hashed = IF k = c THEN works[k].hashed \cup batch
                                      ELSE works[k].hashed
    BY <2>1, <2>2, UpdatedHashed
  <2> SUFFICES ASSUME NEW k \in DOMAIN works, works[k].epoch = activeEpoch,
                      main \notin {"withdraw", "bump"},
                      NEW n \in works'[k].hashed, Solves(works[k], n)
               PROVE  OnItsWay(k, n)'
    BY <1>0, <1>2 DEF EverySolutionKept
  <2>6. CASE n \in works[k].hashed
    BY <1>4, <2>6 DEF EverySolutionKept
  <2>7. CASE n \notin works[k].hashed
    <3>1. k = c /\ n \in batch
      BY <2>5, <2>7
    <3>2. n \in gpu'[g].wins
      BY <2>4, <3>1
    <3> QED
      BY <2>3, <3>1, <3>2 DEF OnItsWay
  <2> QED
    BY <2>6, <2>7
<1>6. CASE ~GpuMine(g)
  <2>1. \A k \in DOMAIN works : works'[k].hashed = works[k].hashed
    <3>1. CASE GpuReserve(g)
      <4>1. gpu[g].work \in DOMAIN works
        BY <3>1 DEF GpuReserve, TypeOK, GpuTypeOK, GpuType, WorksTypeOK
      <4>2. works' = [works EXCEPT ![gpu[g].work].next = @ + BatchSize]
        BY <3>1 DEF GpuReserve
      <4> QED
        BY <4>1, <4>2, UpdatedNext
    <3>2. CASE ~GpuReserve(g)
      BY <1>6, <3>2, GpuElsewhere
    <3> QED
      BY <3>1, <3>2
  <2> QED
    BY <1>0, <1>2, <1>4, <2>1 DEF EverySolutionKept
<1> QED
  BY <1>5, <1>6

LEMMA StepKeepsSolutionsInHand ==
  TypeOK /\ EpochInv /\ GpuHoldsWorks /\ EverySolutionKept /\ [Next]_vars
    => EverySolutionKept'
<1> SUFFICES ASSUME TypeOK, EpochInv, GpuHoldsWorks, EverySolutionKept,
                    [Next]_vars
             PROVE  EverySolutionKept'
  OBVIOUS
<1>1. CASE Interrupt \/ UNCHANGED vars
  BY <1>1 DEF Interrupt, vars, job, workers, EverySolutionKept, OnItsWay
<1> QED
  BY <1>1, MainKeepsSolutions, CpuKeepsSolutions, GpuKeepsSolutions
     DEF Next, Terminated

(* As long as its job is in hand, no solution any worker hashed is lost on *)
(* the way to the pool, but by a session that fails.                       *)
THEOREM SolutionsCorrect == Spec => []EverySolutionKept
<1>1. Init => TypeOK /\ EpochInv /\ GpuHoldsWorks /\ EverySolutionKept
  BY TypeInit, EpochInit
     DEF Init, GpuHoldsWorks, HoldsWorks, IdleGpu, EverySolutionKept
<1>2. TypeOK /\ EpochInv /\ GpuHoldsWorks /\ EverySolutionKept /\ [Next]_vars
        => TypeOK' /\ EpochInv' /\ GpuHoldsWorks' /\ EverySolutionKept'
  BY StepKeepsType, StepKeepsEpochs, StepKeepsHolding, StepKeepsSolutionsInHand
<1> QED
  BY <1>1, <1>2, PTL DEF Spec
=============================================================================
