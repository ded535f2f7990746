-------------------------- MODULE MinerProperties --------------------------
(***************************************************************************)
(* What the threads of Miner.tla must get right together, and the abstract *)
(* specification they implement.                                           *)
(***************************************************************************)
EXTENDS Miner

(* The values of the variables, and which worker holds which Work.         *)
MainPlaces == {"outer", "loop", "drain", "read", "store", "withdraw", "bump",
               "shutdown", "join", "ok", "failed"}
CpuPlaces  == {"top", "load", "reserve", "check", "hash", "done"}
GpuPlaces  == {"top", "load", "reserve", "mine", "check", "send", "failing",
               "done"}

WorkType  == [header : Headers, target : Targets, epoch : Nat, next : Nat,
              connection : Nat, hashed : SUBSET Nonces]
ShareType == [work : 1 .. Len(works), nonce : Nonces]
SentType  == [work : 1 .. Len(works), nonce : Nonces, connection : Nat]
CpuType   == [pc : CpuPlaces, work : 0 .. Len(works), start : Nat,
              offset : Nat, pending : Nat]
GpuType   == [pc : GpuPlaces, work : 0 .. Len(works), start : Nat,
              wins : SUBSET Nonces,
              cached : [epoch : Nat, header : Headers, target : Targets]
                         \cup {None},
              loaded : [epoch : Nat, header : Headers] \cup {None}]

MainTypeOK ==
  /\ main \in MainPlaces
  /\ incoming \in JobSpecs \cup {None}
  /\ main = "store" => incoming \in JobSpecs
  /\ target \in Targets \cup {None}
  /\ connection \in Nat

WorksTypeOK ==
  /\ works \in Seq(WorkType)
  /\ current \in 0 .. Len(works)
  /\ activeEpoch \in Nat

FlagsTypeOK ==
  /\ stop \in BOOLEAN
  /\ gpuFailed \in BOOLEAN
  /\ hashes \in [cpu : Nat, gpu : Nat]

SharesTypeOK ==
  /\ shares \in Seq(ShareType)
  /\ sent \subseteq SentType

CpuTypeOK ==
  /\ cpu \in [CpuWorkers -> CpuType]
  /\ \A w \in CpuWorkers :
       cpu[w].pc \in {"reserve", "check", "hash"} => cpu[w].work # 0

GpuTypeOK ==
  /\ gpu \in [GpuWorkers -> GpuType]
  /\ \A g \in GpuWorkers :
       /\ gpu[g].pc \in {"reserve", "mine", "check", "send"} => gpu[g].work # 0
       /\ gpu[g].pc \in {"reserve", "mine"} => gpu[g].cached # None

TypeOK ==
  MainTypeOK /\ WorksTypeOK /\ FlagsTypeOK /\ SharesTypeOK /\ CpuTypeOK
    /\ GpuTypeOK
----------------------------------------------------------------------------
(* Why those properties hold: epochs grow with the index of the Work, and   *)
(* the main thread orders its writes to the epoch and to the published     *)
(* Work so that an active epoch is always the epoch of the published Work  *)
(* (or of the one just withdrawn, for one step), received over the present *)
(* connection.  Together with TypeOK this is inductive.                    *)
EpochsGrow ==
  /\ \A i \in DOMAIN works : works[i].epoch <= activeEpoch
  /\ \A i, j \in DOMAIN works : i < j => works[i].epoch < works[j].epoch

ActiveIsPublished ==
  /\ main = "store" => \A i \in DOMAIN works : works[i].epoch # activeEpoch
  /\ main = "outer" /\ ~stop =>
       \A i \in DOMAIN works : works[i].epoch # activeEpoch
  /\ main \notin {"bump", "shutdown"} =>
       \A i \in DOMAIN works : works[i].epoch = activeEpoch => i = current

ActiveIsOfThisPool ==
  main \in {"loop", "drain", "read"} =>
    \A i \in DOMAIN works :
      works[i].epoch = activeEpoch => works[i].connection = connection

EpochInv == EpochsGrow /\ ActiveIsPublished /\ ActiveIsOfThisPool

(* What a GPU worker keeps prepared, and what its device holds, is always  *)
(* a Work of this miner; while it mines, it is the Work it reserved from.  *)
HoldsWorks(allocated, worker) ==
  /\ worker.cached # None =>
       \E i \in DOMAIN allocated : worker.cached = Prepared(allocated[i])
  /\ worker.loaded # None =>
       \E i \in DOMAIN allocated :
         worker.loaded = [epoch |-> allocated[i].epoch,
                          header |-> allocated[i].header]
  /\ worker.pc \in {"reserve", "mine"} =>
       worker.cached.epoch = allocated[worker.work].epoch

GpuHoldsWorks == \A g \in GpuWorkers : HoldsWorks(works, gpu[g])

(* Nothing but solutions travels: in the channel or to the pool.           *)
SharesSolve ==
  /\ \A i \in DOMAIN shares : Solves(works[shares[i].work], shares[i].nonce)
  /\ \A s \in sent : Solves(works[s.work], s.nonce)

(* The Work a worker is on, and what it still has to hash of the range it  *)
(* reserved from it.                                                       *)
Workers == CpuWorkers \cup GpuWorkers
On(x) == IF x \in CpuWorkers THEN cpu[x].work ELSE gpu[x].work

CpuAhead(w) ==
  IF cpu[w].pc \in {"check", "hash"}
    THEN cpu[w].start + cpu[w].offset .. cpu[w].start + Reservation - 1
    ELSE {}
GpuAhead(g) ==
  IF gpu[g].pc = "mine"
    THEN gpu[g].start .. gpu[g].start + BatchSize - 1 ELSE {}
Ahead(x) == IF x \in CpuWorkers THEN CpuAhead(x) ELSE GpuAhead(x)

(* As long as the counter of a Work did not wrap, it has passed whatever   *)
(* was hashed for that Work and whatever is reserved from it.              *)
Unwrapped(k) == works[k].next <= NonceSpace

OffsetsInside ==
  \A w \in CpuWorkers :
    cpu[w].pc \in {"check", "hash"} => cpu[w].offset < Reservation

RangesReserved ==
  \A k \in DOMAIN works : Unwrapped(k) =>
    /\ works[k].hashed \subseteq 0 .. works[k].next - 1
    /\ \A x \in Workers :
         On(x) = k => Ahead(x) \subseteq 0 .. works[k].next - 1

(* A worker that ended has counted what it hashed.                         *)
DoneFlushed == \A w \in CpuWorkers : cpu[w].pc = "done" => cpu[w].pending = 0

MinerInv ==
  /\ TypeOK /\ EpochInv /\ GpuHoldsWorks /\ SharesSolve
  /\ OffsetsInside /\ RangesReserved /\ DoneFlushed

(* A share is submitted only over the connection whose job it solves: none *)
(* found before a disconnect reaches the pool after the reconnect, however *)
(* long it stayed in a worker or in the channel.                           *)
SubmittedToItsPool ==
  \A s \in sent : s.connection = works[s.work].connection

(* No two Works ever share an epoch, so an epoch that equals the active    *)
(* one, in a worker or in a cached GPU job, names one Work; and while the  *)
(* main thread serves its session, that is the Work it last published.     *)
EpochNamesOneWork ==
  /\ \A i, j \in DOMAIN works : works[i].epoch = works[j].epoch => i = j
  /\ main \in {"loop", "drain", "read"} =>
       \A i \in DOMAIN works : works[i].epoch = activeEpoch => i = current

(* Whatever a GPU batch was searched with (a job prepared for an earlier   *)
(* Work, a header uploaded for an earlier one), its candidates hold every  *)
(* nonce of the batch that solves the Work the batch was reserved from.    *)
GpuSearchesItsWork ==
  \A g \in GpuWorkers : gpu[g].pc = "check" =>
    {n \in Batch(gpu[g].start) : Solves(works[gpu[g].work], n)}
      \subseteq gpu[g].wins

(* The workers reserve disjoint nonce ranges of one Work: as long as its   *)
(* counter has not wrapped, what a worker is about to hash was hashed by   *)
(* nobody and is reserved by nobody else.                                  *)
RangesDisjoint ==
  \A k \in DOMAIN works, x \in Workers : Unwrapped(k) /\ On(x) = k =>
    /\ Ahead(x) \cap works[k].hashed = {}
    /\ \A y \in Workers \ {x} : On(y) = k => Ahead(x) \cap Ahead(y) = {}

(* Every solution hashed for the job in hand is on its way to the pool:    *)
(* held by a GPU worker, in the channel, or submitted.  Only a failing     *)
(* session drops any.                                                      *)
OnItsWay(k, n) ==
  \/ \E i \in DOMAIN shares : shares[i].work = k /\ shares[i].nonce = n
  \/ \E s \in sent : s.work = k /\ s.nonce = n
  \/ \E g \in GpuWorkers :
       gpu[g].work = k /\ gpu[g].pc \in {"check", "send"} /\ n \in gpu[g].wins

EverySolutionKept ==
  \A k \in DOMAIN works :
    works[k].epoch = activeEpoch /\ main \notin {"withdraw", "bump"} =>
      \A n \in works[k].hashed : Solves(works[k], n) => OnItsWay(k, n)

(* The hash counters lose and repeat nothing: what was flushed and what    *)
(* the workers still hold is what was hashed, until a nonce counter wraps. *)
Hashed == UNION {{k} \X works[k].hashed : k \in DOMAIN works}
Pending == UNION {{w} \X (1 .. cpu[w].pending) : w \in CpuWorkers}

HashesAccounted ==
  (\A k \in DOMAIN works : Unwrapped(k)) =>
    Cardinality(Hashed) = hashes.cpu + hashes.gpu + Cardinality(Pending)

(* run returns an error exactly when a GPU worker failed, however the      *)
(* failure, a Ctrl-C and the shutdown interleave; and when it returns no   *)
(* worker is running and no CPU hash is left uncounted.                    *)
ExitTellsFailure ==
  main \in {"ok", "failed"} =>
    /\ (main = "failed") = gpuFailed
    /\ \A g \in GpuWorkers : gpu[g].pc = "done"
    /\ \A w \in CpuWorkers : cpu[w].pc = "done" /\ cpu[w].pending = 0
----------------------------------------------------------------------------
(* The job the miner holds, as the pool sees it: the published Work, until *)
(* its epoch is outdated.                                                  *)
HeldJob ==
  IF current # 0 /\ works[current].epoch = activeEpoch
    THEN [header |-> works[current].header, target |-> works[current].target]
    ELSE None

SubmittedShares ==
  {[header |-> works[s.work].header, target |-> works[s.work].target,
    nonce |-> s.nonce] : s \in sent}

Promise == INSTANCE ShareSubmission
             WITH job <- HeldJob, submitted <- SubmittedShares

(* The miner implements ShareSubmission: each share it submits solves,     *)
(* under the target in force, the job held at the moment of submission.    *)
KeepsPromise == Promise!Spec
----------------------------------------------------------------------------
(* After Ctrl-C or a failed GPU, run returns, whatever the threads were    *)
(* doing.                                                                  *)
StopEndsRun == stop ~> main \in {"ok", "failed"}

(* A GPU failure ends the miner, and with an error.                        *)
FailureEndsRun == gpuFailed ~> main = "failed"

InHand(k) == k \in DOMAIN works /\ works[k].epoch = activeEpoch

(* A CPU worker never stays on a Work that was replaced or withdrawn.      *)
StaleWorkAbandoned ==
  \A w \in CpuWorkers, k \in 1 .. MaxWorks :
    (cpu[w].work = k /\ ~InHand(k)) ~> cpu[w].work # k

(* A share in the channel for the job in hand is submitted, unless its job *)
(* is replaced or withdrawn or the miner stops first.                      *)
Solutions ==
  {n \in Nonces : \E h \in Headers, t \in Targets : Digest(h, n) <= t}
SharesReachPool ==
  \A k \in 1 .. MaxWorks, n \in Solutions :
    (/\ \E i \in DOMAIN shares : shares[i] = [work |-> k, nonce |-> n]
     /\ InHand(k))
      ~> (\/ \E s \in sent : s.work = k /\ s.nonce = n
          \/ ~InHand(k)
          \/ stop)
----------------------------------------------------------------------------
(* README.md:6: "CPU and GPU workers reserve disjoint nonce ranges from    *)
(* the same job".  A job, for the pool and for the ranges that are worth   *)
(* hashing, is a header: within one connection no nonce of it is hashed    *)
(* for two Works.                                                          *)
JobNoncesDisjoint ==
  \A i, j \in DOMAIN works :
    /\ i # j
    /\ works[i].header = works[j].header
    /\ works[i].connection = works[j].connection
    => works[i].hashed \cap works[j].hashed = {}
=============================================================================
