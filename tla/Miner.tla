------------------------------- MODULE Miner -------------------------------
(***************************************************************************)
(* The threads of the running miner (src/miner.rs): the main thread, which *)
(* owns the pool connection, the CPU workers and the GPU workers, and the  *)
(* shared state they meet in: the current Work (an ArcSwapOption), the     *)
(* active epoch, the nonce counter of each Work, the share channel, the    *)
(* stop flag and the GPU-failure flag.                                     *)
(*                                                                         *)
(* A step is one access to shared state together with the thread-local     *)
(* code around it.  Hash values are an uninterpreted Digest; a Work's      *)
(* header stands for its 80-byte blob.  The connection-local bookkeeping   *)
(* of run_session (request ids, accepted and rejected counters, the best   *)
(* share, subscription state) touches none of this state: here it only     *)
(* shows as a session that may fail at any read or write.                  *)
(***************************************************************************)
EXTENDS Naturals, Sequences, FiniteSets

CONSTANTS
  Headers, Targets,       \* see ShareSubmission
  Digest(_, _),
  Prefix(_),              \* the part of a digest or target a kernel compares
  CpuWorkers, GpuWorkers, \* the threads spawn_workers starts
  Reservation,            \* NONCES_PER_RESERVATION
  StaleInterval,          \* STALE_CHECK_INTERVAL
  BatchSize,              \* Backend::batch_size
  NonceSpace,             \* nonces wrap here; 2^64 in the code
  None,
  MaxConnections,         \* bound: connection attempts
  MaxWorks,               \* bound: jobs installed
  MaxTaken                \* bound: no worker starts on a Work this far used up

ASSUME MinerAssumption ==
  /\ Targets \subseteq Nat
  /\ \A h \in Headers, n \in 0 .. NonceSpace - 1 : Digest(h, n) \in Nat
  /\ \A h \in Headers, n \in 0 .. NonceSpace - 1, t \in Targets :
       Digest(h, n) <= t => Prefix(Digest(h, n)) <= Prefix(t)
  /\ CpuWorkers \cap GpuWorkers = {}
  /\ Reservation \in Nat \ {0}
  /\ StaleInterval \in Nat \ {0}
  /\ BatchSize \in Nat \ {0}
  /\ NonceSpace \in Nat \ {0}
  /\ None \notin Targets
  /\ None \notin [header : Headers, target : Targets]
  /\ None \notin [epoch : Nat, header : Headers, target : Targets]
  /\ None \notin [epoch : Nat, header : Headers]
  /\ MaxConnections \in Nat /\ MaxWorks \in Nat /\ MaxTaken \in Nat

VARIABLES
  main,         \* where the main thread is
  incoming,     \* the job install_work is storing, or None
  target,       \* SessionState::target, or None
  connection,   \* connection attempts so far: names the current one
  works,        \* every Work allocated; an Arc<Work> is an index into it
  current,      \* the ArcSwapOption: an index into works, 0 when empty
  activeEpoch,
  shares,       \* the share channel, oldest first
  stop,
  gpuFailed,
  hashes,       \* HashCounters
  cpu,          \* the local state of each CPU worker
  gpu,          \* the local state of each GPU worker and of its device
  sent          \* history: shares submitted, with the connection they went to

pool    == <<incoming, target, connection>>
job     == <<works, current, activeEpoch>>
vars    == <<main, pool, job, shares, stop, gpuFailed, hashes, cpu, gpu, sent>>
----------------------------------------------------------------------------
Nonces == 0 .. NonceSpace - 1

JobSpecs == [header : Headers, target : Targets]

(* Work.  next is next_nonce before it wraps; hashed is a history of the   *)
(* nonces hashed for this Work, connection of where its job came from.     *)
Work(spec, epoch) ==
  [header |-> spec.header, target |-> spec.target, epoch |-> epoch,
   next |-> 0, connection |-> connection, hashed |-> {}]

Solves(work, n) == Digest(work.header, n) <= work.target

(* Mutant of Nonce: added without wrapping.                                *)
NonceUnwrapped(start, offset) == start + offset

(* The offset-th nonce of the range that starts at the reserved counter.   *)
Nonce(start, offset) == (start + offset) % NonceSpace

Batch(start) == {Nonce(start, i) : i \in 0 .. BatchSize - 1}

IdleCpu == [pc |-> "top", work |-> 0, start |-> 0, offset |-> 0, pending |-> 0]
IdleGpu == [pc |-> "top", work |-> 0, start |-> 0, wins |-> {},
            cached |-> None, loaded |-> None]

Init ==
  /\ main = "outer" /\ incoming = None /\ target = None /\ connection = 0
  /\ works = <<>> /\ current = 0 /\ activeEpoch = 0
  /\ shares = <<>> /\ stop = FALSE /\ gpuFailed = FALSE
  /\ hashes = [cpu |-> 0, gpu |-> 0]
  /\ cpu = [w \in CpuWorkers |-> IdleCpu]
  /\ gpu = [g \in GpuWorkers |-> IdleGpu]
  /\ sent = {}
----------------------------------------------------------------------------
(* The main thread: run's reconnect loop.                                  *)

workers == <<hashes, cpu, gpu, gpuFailed>>

(* connect and the two requests succeed; the session starts with no target *)
Connect ==
  /\ main = "outer" /\ ~stop /\ connection < MaxConnections
  /\ connection' = connection + 1
  /\ target' = None
  /\ main' = "loop"
  /\ UNCHANGED <<incoming, job, shares, stop, workers, sent>>

(* resolve, connect, the proxy negotiation or a request fails.             *)
ConnectFails ==
  /\ main = "outer" /\ ~stop /\ connection < MaxConnections
  /\ connection' = connection + 1
  /\ main' = "withdraw"
  /\ UNCHANGED <<incoming, target, job, shares, stop, workers, sent>>

(* run_session returned an error: clear the job, then outdate it.          *)
WithdrawWork ==
  /\ main = "withdraw"
  /\ current' = 0
  /\ main' = "bump"
  /\ UNCHANGED <<pool, works, activeEpoch, shares, stop, workers, sent>>

(* Mutant of BumpEpoch: the job is withdrawn, its epoch stays active.      *)
KeepEpoch ==
  /\ main = "bump"
  /\ main' = "outer"
  /\ UNCHANGED <<pool, job, shares, stop, workers, sent>>

BumpEpoch ==
  /\ main = "bump"
  /\ activeEpoch' = activeEpoch + 1
  /\ main' = "outer"
  /\ UNCHANGED <<pool, works, current, shares, stop, workers, sent>>

(* The end of run, in the same order, and then the joins.                  *)
ShutdownWithdraw ==
  /\ main = "outer" /\ stop
  /\ current' = 0
  /\ main' = "shutdown"
  /\ UNCHANGED <<pool, works, activeEpoch, shares, stop, workers, sent>>

ShutdownBump ==
  /\ main = "shutdown"
  /\ activeEpoch' = activeEpoch + 1
  /\ main' = "join"
  /\ UNCHANGED <<pool, works, current, shares, stop, workers, sent>>

(* Mutant of JoinWorkers: the GPU workers are not joined.                  *)
JoinCpuWorkers ==
  /\ main = "join"
  /\ \A w \in CpuWorkers : cpu[w].pc = "done"
  /\ main' = IF gpuFailed THEN "failed" ELSE "ok"
  /\ UNCHANGED <<pool, job, shares, stop, workers, sent>>

(* run returns once every worker ended: an error if a GPU worker failed.   *)
JoinWorkers ==
  /\ main = "join"
  /\ \A w \in CpuWorkers : cpu[w].pc = "done"
  /\ \A g \in GpuWorkers : gpu[g].pc = "done"
  /\ main' = IF gpuFailed THEN "failed" ELSE "ok"
  /\ UNCHANGED <<pool, job, shares, stop, workers, sent>>
----------------------------------------------------------------------------
(* The main thread: run_session's loop.                                    *)

LeaveSession ==
  /\ main = "loop" /\ stop
  /\ main' = "outer"
  /\ UNCHANGED <<pool, job, shares, stop, workers, sent>>

EnterLoop ==
  /\ main = "loop" /\ ~stop
  /\ main' = "drain"
  /\ UNCHANGED <<pool, job, shares, stop, workers, sent>>

(* Mutant of ShareIsCurrent: the share has an epoch no newer than now.     *)
ShareIsNotNewer(share) == works[share.work].epoch <= activeEpoch

ShareIsCurrent(share) == works[share.work].epoch = activeEpoch

DiscardShare ==
  /\ main = "drain" /\ shares # <<>>
  /\ ~ShareIsCurrent(Head(shares))
  /\ shares' = Tail(shares)
  /\ UNCHANGED <<main, pool, job, stop, workers, sent>>

SubmitShare ==
  /\ main = "drain" /\ shares # <<>>
  /\ ShareIsCurrent(Head(shares))
  /\ shares' = Tail(shares)
  /\ sent' = sent \cup {[work |-> Head(shares).work,
                         nonce |-> Head(shares).nonce,
                         connection |-> connection]}
  /\ UNCHANGED <<main, pool, job, stop, workers>>

(* write_message fails: the share is gone and so is the session.           *)
SubmitFails ==
  /\ main = "drain" /\ shares # <<>>
  /\ ShareIsCurrent(Head(shares))
  /\ shares' = Tail(shares)
  /\ main' = "withdraw"
  /\ UNCHANGED <<pool, job, stop, workers, sent>>

(* Mutant of Drained: the socket is read before the channel is empty.      *)
DrainedEarly ==
  /\ main = "drain"
  /\ main' = "read"
  /\ UNCHANGED <<pool, job, shares, stop, workers, sent>>

Drained ==
  /\ main = "drain" /\ shares = <<>>
  /\ main' = "read"
  /\ UNCHANGED <<pool, job, shares, stop, workers, sent>>

(* The read times out, or the message is one that changes no shared state. *)
ReadNothing ==
  /\ main = "read"
  /\ main' = "loop"
  /\ UNCHANGED <<pool, job, shares, stop, workers, sent>>

(* End of stream, a bad message, a refused request, client.reconnect.      *)
SessionFails ==
  /\ main = "read"
  /\ main' = "withdraw"
  /\ UNCHANGED <<pool, job, shares, stop, workers, sent>>

(* Mutant of BeginInstall: the epoch grows only while no job is published. *)
BeginInstallSameEpoch(spec) ==
  /\ Len(works) < MaxWorks
  /\ activeEpoch' = IF current = 0 THEN activeEpoch + 1 ELSE activeEpoch
  /\ incoming' = spec
  /\ main' = "store"

(* install_work: outdate what is being mined, then publish the new Work.   *)
BeginInstall(spec) ==
  /\ Len(works) < MaxWorks
  /\ activeEpoch' = activeEpoch + 1
  /\ incoming' = spec
  /\ main' = "store"

StoreWork ==
  /\ main = "store"
  /\ works' = Append(works, Work(incoming, activeEpoch))
  /\ current' = Len(works) + 1
  /\ incoming' = None
  /\ main' = "loop"
  /\ UNCHANGED <<target, connection, activeEpoch, shares, stop, workers, sent>>

(* mining.notify: the job takes the session's target.                      *)
Notify(h) ==
  /\ main = "read" /\ target # None
  /\ BeginInstall([header |-> h, target |-> target])
  /\ UNCHANGED <<target, connection, works, current, shares, stop, workers, sent>>

(* mining.set_target and set_difficulty: the job in hand, if there is one, *)
(* is installed again under the new target.                                *)
SetTarget(t) ==
  /\ main = "read"
  /\ target' = t
  /\ \/ /\ current # 0
        /\ BeginInstall([header |-> works[current].header, target |-> t])
     \/ /\ current = 0
        /\ main' = "loop"
        /\ UNCHANGED <<incoming, activeEpoch>>
  /\ UNCHANGED <<connection, works, current, shares, stop, workers, sent>>

MainStep ==
  \/ Connect \/ ConnectFails \/ WithdrawWork \/ BumpEpoch
  \/ ShutdownWithdraw \/ ShutdownBump \/ JoinWorkers
  \/ LeaveSession \/ EnterLoop
  \/ DiscardShare \/ SubmitShare \/ SubmitFails \/ Drained
  \/ ReadNothing \/ SessionFails \/ StoreWork
  \/ \E h \in Headers : Notify(h)
  \/ \E t \in Targets : SetTarget(t)
----------------------------------------------------------------------------
(* CPU workers: worker_loop.                                               *)

others == <<main, pool, current, activeEpoch, stop, gpuFailed, gpu, sent>>

(* flush_hashes, for the pending count of one CPU worker.                  *)
Flushed(pending) == [hashes EXCEPT !.cpu = @ + pending]

(* Bound: a worker starts no iteration on a Work used up to MaxTaken.      *)
HasRoom == current # 0 => works[current].next < MaxTaken

(* Mutant of CpuExit: the worker looks at stop only while there is a job.  *)
CpuExitAtWork(w) ==
  /\ cpu[w].pc = "top" /\ stop /\ current # 0
  /\ hashes' = Flushed(cpu[w].pending)
  /\ cpu' = [cpu EXCEPT ![w].pc = "done", ![w].pending = 0]
  /\ UNCHANGED <<others, works, shares>>

CpuExit(w) ==
  /\ cpu[w].pc = "top" /\ stop
  /\ hashes' = Flushed(cpu[w].pending)
  /\ cpu' = [cpu EXCEPT ![w].pc = "done", ![w].pending = 0]
  /\ UNCHANGED <<others, works, shares>>

CpuContinue(w) ==
  /\ cpu[w].pc = "top" /\ ~stop /\ HasRoom
  /\ cpu' = [cpu EXCEPT ![w].pc = "load"]
  /\ UNCHANGED <<others, works, shares, hashes>>

CpuNoWork(w) ==
  /\ cpu[w].pc = "load" /\ current = 0
  /\ hashes' = Flushed(cpu[w].pending)
  /\ cpu' = [cpu EXCEPT ![w].pc = "top", ![w].pending = 0]
  /\ UNCHANGED <<others, works, shares>>

CpuLoad(w) ==
  /\ cpu[w].pc = "load" /\ current # 0
  /\ cpu' = [cpu EXCEPT ![w].pc = "reserve", ![w].work = current]
  /\ UNCHANGED <<others, works, shares, hashes>>

(* Mutant of CpuReserve: one nonce too few is taken from the counter.      *)
CpuReserveShort(w) ==
  LET k == cpu[w].work IN
  /\ cpu[w].pc = "reserve"
  /\ works' = [works EXCEPT ![k].next = @ + Reservation - 1]
  /\ cpu' = [cpu EXCEPT ![w].pc = "check", ![w].start = works[k].next,
                        ![w].offset = 0]
  /\ UNCHANGED <<others, shares, hashes>>

CpuReserve(w) ==
  LET k == cpu[w].work IN
  /\ cpu[w].pc = "reserve"
  /\ works' = [works EXCEPT ![k].next = @ + Reservation]
  /\ cpu' = [cpu EXCEPT ![w].pc = "check", ![w].start = works[k].next,
                        ![w].offset = 0]
  /\ UNCHANGED <<others, shares, hashes>>

(* Mutant of EndReservation: the counter is flushed and not reset.         *)
EndReservationNoReset(w, pending) ==
  /\ cpu' = [cpu EXCEPT ![w] = [IdleCpu EXCEPT !.pending = pending]]
  /\ hashes' = IF pending >= Reservation THEN Flushed(pending) ELSE hashes

(* The end of a reservation, run to its end or abandoned: the counter is   *)
(* flushed once it is worth it.                                            *)
EndReservation(w, pending) ==
  LET flush == pending >= Reservation IN
  /\ cpu' = [cpu EXCEPT ![w] =
               [IdleCpu EXCEPT !.pending = IF flush THEN 0 ELSE pending]]
  /\ hashes' = IF flush THEN Flushed(pending) ELSE hashes

(* Mutant of CpuAbandon: the inner loop goes on where it should break.     *)
CpuRetry(w) ==
  /\ cpu[w].pc = "check" /\ works[cpu[w].work].epoch # activeEpoch
  /\ cpu' = [cpu EXCEPT ![w].pending = 0]
  /\ hashes' = Flushed(cpu[w].pending)
  /\ UNCHANGED <<others, works, shares>>

CpuAbandon(w) ==
  /\ cpu[w].pc = "check" /\ works[cpu[w].work].epoch # activeEpoch
  /\ EndReservation(w, cpu[w].pending)
  /\ UNCHANGED <<others, works, shares>>

CpuStillCurrent(w) ==
  /\ cpu[w].pc = "check" /\ works[cpu[w].work].epoch = activeEpoch
  /\ cpu' = [cpu EXCEPT ![w].pc = "hash"]
  /\ UNCHANGED <<others, works, shares, hashes>>

(* One lane of a group of four: hash it and send it if it meets the target.*)
(* The epoch is looked at again only every StaleInterval nonces.           *)
CpuHash(w) ==
  LET k == cpu[w].work
      n == Nonce(cpu[w].start, cpu[w].offset)
      offset == cpu[w].offset + 1
  IN
  /\ cpu[w].pc = "hash"
  /\ works' = [works EXCEPT ![k].hashed = @ \cup {n}]
  /\ shares' = IF Solves(works[k], n)
                 THEN Append(shares, [work |-> k, nonce |-> n]) ELSE shares
  /\ \/ /\ offset < Reservation
        /\ cpu' = [cpu EXCEPT ![w] = [cpu[w] EXCEPT
             !.pc = IF offset % StaleInterval = 0 THEN "check" ELSE "hash",
             !.offset = offset, !.pending = @ + 1]]
        /\ UNCHANGED hashes
     \/ /\ offset >= Reservation
        /\ EndReservation(w, cpu[w].pending + 1)
  /\ UNCHANGED others

CpuStep(w) ==
  \/ CpuExit(w) \/ CpuContinue(w) \/ CpuNoWork(w) \/ CpuLoad(w)
  \/ CpuReserve(w) \/ CpuAbandon(w) \/ CpuStillCurrent(w) \/ CpuHash(w)
----------------------------------------------------------------------------
(* GPU workers: gpu_worker_loop over the Backend interface.                *)

rest == <<main, pool, current, activeEpoch, cpu, sent>>

GpuExit(g) ==
  /\ gpu[g].pc = "top" /\ stop
  /\ gpu' = [gpu EXCEPT ![g] = [IdleGpu EXCEPT !.pc = "done"]]
  /\ UNCHANGED <<rest, works, shares, hashes, stop, gpuFailed>>

GpuContinue(g) ==
  /\ gpu[g].pc = "top" /\ ~stop /\ HasRoom
  /\ gpu' = [gpu EXCEPT ![g].pc = "load"]
  /\ UNCHANGED <<rest, works, shares, hashes, stop, gpuFailed>>

GpuNoWork(g) ==
  /\ gpu[g].pc = "load" /\ current = 0
  /\ gpu' = [gpu EXCEPT ![g].pc = "top"]
  /\ UNCHANGED <<rest, works, shares, hashes, stop, gpuFailed>>

(* prepare_job: the backend's own form of a Work's header and target.      *)
Prepared(work) ==
  [epoch |-> work.epoch, header |-> work.header, target |-> work.target]

CachedFor(cached, work) == cached # None /\ cached.epoch = work.epoch

(* Load the Work; prepare it unless the cached job has its epoch.          *)
GpuLoad(g) ==
  LET work == works[current] IN
  /\ gpu[g].pc = "load" /\ current # 0
  /\ gpu' = [gpu EXCEPT
       ![g].pc = "reserve", ![g].work = current,
       ![g].cached = IF CachedFor(@, work) THEN @ ELSE Prepared(work)]
  /\ UNCHANGED <<rest, works, shares, hashes, stop, gpuFailed>>

GpuReserve(g) ==
  LET k == gpu[g].work IN
  /\ gpu[g].pc = "reserve"
  /\ works' = [works EXCEPT ![k].next = @ + BatchSize]
  /\ gpu' = [gpu EXCEPT ![g].pc = "mine", ![g].start = works[k].next]
  /\ UNCHANGED <<rest, shares, hashes, stop, gpuFailed>>

(* Mutant of Upload: the device keeps the first header it was given.       *)
UploadOnce(loaded, cached) ==
  IF loaded # None
    THEN loaded
    ELSE [epoch |-> cached.epoch, header |-> cached.header]

(* Backend::mine uploads the prepared header only when the device holds    *)
(* another generation, and searches what the device holds.                 *)
Upload(loaded, cached) ==
  IF loaded # None /\ loaded.epoch = cached.epoch
    THEN loaded
    ELSE [epoch |-> cached.epoch, header |-> cached.header]

(* What a kernel reports: it compares only the first 64 bits of a digest.  *)
Candidates(header, t, batch) ==
  {n \in batch : Prefix(Digest(header, n)) <= Prefix(t)}

GpuMine(g) ==
  LET k == gpu[g].work
      batch == Batch(gpu[g].start)
      loaded == Upload(gpu[g].loaded, gpu[g].cached)
  IN
  /\ gpu[g].pc = "mine"
  /\ gpu' = [gpu EXCEPT
       ![g].pc = "check", ![g].loaded = loaded,
       ![g].wins = Candidates(loaded.header, gpu[g].cached.target, batch)]
  /\ hashes' = [hashes EXCEPT !.gpu = @ + BatchSize]
  /\ works' = [works EXCEPT ![k].hashed = @ \cup batch]
  /\ UNCHANGED <<rest, shares, stop, gpuFailed>>

(* The batch is over: nothing is kept but the cached job.                  *)
GpuDone(g) ==
  gpu' = [gpu EXCEPT ![g].pc = "top", ![g].work = 0, ![g].start = 0,
                     ![g].wins = {}]

GpuOutdated(g) ==
  /\ gpu[g].pc = "check" /\ works[gpu[g].work].epoch # activeEpoch
  /\ GpuDone(g)
  /\ UNCHANGED <<rest, works, shares, hashes, stop, gpuFailed>>

GpuStillCurrent(g) ==
  /\ gpu[g].pc = "check" /\ works[gpu[g].work].epoch = activeEpoch
  /\ gpu' = [gpu EXCEPT ![g].pc = "send"]
  /\ UNCHANGED <<rest, works, shares, hashes, stop, gpuFailed>>

(* Each candidate is hashed again on the host against the loaded Work.     *)
GpuSend(g, n) ==
  LET k == gpu[g].work IN
  /\ gpu[g].pc = "send" /\ n \in gpu[g].wins
  /\ shares' = IF Solves(works[k], n)
                 THEN Append(shares, [work |-> k, nonce |-> n]) ELSE shares
  /\ gpu' = [gpu EXCEPT ![g].wins = @ \ {n}]
  /\ UNCHANGED <<rest, works, hashes, stop, gpuFailed>>

(* Mutant of GpuSent: the worker goes on with candidates left over.        *)
GpuSentEarly(g) ==
  /\ gpu[g].pc = "send"
  /\ GpuDone(g)
  /\ UNCHANGED <<rest, works, shares, hashes, stop, gpuFailed>>

GpuSent(g) ==
  /\ gpu[g].pc = "send" /\ gpu[g].wins = {}
  /\ GpuDone(g)
  /\ UNCHANGED <<rest, works, shares, hashes, stop, gpuFailed>>

(* prepare_job or mine fails (an overflowing result buffer included): the  *)
(* thread raises gpu_failed, and stop after it, and ends.                  *)
GpuFails(g) ==
  /\ \/ gpu[g].pc = "mine"
     \/ /\ gpu[g].pc = "load" /\ current # 0
        /\ ~CachedFor(gpu[g].cached, works[current])
  /\ gpuFailed' = TRUE
  /\ gpu' = [gpu EXCEPT ![g] = [IdleGpu EXCEPT !.pc = "failing"]]
  /\ UNCHANGED <<rest, works, shares, hashes, stop>>

(* Mutant of GpuStops: the failure is recorded, stop is not raised.        *)
GpuLeaves(g) ==
  /\ gpu[g].pc = "failing"
  /\ gpu' = [gpu EXCEPT ![g].pc = "done"]
  /\ UNCHANGED <<rest, works, shares, hashes, gpuFailed, stop>>

GpuStops(g) ==
  /\ gpu[g].pc = "failing"
  /\ stop' = TRUE
  /\ gpu' = [gpu EXCEPT ![g].pc = "done"]
  /\ UNCHANGED <<rest, works, shares, hashes, gpuFailed>>

GpuStep(g) ==
  \/ GpuExit(g) \/ GpuContinue(g) \/ GpuNoWork(g) \/ GpuLoad(g)
  \/ GpuReserve(g) \/ GpuMine(g) \/ GpuOutdated(g) \/ GpuStillCurrent(g)
  \/ GpuSent(g) \/ GpuFails(g) \/ GpuStops(g)
  \/ \E n \in Nonces : GpuSend(g, n)
----------------------------------------------------------------------------
(* The Ctrl-C handler.                                                     *)
Interrupt ==
  /\ ~stop
  /\ stop' = TRUE
  /\ UNCHANGED <<main, pool, job, shares, workers, sent>>

(* run has returned.                                                       *)
Terminated ==
  /\ main \in {"ok", "failed"}
  /\ UNCHANGED vars

Next ==
  \/ MainStep
  \/ \E w \in CpuWorkers : CpuStep(w)
  \/ \E g \in GpuWorkers : GpuStep(g)
  \/ Interrupt
  \/ Terminated

Spec == Init /\ [][Next]_vars

(* Every thread keeps being scheduled; reads, writes, connection attempts  *)
(* and kernels all return, by their timeouts or by themselves.  Nobody has *)
(* to press Ctrl-C and the pool has to do nothing.                         *)
Fairness ==
  /\ WF_vars(MainStep)
  /\ \A w \in CpuWorkers : WF_vars(CpuStep(w))
  /\ \A g \in GpuWorkers : WF_vars(GpuStep(g))

FairSpec == Spec /\ Fairness
=============================================================================
