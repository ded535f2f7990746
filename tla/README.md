# A formal model of blake2b-miner

blake2b-miner is a Stratum miner for the DATUM BIP-110 dialect.  One main thread
talks to a pool over TCP; CPU and GPU worker threads search the nonces of the
job the pool sent last, and the shares they find travel back to the pool.  The
repository also holds the GPU kernels (OpenCL, CUDA, Metal), a kernel tuner with
a cache on disk, and StartOS packages, one of which guards the boot of a mempool
backend.

This directory holds TLA+ modules of the parts whose behaviour depends on
interleaving, order, failure or restart, configurations that model-check them
with TLC, and proofs that TLAPS checks.  Line numbers refer to the Rust crate
(`src/` of the repository), `native/` and `startos/`.

## Inventory

| component | state | operations | talks to | what is hard |
|---|---|---|---|---|
| Miner threads (`miner.rs`) | `SharedState`: published `Work`, active epoch, stop and GPU-failure flags, hash counters; the nonce counter of each `Work`; the share channel; each worker's locals | `run`, `spawn_workers`, `worker_loop`, `gpu_worker_loop`, `install_work`, `flush_hashes`, the drain loop of `run_session` | workers and main meet in atomics, an `ArcSwapOption` and a channel | epoch and `Work` are two cells, written one after the other; shares outlive jobs and connections; nonce counters wrap; GPU failure, Ctrl-C and shutdown race |
| Pool session (`miner.rs`, `protocol.rs`) | `SessionState` (target, extranonces), request ids, verdict counters, best share | `run_session`, `handle_message`, `observe_share`, `parse_job`, `submission` | TCP stream to the pool | the pool orders targets and jobs as it likes; a 25 ms read timeout tears lines; retargets copy jobs |
| Pool connection, SOCKS5 (`miner.rs`) | the socket, what is left of the address list | `connect`, `resolve`, `connect_addresses`, `negotiate_socks5`, the first two requests | resolver, proxy, pool | several addresses, replies in pieces of any size, timeouts; the stream must be handed over at the pool's first byte |
| GPU backends (`gpu/*.rs`) | prepared jobs with generations, loaded generation, device buffers, command queue | `backends`, `resolve_backend`, `selected_indices`, each backend's `new` and release, `prepare_job`, `mine`, `list_devices` | worker thread, driver, device | asynchronous queue, bounded result buffer, jobs freed under the device; devices that fail one after the other while coming up |
| Kernels (`blake2b_tuned.cl`, `blake2b.metal`, `native/cuda_runtime.cu`) | two counters, result buffer | one work item per group of nonces | host | items run concurrently and share one counter; grid is rounded up |
| Kernel tuner and cache (`gpu/opencl.rs`, `gpu/metal.rs`) | cache file | load, measure, save | other miner processes | concurrent writers, crash between write and rename |
| Hashing (`hash.rs`), targets (`target.rs`) | none | Blake2b, header and Merkle root; compact and decimal targets | session, workers | 64-bit arithmetic, 256-bit bounds |
| Configuration (`config.rs`, `main.rs`) | none | command line and YAML file to `Config` | start-up | precedence, and checks that must cover what CUDA, Metal and OpenCL check again later, or do not |
| Boot guard (`startos/mempool-guide/startos/main.ts`) | sentinel file, cache directory, `bootSentinelCleared` | guard script, api health check | StartOS, the backend | the sentinel must survive a crash and not a healthy boot; stops at any moment |
| Other StartOS packages, build script | - | - | - | declarative, not modelled |

What each must get right is written beside each property in the modules and
summarised under "Runs".

## Modules

| module | what it is |
|---|---|
| `ShareSubmission` | abstract promise to the pool: a share is submitted only while the job it solves is held |
| `Miner` | the threads of `miner.rs`, one action per access to shared state |
| `MinerProperties` | types, invariants, refinement mapping, liveness |
| `MCMiner` | instances for TLC |
| `MinerProofs` | its proofs: types, epochs and pools; GPU jobs and the refinement; nonce ranges, solutions and the exit status |
| `Session` | the main thread's dialogue with the pool; pool and stream external |
| `SessionProperties`, `MCSession`, `SessionProofs` | its properties, instances and proofs |
| `BatchSearch` | abstract promise of `Backend::mine`: all candidates of the batch, each once, or an error |
| `Kernel` | the work items of a launch, their counters and the bounded buffer |
| `KernelProperties`, `KernelProofs` | what is true of work items and their claims whichever host waits for them, and its proofs |
| `OpenClBatch` | `OpenClBackend::mine`: host, in-order queue and device around `Kernel` |
| `OpenClProperties`, `MCOpenClBatch`, `OpenClProofs` | its properties, instance and proofs |
| `BlockingBatch` | `CudaBackend::mine` and `MetalBackend::mine` around `Kernel`: the hosts that wait at every step |
| `BlockingProperties`, `MCBlockingBatch`, `BlockingProofs` | its properties, instance and proofs |
| `Words`, `Rotations`, `Blake2b` | 64-bit words as limbs; the ways to rotate them; BLAKE2b-256 of `hash.rs` |
| `Kernels`, `Hashing` | the twelve different variants of the kernels and of `hash.rs`'s lanes; their rounds beside those of `blake2b256` |
| `Target` | the three ways a pool writes a target, over a width of any size |
| `HashProperties`, `MCHash`, `HashProofs` | properties and instance of the hashes and of `Target`, with BLAKE2b as RFC 7693 defines it; the proofs |
| `TuningCache` | how a backend finds its kernel, and the cache file that processes share |
| `TuningProperties`, `MCTuningCache`, `TuningProofs` | its properties, instance and proofs |
| `Config` | `load` and what it calls, as operators |
| `Devices` | the process up to its GPU backends, and how it ends |
| `Dial` | how the main thread reaches its pool, directly or through a proxy |
| `Startup` | `Devices` and `Dial` composed, from the first step of the process to its exit |
| `StartupProperties`, `MCStartup` | its properties and instance |
| `BootGuard` | the boot guard with its properties |
| `StartupProofs` | proofs about `Startup` and `BootGuard` |

How they compose: `Miner` keeps of the session only what reaches shared state (a
target, jobs, connections that may fail at any read or write) and of a GPU batch
its result; `Session` keeps of the workers only that shares for any `Work` may
come at any time.  `OpenClBatch` and `BlockingBatch` refine the one step
`GpuMine`: both implement `BatchSearch`, whose uninterpreted `Prefix` is what
`Kernels` computes for each variant, and `TuningCache` says which variant that is.
Both take the work items from `Kernel`, and their invariants and proofs share
`KernelProperties` and `KernelProofs`.  `Startup` interleaves the steps of `Devices`
and of `Dial` as `run` does: devices first, then one dial after the other with the
endpoints `load` made.  Where it is `running` the threads are `Miner`, and where a
dial is `connected` the dialogue is `Session`.

### Correspondence

**Miner.** `main` is the program counter of the main thread: `outer` is the
reconnect loop of `run`, `loop`/`drain`/`read` are the stages of `run_session`'s
loop, `store` lies between the two writes of `install_work`, `withdraw` and
`bump` are the two writes after a session failed, `shutdown` and `join` the end
of `run`.  `works` holds every `Work` ever allocated, an `Arc<Work>` is an index
into it and `current` the `ArcSwapOption`.  A worker's record is its locals.
Each action is one access to shared state with the local code around it, so TLC
interleaves threads wherever the program can.  The relaxed loads of the code can
only return an older epoch or flag; a thread that reads an older value is the
same thread reading earlier, so sequential consistency loses no behaviour of a
single cell, and the pairs that must not be reordered (epoch before `Work`, GPU
failure before stop) are ordered by release stores.  `hashed`, `connection` and
`sent` are history variables.

**Session.** `asked` and `said` are the two directions of the stream; the pool
answers in order and may send targets and jobs at any time.  `torn` says that
the read timeout discarded the first part of a line: the rest does not parse and
ends the session.  "The epoch of the share is active" is modelled as "its Work is
`current`", which `EpochNamesOneWork` of `Miner` justifies.

**Kernel and OpenClBatch.** A work item skips a nonce, claims a slot (the atomic
increment) or stores what it claimed (or counts an overflow).  The host enqueues
upload, counter fill, kernel and summary read, blocks, checks, and reads the
results; the device takes one command at a time.  After a failed call the
prepared job may be gone while an upload is still queued: the words are then
arbitrary.  The counters have 32 bits and cannot wrap, as a batch's size has 32
bits too.

**BlockingBatch.** `api` tells CUDA from Metal.  CUDA copies parameters, clears
the summary and sets its generation, launches and synchronizes, reads the summary
and then as much of the buffer as it says; Metal writes job and counter into
shared memory, waits, and reads the buffer only after the check.  Metal's items do
not count overflows, and its grid is not rounded up.  Any step may fail.

**Words, Rotations, Blake2b, Kernels, Hashing.** A word is a tuple of four limbs of 16 bits,
since TLC's integers have 32; half a word, which the split rotations work on, is
two limbs.  The bits of two bytes are compared one by one in `And`, from which the
other operators on words follow.  `Blake2b` is `hash.rs`'s `blake2b256` with `compress` and `g`.  A
variant of `Kernels` is a record of what the hand-written kernels differ in: their
rows of message words, the way they rotate and swap bytes, and their first
working vector.  `Hashing` runs one round of a variant beside each round of
`blake2b256`.  The unrolled schedules of the three kernel files and of the NEON
code are one table, `Scalar`; in the files they are the same text.  Lanes do not
interact but in the comparison, so a lane is modelled, with the nonce it has.

**TuningCache.** `at` is a process's place in `choose_kernel` or
`choose_pipeline`; `ReadAgain`, `Truncate`, `Write` and `Rename` are
`write_cached_selection`, `seen` is a history variable.  Kernels, widths and group
sizes are abstract selections; whether one compiles, fits the device and passes
validation is a function of the device, and times are left out: any candidate may
be the fastest.  A process may die at any step, and its id, hence the name of its
temporary file, may come back.  Nothing is synchronized: `disk` is the cache as it last
reached the disk (`ReachDisk`), and a power failure leaves that version, which may be
an older one, or nothing readable.  The cache was written by versions of this code
only, so its list has one entry for a key (`CacheInv`), and the order of the list,
which decides between two, is left out.

**Target.** A target is the number that its bytes are read as.  `FromHex`,
`FromCompact` and `FromDifficulty` are the three parsers with their errors; width,
bytes and the 32-bit exponent have their sizes as constants.  `Kernels` and `Miner`
compare digests with targets; that a parsed target is the one meant is checked here.
`Unsigned`, `Parses` and `Parsed` are `BigUint::parse_bytes`, which takes a leading `+`
and passes over `_`: characters are digits, those two, and junk.

**Config, Devices.** A command line and a file are records of options, taken apart;
`Loads` is every error of `load`, `Merged` the precedence, option by option.  Drivers
are external: they may report another number of devices at each enumeration, and any
call may fail.  A backend acquires its parts one by one.  CUDA's are released by hand,
in `blake2b_cuda_miner_create` when that fails and by `Drop` later; OpenCL's and
Metal's handles release themselves.  `lost` records what nobody released,
`unchecked` what the file said that `load` does not look at.  A GPU worker that fails
or sees `stop` drops its backend while `run` may still be in its loop (`WorkerEnds`).

**Dial.** `addresses` is what the iterator of `connect_addresses` holds, `stream`
the socket with the bytes on their way in it, `need` and `got` a `read_exact`
in progress.  The proxy's replies are bytes and arrive in pieces; a reply that
opens the tunnel is followed by the pool's own bytes, so reading too much or too
little of it shows.  `stream.leads` is whom the other end talks for: a proxy that
was told a wrong length of a name reaches nobody.

**BootGuard.** One action per command of the guard script and per await of the
health check; the cache is empty, good, or one that kills the backend on load.
Commands may fail: the script has no `set -e` and its `rm -rf ... || true` goes on
when the removal fails wholly or partly (`FailDrop`), a sentinel that stays is found
by `ls -A` (`FailRemoveSentinel`), and a `:` that cannot be redirected ends the shell
before `exec` (`FailMark`).
StartOS is external: it starts and stops the service at any moment and restarts
a daemon under a running `main`, as `main.ts:343-344` describes.

## Runs

| run | instance | shows |
|---|---|---|
| `miner_core` | 1 CPU and 1 GPU worker, 2 connections, 2 Works of 2 headers, 2 nonces, batches of 2 | shares go to the pool whose job they solve; an epoch names one Work; no solution of the job in hand is lost; the exit status tells a GPU failure; a batch searched with a job prepared or uploaded earlier finds every solution of its Work; `Miner` implements `ShareSubmission` |
| `miner_live` | 1 + 1 workers, 2 connections, 1 Work, 3 nonces that wrap, reservations of 2 | the inductive invariant; reserved ranges are disjoint; hash counters account for every hash; stop and GPU failure end `run`; stale Works are left; shares reach the pool |
| `miner_retarget` | 1 connection, 2 Works | violation, see Findings |
| `session_pool` | a coinbase and a direct job, 2 targets, 2 connections, 3 notices, 2 shares, ids 3..4 | the job in hand has the target in force; the pool can rebuild each submitted header; jobs of a connection differ; the best share is the best; every verdict is counted once or on its way; the inductive invariant |
| `session_candidates` | 1 connection, 3 notices, 2 shares | violation, see Findings |
| `opencl_batch` | batch of 3, items of 2 nonces rounded up to 3 items, 2 slots, 4 nonces, 3 jobs, 3 calls | the inductive invariant: no candidate is lost or doubled; an upload ends before its words may be freed; `OpenClBatch` implements `BatchSearch`: a call returns exactly its batch's candidates or fails |
| `blocking_batch` | CUDA and Metal, the same batch and jobs, 3 calls | the inductive invariant, with a summary that is always this call's; `BlockingBatch` implements `BatchSearch` |
| `hash_kernels` | 2 headers, 4 nonces of which some wrap, 12 variants; 5 other inputs of 0 to 256 bytes; targets of 3 bytes of 16 values in all notations | digests are the standard's; every variant computes the same rounds; each takes what `Target::accepts` takes at the digest and next to it in every word; a target means what its digits say, exactly, and a text with junk, without a digit, too long for a target or negative is refused |
| `tuning_cache` | 2 processes (symmetric), 3 starts, a good device and one where the legacy kernel is wrong, 2 requests, 1 power failure | entries are validated and unique; a backend mines with a kernel that works; a readable cache never becomes unreadable; a save loses no key it has read |
| `startup` | one option on the line and one in the file, 3 builds, up to 2 devices, 2 addresses of pool and proxy, 8 replies of a proxy, 2 bytes of the pool | what `load` lets pass can be launched; backends come up all or none and are released; the stream of a session begins at the pool's first byte; with a proxy nothing goes past it; a dial ends |
| `boot_guard` | 2 failing commands, 2 crashes | a healthy first boot keeps the cache; the boot loop ends; the sentinel of a healthy first boot goes although its removal may fail |
| `boot_guard_restart` | no failing command, 1 crash | violation, see Findings |

Why the bounds are enough.  Two Works and two connections let a share, a cached
GPU job and a reservation each outlive its job and its connection; where they have
two headers, a wrongly reused job or upload shows in the nonces found.  Nonce spaces are small enough
for counters to wrap; a CPU and a GPU worker contend for one counter.  Request
ids wrap after two shares.  Three notices order a target, a job and a retarget in
every way and over a reconnect.  In the batch, the last item is beyond the batch,
one job has more candidates than slots, two jobs share a header but not a target,
and the third call follows one whose buffer and counters are dirty.  The hash has
no bound but its inputs: a fault of a schedule, a rotation or a constant shows in
the first block it touches, and the comparison's edges are reached by targets built
from each digest.  Base and width are parameters of `Target`'s
arithmetic, whose shifts, roundings, overflows and saturation all occur at three
bytes, with an exponent beyond them.  In `startup` each check of `load` meets values on both sides of it and
each precedence a line, a file or a URL alone; two devices let one fail after another
came up, two addresses let one fail after a dialogue with the other, and the
replies end in addresses of every type, in errors at each byte of the head, and in
a tunnel.  With two processes and three starts a save meets another save,
a death and a process that reads.  Bounds are
the constants named `Max...` (and `NonceSpace`, `IdSpace` for widths); each is a
guard of the action it limits.

### Fairness

`Miner!FairSpec` assumes that every thread keeps being scheduled and that reads,
writes, connection attempts and kernels return: the sockets have timeouts, and
a GPU call ends or fails.  A pool that dribbles bytes without ever ending a line
could keep `read_line` from returning; that case is outside the assumption.
Nobody has to press Ctrl-C, and the pool has to send nothing.
`BootGuard!GuardFairSpec` assumes that StartOS restarts daemons and polls the health
check while `main` runs and that the backend, once started, either listens or
dies.  It does not assume that `rm` works: `BootLoopEnds` holds although commands of
the script fail, as the next boot finds the sentinel and tries again, but there are
at most `MaxFailures` of them.  On a disk where the removal fails at every boot
(`main.ts:34`) the loop does not end; that is outside the model's bound.
`Startup!FairSpec` assumes that the main thread takes the steps of `connect`
that it can: the proxy's stream has timeouts of ten seconds, `connect_timeout` is
given the same, and a lookup returns.  Neither the proxy nor the pool has to send
anything.  The other specifications state no fairness and are checked for safety.

## Proofs

All proofs hold for every value of the constants that the `ASSUME` of the module
allows; TLC evaluates those assumptions in every run.

- **Miner.** `TypeOK` first, one lemma per action.  `MinerInv` then adds
  `EpochInv` (epochs grow with the index of the Work; while the main thread is
  not between its two writes, an active epoch is that of the published Work, of
  the present connection), `GpuHoldsWorks` (prepared and loaded jobs are of Works
  of this miner, and of the right one during a batch), `SharesSolve`,
  `OffsetsInside` and `RangesReserved` (as long as its counter has not wrapped, a
  Work's counter has passed all that was hashed for it and all that its workers
  still have ahead, and these ranges are disjoint), and `DoneFlushed`.
  Uniqueness of epochs alone is not inductive: it needs the order of the two
  writes, which `ActiveIsPublished` records for each place of the main thread.
  Nor is `RangesDisjoint`: a worker could reserve what another has hashed already.
  From the invariant follow `SubmittedToItsPool`, `EpochNamesOneWork`,
  `GpuSearchesItsWork`, `RangesDisjoint` and `ExitTellsFailure`; `EverySolutionKept`
  is inductive beside it; so is `HashesAccounted`, a statement about the sizes of two
  sets, of which each step moves as many elements as it counts (`PendingChanges`,
  `HashedGrows`): that a nonce about to be hashed is in neither follows from
  `RangesReserved`.  Then the refinement: initial states map to initial
  states, `SubmitShare` to a submission, the writes of epoch and Work to taking
  or dropping the job, everything else to a stutter.
- **Session.** `SessionInv`: types, `HeldUnderTarget`, `WorksRebuild` (what the
  header of each Work was built from, which a retarget copies), whose session the
  extranonces are, what submissions and the best share say, and `ExtraNoncesTaken`:
  the extranonces of this connection's Works are behind the session's next one.
  From the last follows `JobsDiffer`, which alone is not inductive.  `AnswersKnown`,
  that an id tells a share's answer from the others' although ids wrap, is what
  `VerdictsCounted` needs: both sides change by one for the same answers.
- **Batches.** What both hosts need of the kernel is proved once, in `KernelProofs`:
  whatever an item does, the claims since the counters were cleared stay distinct
  candidates, each held by its item or stored (`ClaimsAre`), everything passed is
  claimed (`ClaimsFollow`), and when all items have ended every candidate of
  the batch is (`AllClaimed`).  `OpenClProofs` adds the queue: `QueueInv` ties the
  host's place to what is queued and counts the commands the device has done, so
  that claims are known to belong to this batch.  `BlockingProofs` adds what the
  host knows at each wait: the device's job and start are this call's
  (`DeviceInv`), and the summary and buffer it read are those the kernel left
  (`SummaryInv`).  From `BatchInv` and `BlockingInv` follow, in both, `SearchIsExact`
  (the refinement of `BatchSearch`), and `UploadEndsFirst`.
- **Start-up.** `StartupInv` and beside it `StreamInv`, for any command lines, files,
  builds, drivers, resolvers and proxies.  `SettingsLaunchable` needs no invariant: only
  `Load` enters `loaded`, so it is what `Sound` implies.  `AllOrNothing` is not
  inductive: `OpeningInv` adds that while backends are made all but the newest are
  complete, and that backends and what is left to open are the chosen devices in
  order (`InOrder`).  `FailsClosed` follows from `AddressesInv`: a dial knows one host,
  and addresses of one lookup of it.  `StreamIsThePools` needs that each byte read and
  each byte on the wire stands where the reply followed by the pool's bytes has it
  (`Receives`), at the head, the length and the rest alike: then the end of the last
  read is the end of the reply, whatever its length and its pieces.  Assumed are a
  greeting reply of two bytes, and that a reply which opens the tunnel is as long as
  its own type and length say (`IsWhole`).
- **Tuning cache.** `TuningInv`: `CacheInv`, `StartedKernelsWork`, and `SaveInv`, that
  what a process is about to write is what it has read with its own selection in it.
  From it follow the action properties `CacheStaysReadable` and `SavesAreUpdates`.
- **Hashes.** For any headers of 80 bytes and any nonces. The ways to rotate, by two
  shifts, in halves, with `__byte_perm` or with NEON's instructions, agree at the
  four distances (`EveryWayRotates`), so a kernel's `G` is that of `blake2b256`.
  `Scalar` names the zero word where `SIGMA` names one of the words 10 to 15, and
  these are 0 in the message of a header (`MessageAgrees`), so their rounds are
  alike, column by column (`MixedInTurn`); `RoundInTwo` splits the first for the
  precomputed one, whose columns do not hold the nonce, and `StartIsLiteral` ties
  the literals in the kernels to `Start`. `InStep` is the inductive invariant: at
  each place of `compress` it says what both sides hold. From it follows
  `RoundsAgree`. For `TakesSolutions`, the masks swap bytes as `swap_bytes` does
  (`SwapIs`), two words differ first in a byte and are ordered by it (`WordsDiffer`,
  `LessFirst`), and so are two digests (`AcceptsFirst`): comparing words with masks,
  or arrays, is comparing bytes. `EveryTargetTaken` says so of every target, of
  which the run checks those about each digest.  `HashIsBlake2b` compares the loop of
  `blake2b256`, which looks only at how much is left, with `Blake2b256`, which cuts
  the whole input first: `InBlocks` says which block a place of the loop is at, what
  is chained and what the rounds so far made of it.  It holds for inputs of any length
  below 2^16 bytes, where the model's count ends.  That the numbers in `IV` and
  `SIGMA` are the standard's no proof can say: `KnownAssumption` states that the
  definition gives the digests other implementations give, TLC evaluates it, and
  `DigestsKnown` follows.
  `TakenAreSolutions` puts the three together: digits of the same length are ordered
  as their values (`OrderedByValue`, by the first that differs), so `accepts` compares
  numbers, and what a kernel takes is exactly the nonces whose header hashes to a
  number that is at most the target, or, on a GPU, the target with ones behind its
  first word.
- **Targets.** For any base, width, integer size and any text. Powers and the value of
  digits are recursive functions, so first each is shown to exist and to be the only
  one (`PowerIs`, `ValueIs`, `ValueBy`), by the induction that is left without the
  library's: a set of naturals has a least element (`LeastOf`, `UpTo`).  Then division
  and value are inverse: the first digits are the quotient by a power
  (`ValueOfFirst`), and writing a number digit by digit and reading it loses nothing
  (`ValueOfWritten`), which is `HexExact`.  `CompactExact` is that shifting right or
  left rounds `mantissa * 256^(exponent - 3)` down (`ShiftedIs`); `DifficultyExact`
  that, on each side of 0 and of the number of decimals, the ratio calculated is the
  one written but for a common factor (`RatioIs`), which rounding does not see.
  The same induction gives the value of a text with `+` and `_` (`ParsedIs`), which for
  plain digits is that of the digits; `JunkRefused` follows from what `Parses` asks of
  any text.  What a `+` or `_` among the digits means is not part of `DifficultyExact`.
  `TextAssumption` says only that texts are sequences of digits, junk and, in decimals,
  those two characters.  That the parsers' `hex::decode` and `BigUint` calculate values
  is the model's reading of them, not proved.
- **Boot guard.** `GuardInv`, and from it `FirstBootKeepsCache`.

Only model-checked: liveness (`StopEndsRun`, `FailureEndsRun`,
`StaleWorkAbandoned`, `SharesReachPool`, `BootLoopEnds`, `HealthyBootIsUnmarked`,
`DialEnds`), which is beyond the prover. Every safety property of a passing run is
stated by a theorem.

## Findings

- `miner_retarget`: `README.md:6` says workers reserve disjoint ranges of a job.
  A retarget (`miner.rs:582`) installs the same header again with a fresh nonce
  counter, so the job's nonces are hashed a second time and a share may be
  submitted twice.
- `session_candidates`: `README.md:148` promises a BLOCK CANDIDATE message for a
  hash that meets the network target.  A share found just before a retarget is
  dropped at `miner.rs:436` as stale although its job is still in hand.
- `boot_guard_restart`: `main.ts:21` says a sentinel that is still present means
  the previous start never became healthy.  `bootSentinelCleared` is not reset when
  a daemon is restarted under the same `main`, so a later healthy boot keeps its
  sentinel and the next start drops a good cache.

Other disagreements and limits are in the models as the code has them, without a run:

- `README.md:59` says that the Metal backend validates and profiles its
  candidates.  With no kernel requested, `metal.rs:506` also compiles and measures the
  legacy selection and keeps it when the winner is not a hundredth faster, although
  it may be one that was just rejected for wrong results.  `Trusted` in
  `TuningProperties` names this exception; Metal validates the selection when it comes
  from the cache.
- `README.md:160` lists GPUs "without loading the Stratum configuration".
  `--list-devices` goes through `load` like everything else, and an unreadable file, a
  wrong URL or a wrong proxy ends it (`Loads`).
- A YAML list of devices may name one twice (`config.rs:142`, where text is checked
  at `config.rs:118`), and a file may ask for 0 nonces per OpenCL item
  (`config.rs:423`), which divides by zero at the first launch (`opencl.rs:258`).
  `SettingsLaunchable` names both exceptions.
- A host that is an IPv6 literal keeps its brackets, so it never parses as an
  address: without a proxy its lookup fails, with one it is sent as a name.
  The branch of type 4 in the request is not reached by a URL.
- The scale of a decimal difficulty is a difference of 32-bit integers
  (`target.rs:136`) and wraps for the largest exponents; `DifficultyExact` leaves
  those out.
- `BigUint::parse_bytes` takes one leading `+` and passes over `_` behind a digit, while
  `target.rs:136` counts every character of the fraction: "1.5_0" is read as 0.150 and
  ".+5" as 0.05 (`Parsed`, `Scale`).  `DifficultyExact` speaks of plain digits, and of
  such texts only as far as they hold junk or no digit.
- `read_line` returns at a newline, an error or 25 ms of silence (`miner.rs:450`); a
  pool that keeps sending without a newline keeps the main thread from looking
  at shares and at stop.  `Miner!FairSpec` assumes it does not.

## Plan

Done: start-up with configuration and devices, the connection and SOCKS5, the
miner's threads, the session, the three backends, the kernels and hashes, targets,
the tuning cache and the boot guard; the proofs above.  What is left:

1. A larger `startup`: two dials in one run do not differ from one, as a dial
   starts from nothing, but a second option on the line would let checks meet.
2. A fairness of the peer under which `read_line` returns, to state when stop is
   seen by a session whose pool never ends its line.

Not modelled:

- a panic of a worker: release builds abort on panic, which ends the process at
  once and leaves nothing to go wrong between the threads;
- the failure of `thread::spawn`, and the benchmark's own loop, which measures;
- the two difficulties in floating point, the statistics and log output;
- the free-standing buffers of `cuda.rs`, which only tests allocate;
- the choice of kernels and tuning modes and the two delays in `Config`: `load`
  passes them on unseen (`TuningCache` takes every request);
- hash values in `Miner`, `Session` and the batches (uninterpreted functions there)
  and the times the tuner measures (any valid candidate may win);
- the build script, and the StartOS manifests, actions and interfaces, which are
  declarative.
