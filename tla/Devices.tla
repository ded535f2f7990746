------------------------------ MODULE Devices ------------------------------
(***************************************************************************)
(* The start of the process up to its GPU backends, and their end: main,   *)
(* the beginning and end of run (src/miner.rs), backends, resolve_backend  *)
(* and selected_indices (src/gpu/mod.rs), and how the backends acquire and *)
(* release what they hold: CudaBackend::new with its Drop implementations  *)
(* (src/gpu/cuda.rs, native/cuda_runtime.cu), OpenClBackend::new and       *)
(* MetalBackend::new.                                                      *)
(*                                                                         *)
(* The drivers are external: they may report another number of devices at  *)
(* every enumeration, and any call to them may fail.                       *)
(***************************************************************************)
EXTENDS Config, FiniteSets

CONSTANTS
  Lines, Files,  \* command lines and YAML files
  Builds,        \* [macos, cuda, opencl]: what the program was built for
  MaxDevices     \* bound: devices a driver reports

ASSUME DevicesAssumption ==
  /\ MaxDevices \in Nat
  /\ \A line \in Lines : LineTypeOK(line)
  /\ \A file \in Files : FileTypeOK(file)

VARIABLES
  start,     \* where the process is
  build,     \* how the program was built
  config,    \* what load made of line and file, or None
  unchecked, \* history: the file chose devices by a list, or OpenCL's width
  api,       \* the backend in use
  left,      \* indices of devices still to be opened
  backends,  \* opened so far: [index, parts]; the last may be incomplete
  lost       \* history: parts that were dropped but not released

input == <<build, config, unchecked>>
devicesVars == <<start, input, api, left, backends, lost>>

DevicesInit ==
  /\ start = "load" /\ build \in Builds
  /\ config = None /\ unchecked = {}
  /\ api = None /\ left = <<>> /\ backends = <<>> /\ lost = {}
----------------------------------------------------------------------------
(* What the file says where nothing on the line overrides it and load does *)
(* not look: a list of devices, and the nonces of an OpenCL item.          *)
Unchecked(line, file) ==
  {o \in {"gpu_devices", "opencl_nonces_per_item"} :
     /\ line[o] = None /\ file[o] # None
     /\ o = "gpu_devices" => file.gpu_devices.kind = "list"}

Load ==
  /\ start = "load"
  /\ \E line \in Lines, file \in Files :
       IF LineParses(line) /\ Loads(line, file)
         THEN /\ start' = "loaded" /\ config' = Merged(line, file)
              /\ unchecked' = Unchecked(line, file)
         ELSE start' = "failed" /\ UNCHANGED <<config, unchecked>>
  /\ UNCHANGED <<build, api, left, backends, lost>>

(* run's handlers of Ctrl-C and of the statistics signal.                  *)
NoHandlers ==
  /\ start = "loaded" /\ ~config.list_devices /\ ~config.benchmark
  /\ start' = "failed"
  /\ UNCHANGED <<input, api, left, backends, lost>>

UsesGpu == config.device \in {"gpu", "both"}

NoGpu ==
  /\ start = "loaded" /\ ~config.list_devices /\ ~UsesGpu
  /\ start' = "opened"
  /\ UNCHANGED <<input, api, left, backends, lost>>
----------------------------------------------------------------------------
(* resolve_backend: a driver that is not built in reports an error.        *)
Built(kind) ==
  CASE kind = "metal"  -> build.macos
    [] kind = "cuda"   -> build.cuda
    [] kind = "opencl" -> build.opencl

Reported(kind) == IF Built(kind) THEN 0 .. MaxDevices ELSE {}

Automatic ==
  IF build.macos THEN {"metal"} ELSE {k \in {"cuda", "opencl"} : Built(k)}

ResolveBackend ==
  /\ start = "loaded" /\ (config.list_devices \/ UsesGpu)
  /\ \/ /\ api' \in IF config.gpu_backend = "auto" THEN Automatic
                    ELSE {config.gpu_backend}
        /\ start' = "resolved"
     \/ /\ config.gpu_backend = "auto" /\ ~build.macos
        /\ start' = "failed" /\ UNCHANGED api
  /\ UNCHANGED <<input, left, backends, lost>>

(* list_devices: an enumeration, and the process ends.                     *)
ListDevices ==
  /\ start = "resolved" /\ config.list_devices
  /\ \/ start' = "exited" /\ Reported(api) # {}
     \/ start' = "failed"
  /\ UNCHANGED <<input, api, left, backends, lost>>

(* selected_indices, of count devices.                                     *)
Selected(count) ==
  IF config.gpu_devices.all THEN [i \in 1 .. count |-> i - 1]
  ELSE config.gpu_devices.indices

Exist(indices, count) ==
  indices # <<>> /\ \A i \in ToSet(indices) : i < count

SelectDevices ==
  /\ start = "resolved" /\ ~config.list_devices
  /\ \/ /\ api # "metal"
        /\ \E count \in Reported(api) :
             Exist(Selected(count), count) /\ left' = Selected(count)
        /\ start' = "create"
     \/ /\ api = "metal" /\ Selected(1) = <<0>>
        /\ left' = <<0>> /\ start' = "create"
     \/ start' = "failed" /\ UNCHANGED left
  /\ UNCHANGED <<input, api, backends, lost>>
----------------------------------------------------------------------------
(* The backends are made one after the other.                              *)

(* What a backend acquires, in this order.                                 *)
Parts ==
  CASE api = "cuda"   -> <<"context", "miner", "params", "summary", "results">>
    [] api = "opencl" -> <<"context", "queue", "kernel",
                           "words", "counters", "results">>
    [] api = "metal"  -> <<"library", "queue", "scratch", "pipeline">>

(* CudaBackend::new and OpenClBackend::new look the device up once more;   *)
(* MetalBackend::new is an error where there is no Metal.                  *)
BeginBackend ==
  /\ start = "create" /\ left # <<>>
  /\ IF api = "metal" THEN build.macos
     ELSE \E count \in Reported(api) : Head(left) < count
  /\ backends' = Append(backends, [index |-> Head(left), parts |-> <<>>])
  /\ left' = Tail(left)
  /\ start' = "acquire"
  /\ UNCHANGED <<input, api, lost>>

BackendGone ==
  /\ start = "create" /\ left # <<>>
  /\ start' = "unwind"
  /\ UNCHANGED <<input, api, left, backends, lost>>

newest == Len(backends)

Acquire ==
  LET have == Len(backends[newest].parts) IN
  /\ start = "acquire" /\ have < Len(Parts)
  /\ backends' = [backends EXCEPT ![newest].parts = SubSeq(Parts, 1, have + 1)]
  /\ UNCHANGED <<start, input, api, left, lost>>

Acquired ==
  /\ start = "acquire" /\ backends[newest].parts = Parts
  /\ start' = "create"
  /\ UNCHANGED <<input, api, left, backends, lost>>

(* Mutant of ReleasedInCreate: the summary is forgotten.                   *)
KeepsSummary(parts) == ToSet(parts) \cap {"miner", "params", "results"}

(* blake2b_cuda_miner_create's own clearing up, and the Drop of Context.   *)
ReleasedInCreate(parts) ==
  ToSet(parts) \cap {"miner", "params", "summary", "results"}

ReleasedByContext(parts) == ToSet(parts) \cap {"context"}

(* An acquisition fails: CUDA clears up by hand; OpenCL's and Metal's own  *)
(* handles release themselves.                                             *)
AcquireFails ==
  LET parts == backends[newest].parts IN
  /\ start = "acquire" /\ parts # Parts
  /\ lost' = lost \union
       IF api # "cuda" THEN {}
       ELSE ToSet(parts) \ (ReleasedInCreate(parts)
                              \union ReleasedByContext(parts))
  /\ backends' = Front(backends)
  /\ start' = "unwind"
  /\ UNCHANGED <<input, api, left>>

AllCreated ==
  /\ start = "create" /\ left = <<>>
  /\ start' = "opened"
  /\ UNCHANGED <<input, api, left, backends, lost>>
----------------------------------------------------------------------------
(* A backend is dropped: CUDA's miner before its context.  If the device   *)
(* cannot be selected, blake2b_cuda_miner_destroy skips the results alone. *)
DropBackend(i) ==
  /\ backends' = RemoveAt(backends, i)
  /\ \/ UNCHANGED lost
     \/ api = "cuda" /\ lost' = lost \union {"results"}

(* collect drops the backends it has, the first one first.                 *)
Unwind ==
  /\ start = "unwind"
  /\ IF backends = <<>> THEN start' = "failed" /\ UNCHANGED <<backends, lost>>
     ELSE DropBackend(1) /\ UNCHANGED start
  /\ UNCHANGED <<input, api, left>>

(* spawn_workers; from here on run reads of the Config where to connect.   *)
SpawnWorkers ==
  /\ start = "opened"
  /\ start' = IF config.benchmark THEN "closing" ELSE "running"
  /\ config' = [endpoint |-> config.endpoint,
                socks5_proxy |-> config.socks5_proxy]
  /\ unchecked' = {}
  /\ UNCHANGED <<build, api, left, backends, lost>>

(* A GPU worker that fails or sees stop drops its backend, whether run is  *)
(* still in its loop or in its joins.                                      *)
WorkerEnds ==
  /\ start \in {"running", "closing"}
  /\ \E i \in DOMAIN backends : DropBackend(i)
  /\ UNCHANGED <<start, input, api, left>>

JoinsEnd ==
  /\ start = "closing" /\ backends = <<>>
  /\ start' = "exited"
  /\ UNCHANGED <<input, api, left, backends, lost>>

DevicesStep ==
  \/ Load \/ NoHandlers \/ NoGpu \/ ResolveBackend \/ ListDevices
  \/ SelectDevices \/ BeginBackend \/ BackendGone \/ Acquire \/ Acquired
  \/ AcquireFails \/ AllCreated \/ Unwind \/ SpawnWorkers
  \/ WorkerEnds \/ JoinsEnd
=============================================================================
