--------------------------- MODULE StartupProofs ---------------------------
(***************************************************************************)
(* Proofs about the start of the process and its dials, for any lines,     *)
(* files, builds, drivers, resolvers and proxies; and about the boot guard *)
(* of the StartOS package, which precedes that start.                      *)
(***************************************************************************)
EXTENDS StartupProperties, BootGuard, SequenceTheorems, TLAPS

LEMMA Pow == 2^0 = 1 /\ 2^1 = 2 /\ 2^2 = 4
OBVIOUS

(* What load lets pass of the widths is what CUDA takes.                   *)
LEMMA Warps ==
  ASSUME NEW size \in 32 .. 1024, size % 32 = 0
  PROVE  size \in {32 * warps : warps \in 1 .. 32}
<1>1. size = 32 * (size \div 32) /\ size \div 32 \in 1 .. 32
  OBVIOUS
<1> QED BY <1>1

(* A merged option is one that line or file gives, or the default.         *)
LEMMA LoadIsLaunchable ==
  ASSUME NEW line \in Lines, NEW file \in Files,
         LineParses(line), Loads(line, file)
  PROVE  LET c == Merged(line, file) IN
         /\ c.threads > 0
         /\ CudaTakes(c) /\ MetalHasKernel(c)
         /\ \/ "gpu_devices" \in Unchecked(line, file)
            \/ IsInjective(c.gpu_devices.indices)
         /\ \/ "opencl_nonces_per_item" \in Unchecked(line, file)
            \/ c.opencl_nonces_per_item \in {None} \union (1 .. 4)
<1> DEFINE c == Merged(line, file)
<1>1. Sound(c)
  BY DEF Loads
<1>2. OptionsTypeOK(line) /\ OptionsTypeOK(file)
  BY DevicesAssumption DEF LineTypeOK, FileTypeOK
<1>3. c.threads > 0
  <2>1. Or(Or(line.threads, file.threads), 0) \in Nat
    BY <1>2 DEF OptionsTypeOK, Or
  <2> QED BY <2>1, ConfigAssumption DEF Merged, Threads
<1>4. CudaTakes(c)
  <2>1. c.gpu_batch_size \in Nat
    BY <1>2 DEF Merged, OptionsTypeOK, Or
  <2>2. c.cuda_block_size \in 32 .. 1024 /\ c.cuda_block_size % 32 = 0
    BY <1>1 DEF Sound
  <2> QED BY <1>1, <2>1, <2>2, Warps DEF CudaTakes, Sound
<1>5. MetalHasKernel(c)
  <2>1. c.metal_threadgroup_size # None => c.metal_threadgroup_size \in Nat
    BY <1>2 DEF Merged, OptionsTypeOK, Or
  <2> QED BY <1>1, <2>1, Pow DEF Sound, MetalHasKernel
<1>6. \/ "gpu_devices" \in Unchecked(line, file)
      \/ IsInjective(c.gpu_devices.indices)
  <2>1. c.gpu_devices = ChosenDevices(line, file)
    BY DEF Merged
  <2>2. ASSUME NEW text, FromText(text) # None
        PROVE  IsInjective(FromText(text).indices)
    BY <2>2 DEF FromText, AllDevices, TheseDevices, IsInjective
  <2>3. CASE line.gpu_devices # None
    BY <2>1, <2>2, <2>3 DEF ChosenDevices, LineParses
  <2>4. CASE line.gpu_devices = None /\ file.gpu_devices # None
    <3>1. FromYaml(file.gpu_devices) # None /\ file.gpu_devices.kind
            \in {"index", "list", "text"}
      BY <2>4, DevicesAssumption DEF FileTypeOK, Loads, FileIsFit, FileParses
    <3>2. CASE file.gpu_devices.kind = "list"
      BY <2>4, <3>2 DEF Unchecked
    <3>3. CASE file.gpu_devices.kind = "index"
      BY <2>1, <2>4, <3>3
         DEF ChosenDevices, FromYaml, TheseDevices, IsInjective
    <3>4. CASE file.gpu_devices.kind = "text"
      BY <2>1, <2>2, <2>4, <3>1, <3>4 DEF ChosenDevices, FromYaml
    <3> QED BY <3>1, <3>2, <3>3, <3>4
  <2>5. CASE line.gpu_devices = None /\ file.gpu_devices = None
    BY <2>1, <2>5 DEF ChosenDevices, TheseDevices, IsInjective
  <2> QED BY <2>3, <2>4, <2>5
<1>7. \/ "opencl_nonces_per_item" \in Unchecked(line, file)
      \/ c.opencl_nonces_per_item \in {None} \union (1 .. 4)
  <2>1. c.opencl_nonces_per_item
          = Or(line.opencl_nonces_per_item, file.opencl_nonces_per_item)
    BY DEF Merged
  <2> QED BY <2>1 DEF Or, LineParses, GivenWidths, Unchecked
<1> QED BY <1>3, <1>4, <1>5, <1>6, <1>7

(* A step that is not Load leaves what was loaded, or leaves that place.   *)
LEMMA OnlyLoadLoads ==
  ASSUME [Next]_vars, ~Load, start' = "loaded"
  PROVE  UNCHANGED <<start, config, unchecked>>
BY DEF Next, MainStep, DevicesStep, NoHandlers, NoGpu, ResolveBackend,
     ListDevices, SelectDevices, BeginBackend, BackendGone, Acquire, Acquired,
     AcquireFails, AllCreated, Unwind, SpawnWorkers, WorkerEnds, JoinsEnd,
     BeginDial, Stop, Terminated, vars, devicesVars, input

(* SettingsLaunchable: whatever line and file say, what load lets pass can *)
(* be launched.                                                            *)
THEOREM LoadedIsLaunchable == Spec => []SettingsLaunchable
<1>1. Init => SettingsLaunchable
  BY DEF Init, DevicesInit, SettingsLaunchable
<1>2. ASSUME SettingsLaunchable, [Next]_vars PROVE SettingsLaunchable'
  <2>1. CASE Load
    <3>1. PICK line \in Lines, file \in Files :
            IF LineParses(line) /\ Loads(line, file)
              THEN /\ start' = "loaded" /\ config' = Merged(line, file)
                   /\ unchecked' = Unchecked(line, file)
              ELSE start' = "failed" /\ UNCHANGED <<config, unchecked>>
      BY <2>1 DEF Load
    <3> QED BY <3>1, LoadIsLaunchable
            DEF SettingsLaunchable, CudaTakes, MetalHasKernel
  <2>2. CASE ~Load
    BY <1>2, <2>2, OnlyLoadLoads
       DEF SettingsLaunchable, CudaTakes, MetalHasKernel
  <2> QED BY <2>1, <2>2
<1> QED BY <1>1, <1>2, PTL DEF Spec

(* The process begins with nothing in hand.                                *)
LEMMA StartupInit == Init => StartupInv
BY DEF Init, DevicesInit, DialInit, StartupInv, OpeningInv, Configured,
       AllOrNothing, AddressesInv, FailsClosed
----------------------------------------------------------------------------
(* Devices.                                                                *)

(* The indices of a text that parses are numbers.                          *)
LEMMA TextIndices ==
  ASSUME NEW text, TextTypeOK(text), FromText(text) # None
  PROVE  FromText(text).indices \in Seq(Nat)
<1>1. CASE text.all
  BY <1>1 DEF FromText, AllDevices
<1>2. CASE ~text.all
  <2>1. None \notin ToSet(text.parts) /\ FromText(text).indices = text.parts
    BY <1>2 DEF FromText, TheseDevices
  <2>2. text.parts \in Seq(Nat \cup {None})
    BY DEF TextTypeOK
  <2>3. \A i \in DOMAIN text.parts : text.parts[i] \in Nat
    BY <2>1, <2>2 DEF ToSet
  <2> QED BY <2>1, <2>2, <2>3
<1> QED BY <1>1, <1>2

(* What load makes of a line and a file has its types.                     *)
LEMMA LoadIsConfigured ==
  ASSUME NEW line \in Lines, NEW file \in Files,
         LineParses(line), Loads(line, file)
  PROVE  LET c == Merged(line, file) IN
         /\ c.gpu_backend \in {"auto", "metal", "cuda", "opencl"}
         /\ c.gpu_devices.indices \in Seq(Nat)
         /\ c.endpoint \in Endpoints
         /\ c.socks5_proxy \in Endpoints \cup {None}
<1> DEFINE c == Merged(line, file)
<1>1. OptionsTypeOK(line) /\ OptionsTypeOK(file)
  BY DevicesAssumption DEF LineTypeOK, FileTypeOK
<1>2. c.gpu_backend \in {"auto", "metal", "cuda", "opencl"}
  BY <1>1 DEF Merged, OptionsTypeOK, Or
<1>3. c.gpu_devices.indices \in Seq(Nat)
  <2>1. c.gpu_devices = ChosenDevices(line, file)
    BY DEF Merged
  <2>2. CASE line.gpu_devices # None
    <3>1. TextTypeOK(line.gpu_devices) /\ FromText(line.gpu_devices) # None
      BY <2>2, DevicesAssumption DEF LineTypeOK, LineParses
    <3> QED BY <2>1, <2>2, <3>1, TextIndices DEF ChosenDevices
  <2>3. CASE line.gpu_devices = None /\ file.gpu_devices # None
    <3> DEFINE value == file.gpu_devices
    <3>1. /\ FromYaml(value) # None
          /\ CASE value.kind = "index" -> value.index \in Nat
               [] value.kind = "list" -> value.list \in Seq(Nat)
               [] OTHER -> value.kind = "text" /\ TextTypeOK(value.text)
      BY <2>3, DevicesAssumption DEF FileTypeOK, Loads, FileIsFit, FileParses
    <3>2. CASE value.kind = "index"
      BY <2>1, <2>3, <3>1, <3>2 DEF ChosenDevices, FromYaml, TheseDevices
    <3>3. CASE value.kind = "list"
      BY <2>1, <2>3, <3>1, <3>3 DEF ChosenDevices, FromYaml, TheseDevices
    <3>4. CASE value.kind \notin {"index", "list"}
      <4>1. value.kind = "text" /\ TextTypeOK(value.text)
        BY <3>1, <3>4
      <4>2. FromYaml(value) = FromText(value.text)
        BY <4>1 DEF FromYaml
      <4> QED BY <2>1, <2>3, <3>1, <4>1, <4>2, TextIndices DEF ChosenDevices
    <3> QED BY <3>2, <3>3, <3>4
  <2>4. CASE line.gpu_devices = None /\ file.gpu_devices = None
    BY <2>1, <2>4 DEF ChosenDevices, TheseDevices
  <2> QED BY <2>2, <2>3, <2>4
<1>4. c.endpoint \in Endpoints
  <2>1. c.endpoint = Url(line, file).endpoint
    BY DEF Merged
  <2>2. Url(line, file).endpoint # None
    BY DEF Loads, UrlIsPool
  <2> QED BY <2>1, <2>2, <1>1, ConfigAssumption
          DEF Url, Or, OptionsTypeOK, DefaultUrl
<1>5. c.socks5_proxy \in Endpoints \cup {None}
  BY <1>1 DEF Merged, Proxy, Or, OptionsTypeOK
<1> QED BY <1>2, <1>3, <1>4, <1>5

(* What RemoveAt leaves was there.                                         *)
LEMMA DroppedIsGone ==
  ASSUME NEW S, NEW s \in Seq(S), NEW i \in DOMAIN s
  PROVE  /\ RemoveAt(s, i) \in Seq(S)
         /\ \A k \in DOMAIN RemoveAt(s, i) :
              \E j \in DOMAIN s : RemoveAt(s, i)[k] = s[j]
<1> DEFINE before == SubSeq(s, 1, i - 1)
           behind == SubSeq(s, i + 1, Len(s))
<1>1. i \in 1 .. Len(s) /\ Len(s) \in Nat
  OBVIOUS
<1>2. /\ before \in Seq(S) /\ Len(before) = i - 1
      /\ \A k \in 1 .. i - 1 : before[k] = s[k]
  BY <1>1
<1>3. /\ behind \in Seq(S) /\ Len(behind) = Len(s) - i
      /\ \A k \in 1 .. Len(s) - i : behind[k] = s[i + k]
  BY <1>1
<1> HIDE DEF before, behind
<1>4. RemoveAt(s, i) = before \o behind
  BY DEF RemoveAt, before, behind
<1>5. ASSUME NEW k \in 1 .. (Len(s) - 1)
      PROVE  \E j \in DOMAIN s : (before \o behind)[k] = s[j]
  <2>1. CASE k <= i - 1
    BY <1>1, <1>2, <1>3, <2>1
  <2>2. CASE k > i - 1
    <3>1. (before \o behind)[k] = behind[k - (i - 1)]
      <4>1. /\ Len(before) \in Nat /\ Len(behind) \in Nat
            /\ k \in 1 .. Len(before) + Len(behind) /\ k > Len(before)
        BY <1>1, <1>2, <1>3, <2>2
      <4>2. (before \o behind)[k] = behind[k - Len(before)]
        BY <4>1
      <4> QED BY <1>2, <4>2
    <3>2. k - (i - 1) \in 1 .. Len(s) - i
      BY <1>1, <2>2
    <3>3. behind[k - (i - 1)] = s[k + 1] /\ k + 1 \in DOMAIN s
      BY <1>1, <1>3, <2>2, <3>2
    <3> QED BY <3>1, <3>3, Zenon
  <2>3. k <= i - 1 \/ k > i - 1
    BY <1>1
  <2> QED BY <2>1, <2>2, <2>3, Zenon
<1>6. before \o behind \in Seq(S) /\ DOMAIN (before \o behind) = 1 .. Len(s) - 1
  BY <1>1, <1>2, <1>3
<1> QED BY <1>4, <1>5, <1>6

(* What the steps before the first backend and behind the last one do.     *)
LEMMA SimpleStepsKeepDevices ==
  ASSUME OpeningInv, Configured, AllOrNothing, UNCHANGED dial,
         \/ Load \/ NoHandlers \/ NoGpu \/ ResolveBackend \/ ListDevices
         \/ BackendGone \/ Unwind \/ SpawnWorkers \/ WorkerEnds \/ JoinsEnd
  PROVE  OpeningInv' /\ Configured' /\ AllOrNothing'
<1>1. CASE Load
  <2>1. PICK line \in Lines, file \in Files :
          IF LineParses(line) /\ Loads(line, file)
            THEN start' = "loaded" /\ config' = Merged(line, file)
            ELSE start' = "failed"
    BY <1>1 DEF Load
  <2>2. start' = "loaded" =>
          /\ config'.gpu_backend \in {"auto", "metal", "cuda", "opencl"}
          /\ config'.gpu_devices.indices \in Seq(Nat)
          /\ config'.endpoint \in Endpoints
          /\ config'.socks5_proxy \in Endpoints \cup {None}
    BY <2>1, LoadIsConfigured
  <2> QED BY <1>1, <2>1, <2>2
          DEF Load, OpeningInv, Configured, AllOrNothing
<1>2. CASE NoGpu
  BY <1>2 DEF NoGpu, OpeningInv, Configured, AllOrNothing, UsesGpu, input
<1>3. CASE ResolveBackend
  BY <1>3 DEF ResolveBackend, Automatic, Built, OpeningInv, Configured,
              AllOrNothing, input
<1>4. CASE ListDevices
  BY <1>4 DEF ListDevices, OpeningInv, Configured, AllOrNothing, input
<1>5. CASE BackendGone
  BY <1>5 DEF BackendGone, OpeningInv, Configured, AllOrNothing, input
<1>6. CASE Unwind
  BY <1>6 DEF Unwind, DropBackend, OpeningInv, Configured, AllOrNothing, input
<1>7. CASE SpawnWorkers
  BY <1>7 DEF SpawnWorkers, OpeningInv, Configured, AllOrNothing, Parts
<1>8. CASE WorkerEnds
  <2>1. PICK i \in DOMAIN backends : DropBackend(i)
    BY <1>8 DEF WorkerEnds
  <2>2. start = "running" =>
          /\ backends' \in Seq(BackendType)
          /\ \A k \in DOMAIN backends' : backends'[k].parts = Parts'
    <3> SUFFICES ASSUME start = "running"
                 PROVE  /\ backends' \in Seq(BackendType)
                        /\ \A k \in DOMAIN backends' :
                             backends'[k].parts = Parts'
      OBVIOUS
    <3>1. /\ backends \in Seq(BackendType)
          /\ \A j \in DOMAIN backends : backends[j].parts = Parts
      BY DEF OpeningInv, AllOrNothing
    <3>2. backends' = RemoveAt(backends, i) /\ Parts' = Parts
      BY <1>8, <2>1 DEF WorkerEnds, DropBackend, Parts
    <3> QED BY <2>1, <3>1, <3>2, DroppedIsGone
  <2> QED BY <1>8, <2>1, <2>2
          DEF WorkerEnds, DropBackend, OpeningInv, Configured, AllOrNothing,
              input
<1>9. CASE JoinsEnd
  BY <1>9 DEF JoinsEnd, OpeningInv, Configured, AllOrNothing, input
<1>10. CASE NoHandlers
  BY <1>10 DEF NoHandlers, OpeningInv, Configured, AllOrNothing, input
<1> QED
  BY <1>1, <1>2, <1>3, <1>4, <1>5, <1>6, <1>7, <1>8, <1>9, <1>10

(* The chosen devices stand in the order they are made in.                 *)
LEMMA SelectionInOrder ==
  ASSUME OpeningInv, Configured, SelectDevices, start' = "create"
  PROVE  left' \in Seq(Nat) /\ InOrder'
<1>1. /\ start = "resolved" /\ backends = <<>> /\ backends' = <<>>
      /\ config' = config /\ api' = api
      /\ config.gpu_devices.indices \in Seq(Nat)
  BY DEF SelectDevices, OpeningInv, Configured, input
<1>2. PICK count \in Nat : left' = Selected(count) /\ left' # <<>>
  <2>1. CASE api # "metal"
    <3>1. PICK count \in Reported(api) :
            Exist(Selected(count), count) /\ left' = Selected(count)
      BY <2>1 DEF SelectDevices
    <3>2. count \in Nat
      BY DevicesAssumption DEF Reported
    <3> QED BY <3>1, <3>2 DEF Exist
  <2>2. CASE api = "metal"
    BY <2>2 DEF SelectDevices
  <2> QED BY <2>1, <2>2
<1>3. Selected(count) \in Seq(Nat)
  BY <1>1 DEF Selected
<1>4. Selected(Len(left')) = left'
  BY <1>1, <1>2, <1>3 DEF Selected
<1>5. left' \in Seq(Nat) /\ Len(left') > 0
  BY <1>2, <1>3
<1> QED BY <1>1, <1>4, <1>5 DEF InOrder, Selected

(* A new backend is the next in the order.                                 *)
LEMMA BeginningInOrder ==
  ASSUME OpeningInv, BeginBackend
  PROVE  /\ left' \in Seq(Nat) /\ backends' \in Seq(BackendType) /\ InOrder'
         /\ Len(backends') = Len(backends) + 1
         /\ \A i \in DOMAIN backends : backends'[i] = backends[i]
         /\ backends'[Len(backends')].parts = <<>>
<1>1. /\ left \in Seq(Nat) /\ backends \in Seq(BackendType) /\ InOrder
      /\ left # <<>> /\ left' = Tail(left) /\ config' = config
      /\ backends' = Append(backends, [index |-> Head(left), parts |-> <<>>])
  BY DEF OpeningInv, BeginBackend, input
<1>2. Head(left) = left[1] /\ Head(left) \in Nat /\ Tail(left) \in Seq(Nat)
  BY <1>1
<1>3. [index |-> Head(left), parts |-> <<>>] \in BackendType
  BY <1>2 DEF BackendType
<1>4. /\ Len(backends') = Len(backends) + 1 /\ Len(left') = Len(left) - 1
      /\ \A i \in DOMAIN backends : backends'[i] = backends[i]
      /\ backends'[Len(backends) + 1] = [index |-> Head(left), parts |-> <<>>]
      /\ \A i \in DOMAIN left' : left'[i] = left[i + 1] /\ i + 1 \in DOMAIN left
      /\ DOMAIN backends' = DOMAIN backends \cup {Len(backends) + 1}
      /\ DOMAIN left' = 1 .. Len(left) - 1
  BY <1>1, <1>3
<1>5. InOrder'
  <2> DEFINE n == Len(backends) + Len(left)
  <2>1. Len(backends') + Len(left') = n /\ n > 0 /\ n \in Nat
    BY <1>1, <1>4 DEF InOrder
  <2>2. Selected(n) \in Seq(Nat) /\ Len(Selected(n)) = n
    BY <1>1 DEF InOrder
  <2>3. \A i \in DOMAIN backends' : backends'[i].index = Selected(n)[i]
    <3>1. \A i \in DOMAIN backends : backends[i].index = Selected(n)[i]
      BY <1>1 DEF InOrder
    <3>2. left[1] = Selected(n)[Len(backends) + 1]
      BY <1>1, <1>2 DEF InOrder
    <3> QED BY <1>2, <1>4, <3>1, <3>2
  <2>4. \A i \in DOMAIN left' : left'[i] = Selected(n)[Len(backends') + i]
    <3>1. \A i \in DOMAIN left : left[i] = Selected(n)[Len(backends) + i]
      BY <1>1 DEF InOrder
    <3> SUFFICES ASSUME NEW i \in DOMAIN left'
                 PROVE  left'[i] = Selected(n)[Len(backends') + i]
      OBVIOUS
    <3>2. left'[i] = left[i + 1] /\ i + 1 \in DOMAIN left /\ i \in Nat
      BY <1>4, <1>1
    <3>3. Len(backends) + (i + 1) = Len(backends') + i
      BY <1>1, <1>4, <3>2
    <3> QED BY <3>1, <3>2, <3>3
  <2>5. InOrder' <=>
          LET m == Len(backends') + Len(left')
              o == Selected(m)
          IN /\ m > 0 /\ o \in Seq(Nat) /\ Len(o) = m
             /\ \A i \in DOMAIN backends' : backends'[i].index = o[i]
             /\ \A i \in DOMAIN left' : left'[i] = o[Len(backends') + i]
    BY <1>1 DEF InOrder, Selected
  <2> HIDE DEF n
  <2> QED BY <2>1, <2>2, <2>3, <2>4, <2>5
<1> QED BY <1>1, <1>2, <1>3, <1>4, <1>5

(* Steps that change nothing but what the newest backend has.              *)
LEMMA NewestKeepsOrder ==
  ASSUME InOrder, UNCHANGED <<left, config>>, backends \in Seq(BackendType),
         Len(backends') = Len(backends), DOMAIN backends' = DOMAIN backends,
         \A i \in DOMAIN backends : backends'[i].index = backends[i].index
  PROVE  InOrder'
BY DEF InOrder, Selected

(* While backends are made.                                                *)
LEMMA MakingStepsKeepDevices ==
  ASSUME OpeningInv, Configured, AllOrNothing, UNCHANGED dial,
         \/ SelectDevices \/ BeginBackend \/ Acquire \/ Acquired
         \/ AcquireFails \/ AllCreated
  PROVE  OpeningInv' /\ Configured' /\ AllOrNothing'
<1>1. CASE SelectDevices
  <2>1. /\ backends = <<>> /\ UNCHANGED <<config, build, api, backends, lost>>
        /\ start = "resolved" /\ start' \in {"create", "failed"}
        /\ lost = {} /\ api \in {"metal", "cuda", "opencl"}
    BY <1>1 DEF SelectDevices, OpeningInv, input
  <2>2. start' = "create" => left' \in Seq(Nat) /\ InOrder'
    BY <1>1, SelectionInOrder
  <2> QED BY <2>1, <2>2 DEF OpeningInv, Configured, AllOrNothing
<1>2. CASE BeginBackend
  <2>1. /\ start = "create" /\ start' = "acquire"
        /\ UNCHANGED <<config, build, api, lost>> /\ Built(api)
        /\ backends \in Seq(BackendType)
        /\ api \in {"metal", "cuda", "opencl"}
    BY <1>2 DEF BeginBackend, OpeningInv, Reported, Built, input
  <2>2. \A i \in DOMAIN backends' :
          backends'[i].parts = Parts \/ i = Len(backends')
    BY <1>2, <2>1, BeginningInOrder DEF OpeningInv
  <2>3. Parts' = Parts /\ Built(api)'
    BY <2>1 DEF Parts, Built
  <2>4. backends' # <<>> /\ backends'[Len(backends')].parts = <<>>
    BY <1>2, <2>1, BeginningInOrder
  <2>5. ToSet(<<>>) \subseteq ToSet(Parts)
    BY DEF ToSet
  <2>6. OpeningInv'
    BY <1>2, <2>1, <2>2, <2>3, <2>4, <2>5, BeginningInOrder
       DEF OpeningInv, newest
  <2> QED BY <2>1, <2>6 DEF Configured, AllOrNothing
<1>3. CASE Acquire
  <2> DEFINE have == Len(backends[newest].parts)
             grown == SubSeq(Parts, 1, have + 1)
  <2>1. /\ start = "acquire" /\ have < Len(Parts)
        /\ backends' = [backends EXCEPT ![newest].parts = grown]
        /\ UNCHANGED <<start, config, build, api, left, lost>>
        /\ backends \in Seq(BackendType) /\ backends # <<>> /\ InOrder
        /\ api \in {"metal", "cuda", "opencl"} /\ Built(api)
        /\ left \in Seq(Nat)
    BY <1>3 DEF Acquire, OpeningInv, input
  <2>2. newest \in DOMAIN backends /\ newest \in Nat
    BY <2>1 DEF newest
  <2>3. backends[newest] \in BackendType
    BY <2>1, <2>2
  <2>4. Parts \in Seq(PartNames) /\ Len(Parts) \in Nat
    <3>1. CASE api = "cuda"
      <4>1. Parts = <<"context", "miner", "params", "summary", "results">>
        BY <3>1 DEF Parts
      <4> QED BY <4>1 DEF PartNames
    <3>2. CASE api = "opencl"
      <4>1. Parts = <<"context", "queue", "kernel",
                      "words", "counters", "results">>
        BY <3>2 DEF Parts
      <4> QED BY <4>1 DEF PartNames
    <3>3. CASE api = "metal"
      <4>1. Parts = <<"library", "queue", "scratch", "pipeline">>
        BY <3>3 DEF Parts
      <4> QED BY <4>1 DEF PartNames
    <3> QED BY <2>1, <3>1, <3>2, <3>3
  <2>5. have \in Nat
    BY <2>3 DEF BackendType
  <2>6. grown \in Seq(PartNames) /\ ToSet(grown) \subseteq ToSet(Parts)
    BY <2>1, <2>4, <2>5 DEF ToSet
  <2>7. /\ backends' \in Seq(BackendType) /\ Len(backends') = Len(backends)
        /\ DOMAIN backends' = DOMAIN backends
        /\ \A i \in DOMAIN backends : backends'[i].index = backends[i].index
        /\ \A i \in DOMAIN backends \ {newest} : backends'[i] = backends[i]
        /\ backends'[newest].parts = grown
    <3> HIDE DEF grown
    <3>1. [backends[newest] EXCEPT !.parts = grown] \in BackendType
      BY <2>3, <2>6 DEF BackendType
    <3>2. backends[newest] = [index |-> backends[newest].index,
                              parts |-> backends[newest].parts]
      BY <2>3 DEF BackendType
    <3> QED BY <2>1, <2>2, <3>1, <3>2
  <2>8. InOrder'
    BY <2>1, <2>7, NewestKeepsOrder
  <2>9. Parts' = Parts /\ Built(api)' /\ newest' = newest
    BY <2>1, <2>7 DEF Parts, Built, newest
  <2>10. \A i \in DOMAIN backends' : backends'[i].parts = Parts \/ i = newest
    BY <1>3, <2>1, <2>7 DEF OpeningInv
  <2>11. backends' # <<>>
    BY <2>1, <2>7
  <2> HIDE DEF grown, have
  <2>12. OpeningInv'
    BY <2>1, <2>6, <2>7, <2>8, <2>9, <2>10, <2>11 DEF OpeningInv
  <2> QED BY <2>1, <2>12 DEF Configured, AllOrNothing
<1>4. CASE Acquired
  <2>1. /\ start = "acquire" /\ start' = "create"
        /\ backends[newest].parts = Parts
        /\ UNCHANGED <<config, build, api, left, backends, lost>>
    BY <1>4 DEF Acquired, input
  <2>2. Parts' = Parts /\ Built(api)' = Built(api) /\ newest' = newest
        /\ InOrder' = InOrder
    BY <2>1 DEF Parts, Built, newest, InOrder, Selected
  <2>3. OpeningInv'
    BY <2>1, <2>2 DEF OpeningInv
  <2> QED BY <2>1, <2>3 DEF Configured, AllOrNothing
<1>5. CASE AcquireFails
  <2>1. /\ start = "acquire" /\ start' = "unwind"
        /\ UNCHANGED <<config, build, api>>
    BY <1>5 DEF AcquireFails, input
  <2>2. lost' = lost
    <3> DEFINE parts == backends[newest].parts
    <3>1. CASE api # "cuda"
      BY <1>5, <3>1 DEF AcquireFails
    <3>2. CASE api = "cuda"
      <4>1. ToSet(parts) \subseteq ToSet(Parts)
        BY <2>1 DEF OpeningInv
      <4>2. ToSet(Parts) = {"context", "miner", "params", "summary", "results"}
        BY <3>2 DEF Parts, ToSet
      <4>3. ToSet(parts) \ (ReleasedInCreate(parts)
                              \cup ReleasedByContext(parts)) = {}
        BY <4>1, <4>2 DEF ReleasedInCreate, ReleasedByContext
      <4> QED BY <1>5, <3>2, <4>3 DEF AcquireFails
    <3> QED BY <3>1, <3>2
  <2> QED BY <2>1, <2>2 DEF OpeningInv, Configured, AllOrNothing
<1>6. CASE AllCreated
  <2>1. /\ start = "create" /\ start' = "opened" /\ left = <<>>
        /\ UNCHANGED <<config, build, api, left, backends, lost>>
        /\ backends \in Seq(BackendType) /\ InOrder
    BY <1>6 DEF AllCreated, OpeningInv, input
  <2> DEFINE opened == [i \in DOMAIN backends |-> backends[i].index]
  <2>2. Len(backends) > 0 /\ opened = Selected(Len(backends))
    BY <2>1 DEF InOrder
  <2>3. /\ opened # <<>> /\ Len(opened) = Len(backends)
        /\ backends # <<>>
    BY <2>1, <2>2
  <2>4. Built(api) /\ \A i \in DOMAIN backends : backends[i].parts = Parts
    BY <2>1, <2>3 DEF OpeningInv
  <2>5. /\ Parts' = Parts /\ Built(api)'
        /\ Selected(Len(opened))' = Selected(Len(opened))
    BY <2>1, <2>4 DEF Parts, Built, Selected
  <2> QED BY <2>1, <2>2, <2>3, <2>4, <2>5
          DEF OpeningInv, Configured, AllOrNothing
<1> QED BY <1>1, <1>2, <1>3, <1>4, <1>5, <1>6
----------------------------------------------------------------------------
(* Dials.                                                                  *)

(* What a dial knows when it fails is all its lookup gave.                 *)
LastTried == dial = "failed" => tried = ToSet(listed)

(* With a proxy, the only host is the proxy.                               *)
LEMMA OneHost == AddressesInv /\ LastTried => FailsClosed
<1> SUFFICES ASSUME AddressesInv, LastTried PROVE FailsClosed
  OBVIOUS
<1>1. ASSUME start = "running" /\ dial # "idle" /\ config.socks5_proxy # None
      PROVE  /\ asked \subseteq {config.socks5_proxy}
             /\ \A a \in tried :
                  \E l \in Lookups(config.socks5_proxy) : a \in ToSet(l)
  <2>1. Host = config.socks5_proxy
    BY <1>1 DEF AddressesInv, Host
  <2>2. /\ asked \subseteq {Host} /\ listed \in Lookups(Host) \cup {<<>>}
        /\ tried \subseteq ToSet(listed)
    BY <1>1 DEF AddressesInv
  <2>3. ToSet(<<>>) = {}
    BY DEF ToSet
  <2> QED BY <2>1, <2>2, <2>3
<1> QED BY <1>1 DEF FailsClosed, LastTried

(* The addresses behind the first one.                                     *)
LEMMA HeadAndTail ==
  ASSUME NEW s \in Seq(Addresses), s # <<>>
  PROVE  Tail(s) \in Seq(Addresses) /\ {Head(s)} \cup ToSet(Tail(s)) = ToSet(s)
<1>1. /\ Tail(s) \in Seq(Addresses) /\ Len(Tail(s)) = Len(s) - 1
      /\ Head(s) = s[1] /\ 1 \in DOMAIN s
      /\ \A i \in DOMAIN Tail(s) : Tail(s)[i] = s[i + 1] /\ i + 1 \in DOMAIN s
  OBVIOUS
<1>2. \A i \in DOMAIN s \ {1} :
        i - 1 \in DOMAIN Tail(s) /\ Tail(s)[i - 1] = s[i]
  <2> SUFFICES ASSUME NEW i \in DOMAIN s \ {1}
               PROVE  i - 1 \in DOMAIN Tail(s) /\ Tail(s)[i - 1] = s[i]
    OBVIOUS
  <2>1. PICK j \in 1 .. Len(s) - 1 : i = j + 1
    OBVIOUS
  <2>2. j \in DOMAIN Tail(s) /\ i - 1 = j
    BY <1>1, <2>1
  <2> QED BY <1>1, <2>1, <2>2
<1>3. ToSet(s) \subseteq {Head(s)} \cup ToSet(Tail(s))
  <2> SUFFICES ASSUME NEW i \in DOMAIN s, s[i] # Head(s)
               PROVE  s[i] \in ToSet(Tail(s))
    BY DEF ToSet
  <2>1. i - 1 \in DOMAIN Tail(s) /\ Tail(s)[i - 1] = s[i]
    BY <1>1, <1>2
  <2> QED BY <2>1 DEF ToSet
<1>4. {Head(s)} \cup ToSet(Tail(s)) \subseteq ToSet(s)
  BY <1>1 DEF ToSet
<1> QED BY <1>1, <1>3, <1>4

(* Steps that look up nothing and take no address.                         *)
LEMMA StandingAddresses ==
  ASSUME AddressesInv, UNCHANGED <<config, place, addresses, tried>>,
         dial' \in {"idle", "resolve", "failed"} => dial' = dial,
         dial # "idle" \/ dial' = "idle"
  PROVE  AddressesInv'
BY DEF AddressesInv, Host, place

(* Every step of a dial keeps what is known of its addresses.              *)
LEMMA DialKeepsAddresses ==
  ASSUME Configured, AddressesInv, LastTried, start = "running" \/ dial = "idle",
         UNCHANGED <<config, start>>, DialStep
  PROVE  AddressesInv' /\ LastTried' /\ (dial = "idle" => dial' = "idle")
<1>1. CASE Resolve
  <2>1. /\ dial = "resolve" /\ addresses = <<>> /\ tried = {}
        /\ to = config.endpoint /\ via = config.socks5_proxy
        /\ asked \subseteq {Host} /\ ToSet(listed) = {}
        /\ listed \in Lookups(Host) \cup {<<>>}
        /\ to' = to /\ via' = via /\ tried' = tried
        /\ asked' = asked \cup {Host}
    BY <1>1 DEF Resolve, AddressesInv, ToSet
  <2>2. Host \in Endpoints /\ Host' = Host
    BY <2>1 DEF Host, Configured
  <2>3. CASE /\ dial' = "next"
             /\ \E l \in Lookups(Host) : addresses' = l /\ listed' = l
    <3>1. addresses' \in Seq(Addresses)
      BY <2>2, <2>3, DialAssumption
    <3> QED BY <2>1, <2>2, <2>3, <3>1 DEF AddressesInv, LastTried, Host
  <2>4. CASE dial' = "failed" /\ UNCHANGED <<addresses, listed>>
    BY <2>1, <2>2, <2>4 DEF AddressesInv, LastTried, Host
  <2> QED BY <1>1, <2>3, <2>4 DEF Resolve
<1>2. CASE NextAddress
  <2>1. /\ dial = "next" /\ dial' = "open" /\ UNCHANGED <<config, place>>
        /\ addresses \in Seq(Addresses) /\ addresses # <<>>
        /\ tried' = tried \cup {Head(addresses)}
        /\ addresses' = Tail(addresses)
    BY <1>2 DEF NextAddress, AddressesInv
  <2>2. /\ addresses' \in Seq(Addresses)
        /\ tried' \cup ToSet(addresses') = tried \cup ToSet(addresses)
    BY <2>1, HeadAndTail
  <2> QED BY <2>1, <2>2 DEF AddressesInv, LastTried, Host, place
<1>3. CASE NoAddressLeft
  <2>1. /\ dial = "next" /\ dial' = "failed" /\ addresses = <<>>
        /\ UNCHANGED <<config, place, addresses, tried>>
    BY <1>3 DEF NoAddressLeft
  <2>2. tried = ToSet(listed)
    BY <2>1 DEF AddressesInv, ToSet
  <2> QED BY <2>1, <2>2 DEF AddressesInv, LastTried, Host, place
<1>4. CASE \/ OpenFails \/ IoFails \/ NotWelcome \/ NotNameable \/ HeadFails
  <2>1. /\ dial \notin {"idle", "resolve", "failed"} /\ dial' = "next"
        /\ UNCHANGED <<place, addresses, tried>>
    BY <1>4 DEF OpenFails, IoFails, NotWelcome, NotNameable, HeadFails,
                TryNext, Dialogue, HasRead
  <2> QED BY <2>1, StandingAddresses DEF LastTried
<1>5. CASE \/ Open \/ Greet \/ IsWelcome \/ SendRequest \/ HeadRead
           \/ LengthRead \/ Negotiated \/ OpenSession \/ OpeningFails
  <2>1. /\ dial \notin {"idle", "resolve", "failed"}
        /\ dial' \notin {"idle", "resolve", "failed"}
        /\ UNCHANGED <<place, addresses, tried>>
    BY <1>5 DEF Open, Greet, IsWelcome, SendRequest, HeadRead, LengthRead,
                Negotiated, OpenSession, OpeningFails, Expect, HasRead
  <2> QED BY <2>1, StandingAddresses DEF LastTried
<1>6. CASE Read
  <2>1. dial' = dial /\ UNCHANGED <<place, addresses, tried>>
    BY <1>6 DEF Read
  <2> QED BY <2>1, StandingAddresses DEF LastTried, place
<1> QED BY <1>1, <1>2, <1>3, <1>4, <1>5, <1>6 DEF DialStep
----------------------------------------------------------------------------
(* Steps of a dial leave the devices alone.                                *)
LEMMA DevicesStand ==
  ASSUME OpeningInv, Configured, AllOrNothing,
         UNCHANGED <<start, config, api, build, left, backends, lost>>,
         dial' # "idle" => start = "running"
  PROVE  OpeningInv' /\ Configured' /\ AllOrNothing'
<1>1. /\ Parts' = Parts /\ newest' = newest /\ InOrder' = InOrder
      /\ Built(api)' = Built(api) /\ UsesGpu' = UsesGpu
      /\ \A n : Selected(n)' = Selected(n)
  BY DEF Parts, newest, InOrder, Built, UsesGpu, Selected
<1> QED
  BY <1>1 DEF OpeningInv, Configured, AllOrNothing

(* Every step keeps the invariant.                                         *)
LEMMA StepKeepsStartup ==
  StartupInv /\ [Next]_vars => StartupInv'
<1> SUFFICES ASSUME StartupInv, [Next]_vars PROVE StartupInv'
  OBVIOUS
<1> USE DEF StartupInv
<1>0. LastTried /\ (start = "running" \/ dial = "idle")
  BY DEF FailsClosed, AllOrNothing, LastTried
<1>1. CASE DevicesStep /\ UNCHANGED dialVars
  <2>1. OpeningInv' /\ Configured' /\ AllOrNothing'
    BY <1>1, SimpleStepsKeepDevices, MakingStepsKeepDevices
       DEF DevicesStep, dialVars
  <2>2. CASE WorkerEnds
    <3>1. UNCHANGED <<start, config, dialVars>>
      BY <1>1, <2>2 DEF WorkerEnds, input
    <3>2. AddressesInv' /\ LastTried'
      BY <1>0, <3>1 DEF AddressesInv, LastTried, Host, dialVars, place
    <3>3. FailsClosed'
      BY <3>2, OneHost, PTL
    <3> QED BY <2>1, <3>2, <3>3
  <2>3. CASE ~WorkerEnds
    <3>1. start # "running" /\ dial = "idle" /\ dial' = "idle"
      BY <1>0, <1>1, <2>3 DEF DevicesStep, Load, NoHandlers, NoGpu,
           ResolveBackend, ListDevices, SelectDevices, BeginBackend,
           BackendGone, Acquire, Acquired, AcquireFails, AllCreated, Unwind,
           SpawnWorkers, JoinsEnd, dialVars
    <3> QED BY <2>1, <3>1 DEF AddressesInv, FailsClosed
  <2> QED BY <2>2, <2>3
<1>2. CASE BeginDial
  <2>1. /\ start = "running" /\ dial' = "resolve" /\ UNCHANGED devicesVars
        /\ to' = config.endpoint /\ via' = config.socks5_proxy
        /\ addresses' = <<>> /\ listed' = <<>> /\ tried' = {} /\ asked' = {}
    BY <1>2 DEF BeginDial, Connect
  <2>2. AddressesInv' /\ LastTried'
    BY <2>1 DEF AddressesInv, LastTried, ToSet, devicesVars, input
  <2>3. FailsClosed'
    BY <2>2, OneHost, PTL
  <2> QED BY <2>1, <2>2, <2>3, DevicesStand DEF devicesVars, input
<1>3. CASE DialStep /\ UNCHANGED devicesVars
  <2>1. UNCHANGED <<start, config>>
    BY <1>3 DEF devicesVars, input
  <2>2. AddressesInv' /\ LastTried' /\ (dial = "idle" => dial' = "idle")
    BY <1>0, <1>3, <2>1, DialKeepsAddresses
  <2>3. FailsClosed'
    BY <2>2, OneHost, PTL
  <2> QED BY <1>0, <1>3, <2>2, <2>3, DevicesStand DEF devicesVars, input
<1>4. CASE SessionOver /\ UNCHANGED devicesVars
  <2>1. dial' = "idle"
    BY <1>4 DEF SessionOver
  <2> QED BY <1>4, <2>1, DevicesStand
          DEF AddressesInv, FailsClosed, devicesVars, input
<1>5. CASE Stop
  <2>1. /\ start = "running" /\ start' = "closing"
        /\ dial = "idle" /\ dial' = "idle"
        /\ UNCHANGED <<config, api, build, left, backends, lost>>
    BY <1>5 DEF Stop, dialVars, input
  <2> QED BY <2>1 DEF OpeningInv, Configured, AllOrNothing, AddressesInv,
                      FailsClosed
<1>6. CASE \/ NetworkStep /\ UNCHANGED devicesVars
           \/ Terminated \/ UNCHANGED vars
  <2>1. UNCHANGED <<devicesVars, dial, place, addresses, tried>>
    BY <1>6 DEF NetworkStep, ProxyGreets, ProxyReplies, PoolSpeaks, HangUp,
                rest, Terminated, vars, dialVars, place
  <2>2. AddressesInv' /\ LastTried'
    BY <1>0, <2>1 DEF AddressesInv, LastTried, Host, place, devicesVars, input
  <2>3. FailsClosed'
    BY <2>2, OneHost, PTL
  <2> QED BY <1>0, <2>1, <2>2, <2>3, DevicesStand DEF devicesVars, input
<1> QED
  BY <1>1, <1>2, <1>3, <1>4, <1>5, <1>6 DEF Next, MainStep

(* The invariant of the start and of its dials.                            *)
THEOREM StartupCorrect == Spec => []StartupInv
BY StartupInit, StepKeepsStartup, PTL DEF Spec

(* AllOrNothing: run mines on every device asked for, or fails and has     *)
(* released what it acquired.                                              *)
THEOREM DevicesAllOrNothing == Spec => []AllOrNothing
<1>1. StartupInv => AllOrNothing
  BY DEF StartupInv
<1> QED BY <1>1, StartupCorrect, PTL

(* FailsClosed: a proxy is never gone past, not even by a lookup, and a    *)
(* dial fails only after all addresses.                                    *)
THEOREM ProxyFailsClosed == Spec => []FailsClosed
<1>1. StartupInv => FailsClosed
  BY DEF StartupInv
<1> QED BY <1>1, StartupCorrect, PTL
----------------------------------------------------------------------------
(* The stream.                                                             *)

(* Between two dialogues nothing of a stream matters.                      *)
LEMMA RestingStream ==
  ASSUME StreamTypeOK', need' = 0,
         dial' \in {"idle", "resolve", "next", "open", "failed", "lost"}
  PROVE  StreamInv' /\ StreamIsThePools'
BY DEF StreamInv, StreamIsThePools

LEMMA NoStreamType ==
  ASSUME stream' = NoStream, got' = <<>>, need' = 0
  PROVE  StreamTypeOK'
BY DEF StreamTypeOK, NoStream

(* A name that fits has its length in the request.                         *)
LEMMA RequestReaches ==
  ASSUME to \in Endpoints, Nameable(to)
  PROVE  Reaches(Request) = to
<1>1. Form(to) \in {"v4", "v6", "name"}
  BY DialAssumption
<1>2. CASE Form(to) = "name"
  <2>1. NameLength(to) \in 1 .. 255
    BY <1>2 DEF Nameable
  <2>2. NameLength(to) % 256 = NameLength(to)
    BY <2>1
  <2> QED BY <1>2, <2>2 DEF Reaches, Request
<1>3. CASE Form(to) = "v4"
  BY <1>3 DEF Reaches, Request
<1>4. CASE Form(to) = "v6"
  BY <1>4 DEF Reaches, Request
<1> QED BY <1>1, <1>2, <1>3, <1>4

(* Steps that end the dialogue with an address or with the pool, or lie    *)
(* before it.                                                              *)
LEMMA ResetKeepsStream ==
  ASSUME StreamInv,
         \/ BeginDial \/ SessionOver \/ OpeningFails
         \/ Resolve \/ NextAddress \/ NoAddressLeft \/ OpenFails \/ IoFails
         \/ NotWelcome \/ NotNameable \/ HeadFails
  PROVE  StreamInv' /\ StreamIsThePools'
<1>1. CASE \/ BeginDial \/ SessionOver \/ OpenFails \/ IoFails
           \/ NotWelcome \/ NotNameable \/ HeadFails
  <2>1. /\ stream' = NoStream /\ got' = <<>> /\ need' = 0
        /\ dial' \in {"idle", "resolve", "next"}
    BY <1>1 DEF BeginDial, Connect, SessionOver, OpenFails, IoFails,
                NotWelcome, NotNameable, HeadFails, TryNext
  <2> QED BY <2>1, NoStreamType, RestingStream
<1>2. CASE OpeningFails
  <2>1. /\ stream' = NoStream /\ got' = got /\ need' = need
        /\ dial = "session" /\ dial' = "lost"
    BY <1>2 DEF OpeningFails, reads
  <2>2. need' = 0 /\ StreamTypeOK'
    BY <2>1 DEF StreamInv, StreamTypeOK, NoStream
  <2> QED BY <2>1, <2>2, RestingStream
<1>3. CASE Resolve \/ NextAddress \/ NoAddressLeft
  <2>1. /\ stream' = stream /\ got' = got /\ need' = need
        /\ dial \in {"resolve", "next"}
        /\ dial' \in {"next", "open", "failed"}
    BY <1>3 DEF Resolve, NextAddress, NoAddressLeft, reads
  <2>2. need' = 0 /\ StreamTypeOK'
    BY <2>1 DEF StreamInv, StreamTypeOK, NoStream
  <2> QED BY <2>1, <2>2, RestingStream
<1> QED BY <1>1, <1>2, <1>3

(* What a read takes from the wire.                                        *)
LEMMA ReadMoves ==
  ASSUME StreamTypeOK, Read
  PROVE  /\ StreamTypeOK'
         /\ stream'.peer = stream.peer /\ stream'.leads = stream.leads
         /\ stream'.spoken = stream.spoken /\ stream'.sent = stream.sent
         /\ Len(got') + need' = Len(got) + need
         /\ Len(got') + Len(stream'.wire) = Len(got) + Len(stream.wire)
         /\ Len(got') \in Nat /\ Len(stream'.wire) \in Nat
         /\ \A i \in DOMAIN got' :
              \/ i \in DOMAIN got /\ got'[i] = got[i]
              \/ /\ i - Len(got) \in DOMAIN stream.wire
                 /\ got'[i] = stream.wire[i - Len(got)]
         /\ \A i \in DOMAIN stream'.wire :
              /\ Len(got') - Len(got) + i \in DOMAIN stream.wire
              /\ stream'.wire[i] = stream.wire[Len(got') - Len(got) + i]
<1>1. PICK n \in 1 .. need :
        /\ n <= Len(stream.wire)
        /\ got' = got \o SubSeq(stream.wire, 1, n)
        /\ stream' =
             [stream EXCEPT !.wire = SubSeq(@, n + 1, Len(@))]
        /\ need' = need - n
  BY DEF Read
<1> DEFINE wire == stream.wire
<1>2. wire \in Seq(StreamBytes) /\ got \in Seq(StreamBytes) /\ need \in Nat
  BY DEF StreamTypeOK
<1>3. /\ DOMAIN stream' = DOMAIN stream
      /\ stream'.wire = SubSeq(wire, n + 1, Len(wire))
      /\ stream'.peer = stream.peer /\ stream'.leads = stream.leads
      /\ stream'.spoken = stream.spoken /\ stream'.sent = stream.sent
  BY <1>1 DEF StreamTypeOK, NoStream
<1> HIDE DEF wire
<1>4. /\ SubSeq(wire, 1, n) \in Seq(StreamBytes)
      /\ Len(SubSeq(wire, 1, n)) = n
      /\ \A i \in 1 .. n : SubSeq(wire, 1, n)[i] = wire[i]
  BY <1>1, <1>2 DEF wire
<1>5. /\ got' \in Seq(StreamBytes) /\ Len(got') = Len(got) + n
      /\ \A i \in DOMAIN got' :
           \/ i \in DOMAIN got /\ got'[i] = got[i]
           \/ i - Len(got) \in 1 .. n /\ got'[i] = wire[i - Len(got)]
  BY <1>1, <1>2, <1>4 DEF wire
<1>6. /\ stream'.wire \in Seq(StreamBytes)
      /\ Len(stream'.wire) = Len(wire) - n
      /\ \A i \in 1 .. Len(wire) - n : stream'.wire[i] = wire[n + i]
  <2>1. n \in Nat /\ Len(wire) \in Nat /\ n <= Len(wire) /\ n >= 1
    BY <1>1, <1>2 DEF wire
  <2>2. ASSUME NEW m \in 1 .. Len(wire) + 1
        PROVE  /\ SubSeq(wire, m, Len(wire)) \in Seq(StreamBytes)
               /\ Len(SubSeq(wire, m, Len(wire))) = Len(wire) - m + 1
               /\ \A i \in 1 .. Len(wire) - m + 1 :
                    SubSeq(wire, m, Len(wire))[i] = wire[m + i - 1]
    BY <1>2, <2>1
  <2>3. n + 1 \in 1 .. Len(wire) + 1
    BY <2>1
  <2>4. /\ stream'.wire \in Seq(StreamBytes)
        /\ Len(stream'.wire) = Len(wire) - (n + 1) + 1
        /\ \A i \in 1 .. Len(wire) - (n + 1) + 1 :
             stream'.wire[i] = wire[(n + 1) + i - 1]
    BY <1>3, <2>2, <2>3
  <2> QED BY <2>1, <2>4
<1>7. StreamTypeOK'
  <2>1. StreamBytes' = StreamBytes /\ NoStream' = NoStream
    BY DEF StreamBytes, NoStream
  <2>2. need' \in Nat
    BY <1>1, <1>2
  <2> QED BY <1>3, <1>5, <1>6, <2>1, <2>2 DEF StreamTypeOK
<1>8. /\ n \in Nat /\ n <= Len(wire) /\ Len(wire) \in Nat /\ Len(got) \in Nat
      /\ DOMAIN wire = 1 .. Len(wire)
      /\ DOMAIN stream'.wire = 1 .. Len(wire) - n
  <2>1. n \in Nat /\ n <= Len(wire)
    BY <1>1, <1>2 DEF wire
  <2>2. /\ Len(wire) \in Nat /\ Len(got) \in Nat
        /\ DOMAIN wire = 1 .. Len(wire)
    BY <1>2
  <2>3. DOMAIN stream'.wire = 1 .. Len(stream'.wire)
    BY <1>6
  <2> QED BY <1>6, <2>1, <2>2, <2>3
<1>9. \A i \in DOMAIN got' :
        \/ i \in DOMAIN got /\ got'[i] = got[i]
        \/ i - Len(got) \in DOMAIN wire /\ got'[i] = wire[i - Len(got)]
  BY <1>5, <1>8
<1>10. \A i \in DOMAIN stream'.wire :
         /\ Len(got') - Len(got) + i \in DOMAIN wire
         /\ stream'.wire[i] = wire[Len(got') - Len(got) + i]
  <2>1. Len(got') - Len(got) = n
    BY <1>5, <1>8
  <2> SUFFICES ASSUME NEW i \in DOMAIN stream'.wire
               PROVE  n + i \in DOMAIN wire /\ stream'.wire[i] = wire[n + i]
    BY <2>1
  <2>2. i \in 1 .. Len(wire) - n
    BY <1>8
  <2>3. n + i \in 1 .. Len(wire)
    BY <1>8, <2>2
  <2> QED BY <1>6, <1>8, <2>2, <2>3
<1>11. /\ Len(got') + need' = Len(got) + need
       /\ Len(got') + Len(stream'.wire) = Len(got) + Len(wire)
       /\ Len(got') \in Nat /\ Len(stream'.wire) \in Nat
  BY <1>1, <1>2, <1>5, <1>6, <1>8
<1> QED BY <1>3, <1>7, <1>9, <1>10, <1>11 DEF wire

(* Reading keeps each byte in its place.                                   *)
LEMMA ReadKeepsStream ==
  ASSUME StreamInv, Read
  PROVE  StreamInv' /\ StreamIsThePools'
<1>1. /\ need > 0 /\ UNCHANGED <<dial, place>>
      /\ Len(stream.wire) \in Nat /\ Len(stream.wire) > 0
      /\ Len(got) \in Nat /\ need \in Nat
  BY DEF Read, StreamInv, StreamTypeOK
<1>2. dial \in {"greeting", "head", "length", "rest"}
  BY <1>1 DEF StreamInv
<1>3. /\ StreamTypeOK' /\ need' \in Nat
      /\ Len(got') + need' = Len(got) + need
      /\ Len(got') + Len(stream'.wire) = Len(got) + Len(stream.wire)
      /\ Len(got') \in Nat /\ Len(stream'.wire) \in Nat
      /\ stream'.peer = stream.peer /\ stream'.leads = stream.leads
      /\ stream'.spoken = stream.spoken /\ stream'.sent = stream.sent
  BY ReadMoves DEF StreamInv, StreamTypeOK
<1>4. CASE dial = "greeting"
  BY <1>1, <1>3, <1>4 DEF StreamInv, StreamIsThePools
<1>5. CASE dial \in {"head", "length", "rest"}
  <2>1. stream.peer \in {"pool", "proxy"}
    BY <1>1, <1>5 DEF StreamInv
  <2>2. PICK reply \in RequestReplies : Receives(reply)
    BY <1>1, <1>5 DEF StreamInv
  <2> DEFINE begun == Begun(reply)
  <2>3. begun \in {0, 4, 5} /\ Begun(reply)' = begun /\ to' = to
    BY <1>1 DEF Begun, place
  <2>4. \A k : Arriving(reply, k)' = Arriving(reply, k)
    BY DEF Arriving
  <2> HIDE DEF begun
  <2>5. \A i \in DOMAIN got' : got'[i] = Arriving(reply, begun + i)
    <3> SUFFICES ASSUME NEW i \in DOMAIN got'
                 PROVE  got'[i] = Arriving(reply, begun + i)
      OBVIOUS
    <3>1. i \in Nat
      BY <1>3 DEF StreamTypeOK
    <3>2. CASE i \in DOMAIN got /\ got'[i] = got[i]
      BY <2>2, <3>2 DEF Receives, begun
    <3>3. CASE /\ i - Len(got) \in DOMAIN stream.wire
               /\ got'[i] = stream.wire[i - Len(got)]
      <4>1. got'[i] = Arriving(reply, begun + Len(got) + (i - Len(got)))
        BY <2>2, <3>3 DEF Receives, begun
      <4>2. begun + Len(got) + (i - Len(got)) = begun + i
        BY <1>1, <2>3, <3>1
      <4> QED BY <4>1, <4>2
    <3> QED BY <3>2, <3>3, ReadMoves DEF StreamInv
  <2>6. \A i \in DOMAIN stream'.wire :
          stream'.wire[i] = Arriving(reply, begun + Len(got') + i)
    <3> SUFFICES ASSUME NEW i \in DOMAIN stream'.wire
                 PROVE  stream'.wire[i]
                          = Arriving(reply, begun + Len(got') + i)
      OBVIOUS
    <3>1. i \in Nat
      BY <1>3 DEF StreamTypeOK
    <3> DEFINE j == Len(got') - Len(got) + i
    <3>2. j \in DOMAIN stream.wire /\ stream'.wire[i] = stream.wire[j]
      BY ReadMoves DEF StreamInv
    <3>3. stream.wire[j] = Arriving(reply, begun + Len(got) + j)
      BY <2>2, <3>2 DEF Receives, begun
    <3>4. begun + Len(got) + j = begun + Len(got') + i
      BY <1>1, <1>3, <2>3, <3>1
    <3> HIDE DEF j
    <3> QED BY <3>2, <3>3, <3>4
  <2>7. begun + Len(got') + Len(stream'.wire)
          = begun + Len(got) + Len(stream.wire)
    <3> DEFINE onWire == Len(stream.wire)
               onWireNext == Len(stream'.wire)
    <3>1. /\ onWire \in Nat /\ onWireNext \in Nat /\ begun \in Nat
          /\ Len(got) \in Nat /\ Len(got') \in Nat
          /\ Len(got') + onWireNext = Len(got) + onWire
      BY <1>1, <1>3, <2>3
    <3> HIDE DEF onWire, onWireNext
    <3>2. begun + Len(got') + onWireNext = begun + Len(got) + onWire
      BY <3>1
    <3> QED BY <3>2 DEF onWire, onWireNext
  <2>8. begun + Len(got') + need' = begun + Len(got) + need
    BY <1>1, <1>3, <2>3
  <2>9. Receives(reply)'
    BY <1>1, <1>3, <2>2, <2>3, <2>4, <2>5, <2>6, <2>7, <2>8
       DEF Receives, begun
  <2> QED BY <1>1, <1>3, <1>5, <2>1, <2>9 DEF StreamInv, StreamIsThePools
<1> QED BY <1>2, <1>4, <1>5

LEMMA AppendsLast ==
  ASSUME NEW a, NEW b
  PROVE  Last(Append(<<a>>, b)) = b
<1> DEFINE S == {a, b}
<1>1. a \in S /\ b \in S
  OBVIOUS
<1> HIDE DEF S
<1>2. <<a>> \in Seq(S) /\ Len(<<a>>) = 1
  BY <1>1
<1> QED BY <1>1, <1>2, AppendProperties DEF Last

(* The steps up to the request, and behind the reply.                      *)
LEMMA PlainStepsKeepStream ==
  ASSUME StreamInv, StreamIsThePools,
         Open \/ Greet \/ IsWelcome \/ SendRequest \/ OpenSession
  PROVE  StreamInv' /\ StreamIsThePools'
<1> USE DEF StreamInv, StreamTypeOK, NoStream
<1>0. <<>> \in Seq(StreamBytes) /\ StreamBytes' = StreamBytes
  BY DEF StreamBytes
<1>1. CASE Open
  <2>1. /\ dial = "open" /\ need' = need /\ got' = got
        /\ dial' = IF via = None THEN "session" ELSE "greet"
        /\ to' = to /\ via' = via
        /\ stream' = [NoStream EXCEPT !.leads = Host, !.limit = via # None,
                        !.peer = IF via = None THEN "pool" ELSE "proxy"]
    BY <1>1 DEF Open, place, reads
  <2>2. /\ DOMAIN stream' = DOMAIN NoStream /\ stream'.wire = <<>>
        /\ stream'.spoken = 0 /\ stream'.sent = <<>>
        /\ stream'.leads = Host
        /\ stream'.peer = IF via = None THEN "pool" ELSE "proxy"
    BY <2>1
  <2>3. stream'.wire = [i \in 1 .. stream'.spoken |-> PoolByte]
    BY <2>2
  <2>4. dial' = "session" => stream'.leads = to'
    BY <2>1, <2>2 DEF Host
  <2>5. StreamIsThePools'
    BY <2>1, <2>3, <2>4 DEF StreamIsThePools
  <2> QED BY <1>0, <2>1, <2>2, <2>5
<1>2. CASE Greet
  <2>1. /\ dial = "greet" /\ dial' = "greeting" /\ need' = 2 /\ got' = <<>>
        /\ stream' = [stream EXCEPT !.sent = Append(@, "greeting"),
                                    !.peer = "greets"]
    BY <1>2 DEF Greet, Expect
  <2>2. /\ DOMAIN stream' = DOMAIN stream /\ stream'.wire = <<>>
        /\ stream'.spoken = 0 /\ stream'.peer = "greets"
        /\ stream'.sent = Append(<<>>, "greeting")
    BY <2>1
  <2>3. stream'.sent = <<"greeting">>
    BY <2>2
  <2> QED BY <1>0, <2>1, <2>2, <2>3 DEF StreamIsThePools
<1>3. CASE IsWelcome
  <2>1. /\ dial = "greeting" /\ dial' = "request" /\ need = 0
        /\ UNCHANGED <<stream, need, got>> /\ got = <<5, 0>>
    BY <1>3 DEF IsWelcome, HasRead, Welcome, reads
  <2>2. Len(got) = 2 /\ Len(stream.wire) \in Nat
    BY <2>1
  <2>3. stream.peer = "proxy" /\ stream.wire = <<>>
    BY <2>1, <2>2
  <2> QED BY <1>0, <2>1, <2>3 DEF StreamIsThePools
<1>4. CASE SendRequest
  <2>1. /\ dial = "request" /\ dial' = "head" /\ need' = 4 /\ got' = <<>>
        /\ Nameable(to) /\ to' = to
        /\ stream' = [stream EXCEPT !.sent = Append(@, Request),
                                    !.peer = "replies"]
    BY <1>4 DEF SendRequest, Expect, place
  <2>2. /\ DOMAIN stream' = DOMAIN stream /\ stream'.wire = <<>>
        /\ stream'.spoken = 0 /\ stream'.peer = "replies"
        /\ stream'.sent = Append(<<"greeting">>, Request)
    BY <2>1
  <2>3. Last(stream'.sent) = Request
    BY <2>2, AppendsLast
  <2>4. Request' = Request /\ Nameable(to)'
    BY <2>1 DEF Request, Nameable
  <2> QED BY <1>0, <2>1, <2>2, <2>3, <2>4 DEF StreamIsThePools
<1>5. CASE OpenSession
  <2>1. /\ dial = "session" /\ dial' = "connected" /\ to' = to
        /\ need' = need /\ got' = got
        /\ stream' = [stream EXCEPT !.limit = TRUE,
                        !.sent = @ \o <<"subscribe", "authorize">>]
    BY <1>5 DEF OpenSession, place, reads
  <2>2. /\ DOMAIN stream' = DOMAIN stream /\ stream'.wire = stream.wire
        /\ stream'.spoken = stream.spoken /\ stream'.leads = stream.leads
    BY <2>1
  <2> QED BY <1>0, <2>1, <2>2 DEF StreamIsThePools
<1> QED BY <1>1, <1>2, <1>3, <1>4, <1>5

(* The head of a reply that succeeds is the head of one that is whole.     *)
LEMMA HeadIsWhole ==
  ASSUME StreamInv, dial = "head", need = 0, Succeeds(got),
         NEW reply \in RequestReplies, Receives(reply)
  PROVE  /\ OpensTunnel(reply) /\ stream.peer = "pool"
         /\ got[4] = reply[4] /\ Len(got) = 4
<1>1. /\ Len(got) = 4 /\ got \in Seq(StreamBytes)
      /\ stream.wire \in Seq(StreamBytes)
      /\ \A i \in 1 .. 4 : got[i] = Arriving(reply, i)
  BY DEF StreamInv, StreamTypeOK, Receives, Begun
<1>2. reply \in Seq(Nat) /\ IsWhole(reply)
  BY DialAssumption
<1>3. Len(reply) >= 4
  <2>1. CASE stream.peer = "pool"
    BY <1>2, <2>1 DEF Receives, OpensTunnel
  <2>2. CASE stream.peer = "proxy"
    <3>1. 4 + Len(stream.wire) = Len(reply)
      BY <1>1, <1>2, <2>2 DEF Receives, Begun
    <3> QED BY <1>1, <3>1
  <2>3. stream.peer \in {"pool", "proxy"}
    BY DEF StreamInv
  <2> QED BY <2>1, <2>2, <2>3
<1>4. \A i \in 1 .. 4 : got[i] = reply[i]
  BY <1>1, <1>2, <1>3 DEF Arriving
<1>5. OpensTunnel(reply)
  BY <1>2, <1>3, <1>4 DEF Succeeds, IsWhole, OpensTunnel
<1> QED BY <1>1, <1>4, <1>5 DEF Receives

(* Reading the reply's parts one behind the other keeps the place in it.   *)
LEMMA ReplyStepsKeepStream ==
  ASSUME StreamInv, HeadRead \/ LengthRead \/ Negotiated
  PROVE  StreamInv' /\ StreamIsThePools'
<1>0. /\ need = 0 /\ dial \in {"head", "length", "rest"}
      /\ stream.wire \in Seq(StreamBytes) /\ stream.spoken \in Nat
      /\ got \in Seq(StreamBytes)
      /\ DOMAIN stream = DOMAIN NoStream
  BY DEF HeadRead, LengthRead, Negotiated, HasRead, StreamInv, StreamTypeOK
<1>1. PICK reply \in RequestReplies :
        Receives(reply) /\ stream.peer \in {"pool", "proxy"}
  BY <1>0 DEF StreamInv
<1>2. reply \in Seq(Nat) /\ IsWhole(reply)
  BY DialAssumption
<1>3. \A k : Arriving(reply, k)' = Arriving(reply, k)
  BY DEF Arriving
<1>4. StreamBytes' = StreamBytes /\ <<>> \in Seq(StreamBytes)
  BY DEF StreamBytes
<1>5. CASE HeadRead
  <2>1. /\ dial = "head" /\ Succeeds(got) /\ got' = <<>> /\ stream' = stream
        /\ to' = to
        /\ \/ got[4] = 1 /\ dial' = "rest" /\ need' = 6
           \/ got[4] = 4 /\ dial' = "rest" /\ need' = 18
           \/ got[4] = 3 /\ dial' = "length" /\ need' = 1
    BY <1>5 DEF HeadRead, HasRead, Expect, Remaining, place
  <2>2. /\ OpensTunnel(reply) /\ stream.peer = "pool"
        /\ got[4] = reply[4] /\ Len(got) = 4
    BY <1>0, <1>1, <2>1, HeadIsWhole
  <2>3. Begun(reply) = 0 /\ Begun(reply)' = 4
    BY <2>1, <2>2 DEF Begun
  <2>4. /\ 4 + Len(stream.wire) = Len(reply) + stream.spoken
        /\ \A i \in DOMAIN stream.wire :
             stream.wire[i] = Arriving(reply, 4 + i)
    BY <1>0, <1>1, <2>2, <2>3 DEF Receives
  <2>5. /\ reply[4] = 1 => Len(reply) = 10
        /\ reply[4] = 4 => Len(reply) = 22
    BY <1>2, <2>2 DEF IsWhole, OpensTunnel
  <2>6. Len(got') = 0 /\ DOMAIN got' = {}
    BY <2>1
  <2>7. 4 + Len(got') + Len(stream'.wire) = Len(reply) + stream'.spoken
    BY <2>1, <2>4, <2>6
  <2>8. \A i \in DOMAIN stream'.wire :
          stream'.wire[i] = Arriving(reply, 4 + Len(got') + i)
    BY <2>1, <2>4, <2>6
  <2>9. Receives(reply)'
    <3>1. dial' = "rest" => /\ reply[4] \in {1, 3, 4}
                            /\ 4 + Len(got') + need' = Len(reply)
      <4>1. CASE reply[4] = 1 /\ need' = 6
        BY <2>5, <2>6, <4>1
      <4>2. CASE reply[4] = 4 /\ need' = 18
        BY <2>5, <2>6, <4>2
      <4> QED BY <2>1, <2>2, <4>1, <4>2
    <3>2. dial' = "length" => reply[4] = 3 /\ Len(got') + need' = 1
      BY <2>1, <2>2, <2>6
    <3>3. OpensTunnel(reply)' /\ stream'.peer = "pool" /\ stream'.leads = to'
      BY <1>1, <2>1, <2>2 DEF Receives, OpensTunnel
    <3> QED BY <2>1, <2>3, <2>6, <2>7, <2>8, <3>1, <3>2, <3>3, <1>3
            DEF Receives
  <2>10. StreamTypeOK'
    BY <1>0, <1>4, <2>1 DEF StreamTypeOK, NoStream
  <2> QED BY <2>1, <2>2, <2>9, <2>10 DEF StreamInv, StreamIsThePools
<1>6. CASE LengthRead
  <2>1. /\ dial = "length" /\ dial' = "rest" /\ got' = <<>>
        /\ need' = got[1] + 2 /\ stream' = stream /\ to' = to
    BY <1>6 DEF LengthRead, HasRead, Expect, Remaining, place
  <2>2. /\ stream.peer = "pool" /\ OpensTunnel(reply) /\ Len(got) = 1
        /\ reply[4] = 3
    BY <1>0, <1>1, <2>1 DEF Receives
  <2>3. Begun(reply) = 4 /\ Begun(reply)' = 5
    BY <2>1, <2>2 DEF Begun
  <2>4. got[1] = reply[5]
    BY <1>0, <1>1, <1>2, <2>2, <2>3 DEF Receives, Arriving, OpensTunnel
  <2>5. Len(reply) = 7 + reply[5] /\ reply[5] \in Nat
    BY <1>2, <2>2 DEF IsWhole, OpensTunnel
  <2>6. /\ 5 + Len(stream.wire) = Len(reply) + stream.spoken
        /\ \A i \in DOMAIN stream.wire :
             stream.wire[i] = Arriving(reply, 5 + i)
    BY <1>0, <1>1, <2>2, <2>3 DEF Receives
  <2>7. Len(got') = 0 /\ DOMAIN got' = {}
    BY <2>1
  <2>8. /\ 5 + Len(got') + Len(stream'.wire) = Len(reply) + stream'.spoken
        /\ 5 + Len(got') + need' = Len(reply) /\ need' \in Nat
    BY <2>1, <2>4, <2>5, <2>6, <2>7
  <2>9. \A i \in DOMAIN stream'.wire :
          stream'.wire[i] = Arriving(reply, 5 + Len(got') + i)
    BY <2>1, <2>6, <2>7
  <2>10. Receives(reply)'
    BY <1>1, <1>3, <2>1, <2>2, <2>3, <2>7, <2>8, <2>9
       DEF Receives, OpensTunnel
  <2>11. StreamTypeOK'
    BY <1>0, <1>4, <2>1, <2>8 DEF StreamTypeOK, NoStream
  <2> QED BY <2>1, <2>2, <2>10, <2>11 DEF StreamInv, StreamIsThePools
<1>7. CASE Negotiated
  <2>1. /\ dial = "rest" /\ dial' = "session" /\ to' = to
        /\ stream' = [stream EXCEPT !.limit = FALSE]
        /\ need' = need /\ got' = got
    BY <1>7 DEF Negotiated, HasRead, place, reads
  <2>2. /\ stream.peer = "pool" /\ stream.leads = to
        /\ Begun(reply) + Len(got) = Len(reply)
        /\ Begun(reply) \in Nat
    BY <1>0, <1>1, <2>1 DEF Receives, Begun
  <2>3. Len(stream.wire) = stream.spoken
    BY <1>0, <1>1, <1>2, <2>2 DEF Receives
  <2>4. \A i \in 1 .. stream.spoken : stream.wire[i] = PoolByte
    <3> SUFFICES ASSUME NEW i \in 1 .. stream.spoken
                 PROVE  stream.wire[i] = PoolByte
      OBVIOUS
    <3>1. i \in DOMAIN stream.wire
      BY <1>0, <2>3
    <3>3. stream.wire[i] = Arriving(reply, Begun(reply) + Len(got) + i)
      BY <1>1, <3>1 DEF Receives
    <3>4. stream.wire[i] = Arriving(reply, Len(reply) + i)
      BY <2>2, <3>3
    <3>2. ~(Len(reply) + i <= Len(reply))
      BY <1>0, <1>2
    <3> QED BY <3>2, <3>4 DEF Arriving
  <2>5. stream.wire = [i \in 1 .. stream.spoken |-> PoolByte]
    BY <1>0, <2>3, <2>4
  <2>6. /\ DOMAIN stream' = DOMAIN stream /\ stream'.wire = stream.wire
        /\ stream'.spoken = stream.spoken /\ stream'.leads = stream.leads
    BY <1>0, <2>1 DEF NoStream
  <2>7. StreamTypeOK'
    BY <1>0, <1>4, <2>1, <2>6 DEF StreamTypeOK, NoStream
  <2> QED BY <1>0, <2>1, <2>2, <2>5, <2>6, <2>7
          DEF StreamInv, StreamIsThePools
<1> QED BY <1>5, <1>6, <1>7

(* What the proxy and the pool send arrives behind what has.               *)
LEMMA GreetingArrives ==
  ASSUME StreamInv, StreamIsThePools, ProxyGreets
  PROVE  StreamInv' /\ StreamIsThePools'
<1>1. PICK reply \in GreetingReplies :
        stream' = [stream EXCEPT !.wire = @ \o reply, !.peer = "proxy"]
  BY DEF ProxyGreets
<1>2. reply \in Seq(Nat) /\ Len(reply) = 2
  BY DialAssumption
<1>3. reply \in Seq(StreamBytes) /\ StreamBytes' = StreamBytes
  BY <1>2 DEF StreamBytes
<1>4. /\ stream.peer = "greets" /\ UNCHANGED <<dial, to, need, got>>
      /\ StreamTypeOK
  BY DEF ProxyGreets, rest, place, reads, StreamInv
<1>5. /\ DOMAIN stream' = DOMAIN stream /\ stream'.wire = stream.wire \o reply
      /\ stream'.peer = "proxy" /\ stream'.spoken = stream.spoken
      /\ stream'.sent = stream.sent
  BY <1>1, <1>4 DEF StreamTypeOK, NoStream
<1>6. StreamTypeOK' /\ Len(stream'.wire) = Len(stream.wire) + 2
  <2>1. stream.wire \in Seq(StreamBytes) /\ Len(stream.wire) \in Nat
    BY <1>4 DEF StreamTypeOK
  <2>2. /\ stream.wire \o reply \in Seq(StreamBytes)
        /\ Len(stream.wire \o reply) = Len(stream.wire) + Len(reply)
    BY <1>3, <2>1, ConcatProperties, Zenon
  <2>3. Len(stream.wire \o reply) = Len(stream.wire) + 2
    BY <1>2, <2>2
  <2> QED BY <1>3, <1>4, <1>5, <2>2, <2>3 DEF StreamTypeOK, NoStream
<1>7. dial \notin {"greet", "request", "head", "length", "rest",
                   "session", "connected"}
  BY <1>4 DEF StreamInv
<1>8. dial = "greeting" => Len(got) + Len(stream'.wire) = 2
  <2> SUFFICES ASSUME dial = "greeting"
               PROVE  Len(got) + Len(stream'.wire) = 2
    OBVIOUS
  <2>1. Len(got) + Len(stream.wire) = 0
    BY <1>4 DEF StreamInv
  <2>2. Len(got) \in Nat /\ Len(stream.wire) \in Nat
    BY <1>4 DEF StreamTypeOK
  <2> QED BY <1>6, <2>1, <2>2
<1> QED
  BY <1>4, <1>5, <1>6, <1>7, <1>8 DEF StreamInv, StreamIsThePools

LEMMA ReplyArrives ==
  ASSUME StreamInv, StreamIsThePools, ProxyReplies,
         dial # "idle" => to \in Endpoints
  PROVE  StreamInv' /\ StreamIsThePools'
<1>1. PICK reply \in RequestReplies :
        stream' = [stream EXCEPT
          !.wire = @ \o reply,
          !.peer = IF OpensTunnel(reply) THEN "pool" ELSE "proxy",
          !.leads = IF OpensTunnel(reply) THEN Reaches(Last(stream.sent))
                    ELSE @]
  BY DEF ProxyReplies
<1>2. reply \in Seq(Nat)
  BY DialAssumption
<1>3. reply \in Seq(StreamBytes) /\ StreamBytes' = StreamBytes
  BY <1>2 DEF StreamBytes
<1>4. /\ stream.peer = "replies" /\ UNCHANGED <<dial, to, need, got>>
      /\ StreamTypeOK
  BY DEF ProxyReplies, rest, place, reads, StreamInv
<1>5. /\ DOMAIN stream' = DOMAIN stream /\ stream'.wire = stream.wire \o reply
      /\ stream'.peer = IF OpensTunnel(reply) THEN "pool" ELSE "proxy"
      /\ OpensTunnel(reply) => stream'.leads = Reaches(Last(stream.sent))
      /\ stream'.spoken = stream.spoken
  BY <1>1, <1>4 DEF StreamTypeOK, NoStream
<1>6. StreamTypeOK'
  BY <1>3, <1>4, <1>5 DEF StreamTypeOK, NoStream
<1>7. CASE dial # "head"
  <2>1. dial \notin {"greet", "greeting", "request", "length", "rest",
                     "session", "connected"}
    BY <1>4, <1>7 DEF StreamInv
  <2> QED BY <1>4, <1>6, <1>7, <2>1 DEF StreamInv, StreamIsThePools
<1>8. CASE dial = "head"
  <2>1. /\ stream.wire = <<>> /\ stream.spoken = 0 /\ got = <<>> /\ need = 4
        /\ Nameable(to) /\ Last(stream.sent) = Request
    BY <1>4, <1>8 DEF StreamInv
  <2>2. OpensTunnel(reply) => stream'.leads = to
    BY <1>5, <1>8, <2>1, RequestReaches
  <2>3. stream'.wire = reply
    BY <1>2, <1>5, <2>1
  <2>4. Begun(reply)' = 0
    BY <1>4, <1>8 DEF Begun
  <2>5. \A i \in DOMAIN stream'.wire :
          stream'.wire[i] = Arriving(reply, 0 + Len(got') + i)
    <3> SUFFICES ASSUME NEW i \in DOMAIN reply
                 PROVE  reply[i] = Arriving(reply, 0 + Len(got') + i)
      BY <2>3
    <3>1. i \in Nat /\ i <= Len(reply) /\ Len(got') = 0
      BY <1>2, <1>4, <2>1
    <3>2. 0 + Len(got') + i = i
      BY <3>1
    <3> QED BY <3>1, <3>2 DEF Arriving
  <2>6. Begun(reply)' + Len(got') + Len(stream'.wire)
          = Len(reply) + stream'.spoken
    BY <1>2, <1>4, <1>5, <2>1, <2>3, <2>4
  <2>7. Receives(reply)'
    <3>1. OpensTunnel(reply)' = OpensTunnel(reply)
      BY DEF OpensTunnel
    <3>2. Len(got') + need' = 4 /\ DOMAIN got' = {}
      BY <1>4, <2>1
    <3>3. \A k : Arriving(reply, k)' = Arriving(reply, k)
      BY DEF Arriving
    <3> QED
      BY <1>4, <1>5, <1>8, <2>1, <2>2, <2>4, <2>5, <2>6, <3>1, <3>2, <3>3
         DEF Receives
  <2>8. stream'.peer \in {"pool", "proxy"}
    BY <1>5
  <2> QED BY <1>4, <1>6, <1>8, <2>7, <2>8 DEF StreamInv, StreamIsThePools
<1> QED BY <1>7, <1>8

LEMMA PoolArrives ==
  ASSUME StreamInv, StreamIsThePools, PoolSpeaks
  PROVE  StreamInv' /\ StreamIsThePools'
<1>1. /\ stream.peer = "pool" /\ UNCHANGED <<dial, to, need, got>>
      /\ stream' = [stream EXCEPT !.wire = Append(@, PoolByte),
                                  !.spoken = @ + 1]
      /\ StreamTypeOK
  BY DEF PoolSpeaks, rest, place, reads, StreamInv
<1>2. /\ DOMAIN stream' = DOMAIN stream
      /\ stream'.wire = Append(stream.wire, PoolByte)
      /\ stream'.spoken = stream.spoken + 1 /\ stream'.peer = "pool"
      /\ stream'.leads = stream.leads
  BY <1>1 DEF StreamTypeOK, NoStream
<1>3. PoolByte \in StreamBytes /\ StreamBytes' = StreamBytes
  BY DEF StreamBytes
<1> DEFINE n == Len(stream.wire)
           m == Len(stream'.wire)
<1>4. /\ StreamTypeOK' /\ n \in Nat /\ m = n + 1
      /\ stream.spoken \in Nat /\ Len(got) \in Nat
      /\ DOMAIN stream.wire = 1 .. n /\ DOMAIN stream'.wire = 1 .. m
      /\ \A i \in 1 .. n : stream'.wire[i] = stream.wire[i]
      /\ stream'.wire[n + 1] = PoolByte
  BY <1>1, <1>2, <1>3 DEF StreamTypeOK, NoStream
<1> HIDE DEF n, m
<1>5. dial \notin {"greet", "greeting", "request"}
  BY <1>1 DEF StreamInv
<1>6. CASE dial \in {"session", "connected"}
  <2>1. /\ stream.wire = [i \in 1 .. stream.spoken |-> PoolByte]
        /\ stream.leads = to
    BY <1>6 DEF StreamIsThePools
  <2>2. n = stream.spoken
    BY <1>4, <2>1 DEF n
  <2>3. \A i \in 1 .. stream'.spoken : stream'.wire[i] = PoolByte
    <3> SUFFICES ASSUME NEW i \in 1 .. n + 1
                 PROVE  stream'.wire[i] = PoolByte
      BY <1>2, <2>2
    <3>1. CASE i \in 1 .. n
      BY <1>4, <2>1, <2>2, <3>1
    <3>2. CASE i = n + 1
      BY <1>4, <3>2
    <3> QED BY <1>4, <3>1, <3>2
  <2>4. /\ stream'.wire \in Seq(StreamBytes)
        /\ DOMAIN stream'.wire = 1 .. stream'.spoken
        /\ Len(stream'.wire) = stream'.spoken
    BY <1>2, <1>3, <1>4, <2>2 DEF StreamTypeOK, m
  <2>5. stream'.wire = [i \in 1 .. stream'.spoken |-> PoolByte]
    BY <2>3, <2>4
  <2> QED BY <1>1, <1>2, <1>4, <1>6, <2>1, <2>5
          DEF StreamInv, StreamIsThePools
<1>7. CASE dial \in {"head", "length", "rest"}
  <2>1. PICK reply \in RequestReplies : Receives(reply)
    BY <1>1, <1>7 DEF StreamInv
  <2> DEFINE begun == Begun(reply)
             before == begun + Len(got)
  <2>2. begun \in Nat /\ Begun(reply)' = begun
    BY <1>1, <1>7 DEF Begun
  <2>3. /\ begun + Len(got) + n = Len(reply) + stream.spoken
        /\ \A i \in 1 .. n : stream.wire[i] = Arriving(reply, before + i)
    BY <1>4, <2>1 DEF Receives, n
  <2>4. \A k : Arriving(reply, k)' = Arriving(reply, k)
    BY DEF Arriving
  <2>5. Len(reply) \in Nat /\ OpensTunnel(reply)' = OpensTunnel(reply)
    BY DialAssumption DEF OpensTunnel
  <2> HIDE DEF begun
  <2>6. \A i \in DOMAIN stream'.wire :
          stream'.wire[i] = Arriving(reply, before + i)
    <3> SUFFICES ASSUME NEW i \in 1 .. n + 1
                 PROVE  stream'.wire[i] = Arriving(reply, before + i)
      BY <1>4
    <3>1. CASE i \in 1 .. n
      BY <1>4, <2>3, <3>1
    <3>2. CASE i = n + 1
      <4>1. before + i = Len(reply) + stream.spoken + 1
        BY <1>4, <2>2, <2>3, <3>2
      <4>2. ~(before + i <= Len(reply))
        BY <1>4, <2>5, <4>1
      <4> QED BY <1>4, <3>2, <4>2 DEF Arriving
    <3> QED BY <1>4, <3>1, <3>2
  <2>7. begun + Len(got) + m = Len(reply) + stream'.spoken
    BY <1>2, <1>4, <2>2, <2>3, <2>5
  <2>8. Receives(reply)'
    BY <1>1, <1>2, <2>1, <2>2, <2>4, <2>5, <2>6, <2>7
       DEF Receives, begun, m
  <2> QED BY <1>1, <1>2, <1>4, <1>7, <2>8 DEF StreamInv, StreamIsThePools
<1>8. CASE dial \notin {"session", "connected", "head", "length", "rest"}
  BY <1>1, <1>4, <1>5, <1>8 DEF StreamInv, StreamIsThePools
<1> QED BY <1>6, <1>7, <1>8

(* Nothing of this depends on whether the peer is gone.                    *)
LEMMA StandingStream ==
  ASSUME StreamInv, StreamIsThePools, UNCHANGED <<dial, place, reads>>,
         DOMAIN stream' = DOMAIN stream,
         stream'.wire = stream.wire, stream'.spoken = stream.spoken,
         stream'.peer = stream.peer, stream'.leads = stream.leads,
         stream'.sent = stream.sent
  PROVE  StreamInv' /\ StreamIsThePools'
<1>1. UNCHANGED <<dial, to, need, got>>
  BY DEF place, reads
<1>2. /\ StreamTypeOK' /\ NoStream' = NoStream
      /\ Nameable(to)' = Nameable(to) /\ Request' = Request
  BY <1>1 DEF StreamInv, StreamTypeOK, StreamBytes, NoStream, Nameable, Request
<1>3. \A reply \in RequestReplies : Receives(reply)' = Receives(reply)
  BY <1>1 DEF Receives, Begun, Arriving, OpensTunnel
<1> QED BY <1>1, <1>2, <1>3 DEF StreamInv, StreamIsThePools

LEMMA StepKeepsStream ==
  StartupInv /\ StreamInv /\ StreamIsThePools /\ [Next]_vars
    => StreamInv' /\ StreamIsThePools'
<1> SUFFICES ASSUME StartupInv, StreamInv, StreamIsThePools, [Next]_vars
             PROVE  StreamInv' /\ StreamIsThePools'
  OBVIOUS
<1>1. dial # "idle" => to \in Endpoints
  BY DEF StartupInv, AllOrNothing, AddressesInv, Configured
<1>2. CASE BeginDial \/ SessionOver \/ DialStep
  BY <1>2, ResetKeepsStream, ReadKeepsStream, PlainStepsKeepStream,
     ReplyStepsKeepStream
     DEF DialStep
<1>3. CASE ProxyGreets \/ ProxyReplies \/ PoolSpeaks
  BY <1>1, <1>3, GreetingArrives, ReplyArrives, PoolArrives
<1>4. CASE HangUp
  <2>1. /\ stream' = [stream EXCEPT !.closed = TRUE]
        /\ UNCHANGED <<dial, place, reads>>
    BY <1>4 DEF HangUp, rest
  <2>2. DOMAIN stream = DOMAIN NoStream
    BY DEF StreamInv, StreamTypeOK
  <2>3. /\ DOMAIN stream' = DOMAIN stream
        /\ stream'.wire = stream.wire /\ stream'.spoken = stream.spoken
        /\ stream'.peer = stream.peer /\ stream'.leads = stream.leads
        /\ stream'.sent = stream.sent
    BY <2>1, <2>2 DEF NoStream
  <2> QED BY <2>1, <2>3, StandingStream
<1>5. CASE UNCHANGED dialVars
  BY <1>5, StandingStream DEF dialVars, place, reads
<1> QED
  BY <1>2, <1>3, <1>4, <1>5
     DEF Next, MainStep, NetworkStep, Stop, Terminated, vars

LEMMA StreamInit == Init => StreamInv /\ StreamIsThePools
BY DEF Init, DialInit, StreamInv, StreamIsThePools, StreamTypeOK, NoStream

(* StreamIsThePools: the session begins at the first byte of the pool,     *)
(* and the pool is the configured one.                                     *)
THEOREM StreamBeginsAtPool == Spec => []StreamIsThePools
BY StreamInit, StepKeepsStream, StartupCorrect, PTL DEF Spec
----------------------------------------------------------------------------
(* The StartOS package's part of a start: the boot guard keeps the cache   *)
(* of a service whose first boot was reported healthy, for any number of   *)
(* crashes and failing commands.                                           *)

(* GuardInv holds before the service is started for the first time.        *)
LEMMA GuardBegins == GuardInit => GuardInv
<1> SUFFICES ASSUME GuardInit PROVE GuardInv
  OBVIOUS
<1> USE DEF GuardInit
<1>1. TypeOK
  BY DEF TypeOK
<1>2. SentinelFollowsFlag
  BY DEF SentinelFollowsFlag
<1>3. FlagFollowsBoot
  BY DEF FlagFollowsBoot
<1> QED BY <1>1, <1>2, <1>3 DEF GuardInv

(* Each step of StartOS, the script, the backend and the health check      *)
(* keeps it.                                                               *)
LEMMA GuardStep == GuardInv /\ [GuardNext]_guardVars => GuardInv'
<1> SUFFICES ASSUME GuardInv, [GuardNext]_guardVars PROVE GuardInv'
  OBVIOUS
<1> USE DEF GuardInv, TypeOK, SentinelFollowsFlag, FlagFollowsBoot, disk,
            report, history, bounds
<1>1. CASE StartService
  BY <1>1 DEF StartService
<1>2. CASE StopService
  BY <1>2 DEF StopService
<1>3. CASE Boot
  <2>1. CASE RestartBackend
    BY <2>1 DEF RestartBackend
  <2>2. CASE TestSentinel
    BY <2>2 DEF TestSentinel
  <2>3. CASE RemoveSentinel
    BY <2>3 DEF RemoveSentinel
  <2>4. CASE DropCache
    BY <2>4 DEF DropCache
  <2>5. CASE Mark
    BY <2>5 DEF Mark
  <2> QED BY <1>3, <2>1, <2>2, <2>3, <2>4, <2>5 DEF Boot
<1>4. CASE Node
  BY <1>4 DEF Node, Listen, DieOfCache
<1>5. CASE HealthCheck
  <2>1. CASE Poll
    BY <2>1 DEF Poll
  <2>2. CASE ReportAgain
    <3>1. TypeOK'
      BY <2>2 DEF ReportAgain, Settle
    <3>2. SentinelFollowsFlag'
      BY <2>2 DEF ReportAgain, Settle
    <3>3. FlagFollowsBoot'
      BY <2>2 DEF ReportAgain, Settle
    <3> QED BY <3>1, <3>2, <3>3
  <2>3. CASE BeginRemoval
    BY <2>3 DEF BeginRemoval
  <2>4. CASE EndRemoval
    <3>1. TypeOK'
      BY <2>4 DEF EndRemoval, Settle
    <3>2. SentinelFollowsFlag'
      BY <2>4 DEF EndRemoval, Settle
    <3>3. FlagFollowsBoot'
      BY <2>4 DEF EndRemoval, Settle
    <3> QED BY <3>1, <3>2, <3>3
  <2>5. CASE FailRemoval
    <3>0. failures' \in Nat
      BY <2>5 DEF FailRemoval
    <3>1. TypeOK'
      BY <2>5, <3>0, Zenon DEF FailRemoval
    <3>2. SentinelFollowsFlag'
      BY <2>5 DEF FailRemoval
    <3>3. FlagFollowsBoot'
      BY <2>5 DEF FailRemoval
    <3> QED BY <3>1, <3>2, <3>3
  <2> QED BY <1>5, <2>1, <2>2, <2>3, <2>4, <2>5 DEF HealthCheck
<1>6. CASE Crash
  BY <1>6 DEF Crash
<1>7. CASE SaveCache
  BY <1>7 DEF SaveCache
<1>8. CASE BootFailure
  <2>1. CASE FailRemoveSentinel
    BY <2>1 DEF FailRemoveSentinel
  <2>2. CASE FailDrop
    <3>1. /\ sentinel' \in {FALSE, sentinel}
          /\ backend = "drop" /\ backend' = "mark"
          /\ UNCHANGED <<service, cleared, check, checksThis, reboot,
                         settled, crashes>>
      BY <2>2 DEF FailDrop
    <3>2. cache' \in {"empty", "good", "deadly"}
      BY <2>2 DEF FailDrop
    <3>3. failures' \in Nat
      BY <2>2 DEF FailDrop
    <3>4. TypeOK'
      BY <3>1, <3>2, <3>3
    <3>5. SentinelFollowsFlag' /\ FlagFollowsBoot'
      BY <3>1
    <3> QED BY <3>4, <3>5
  <2>3. CASE FailMark
    BY <2>3 DEF FailMark
  <2> QED BY <1>8, <2>1, <2>2, <2>3 DEF BootFailure
<1>9. CASE UNCHANGED guardVars
  BY <1>9 DEF guardVars
<1> QED BY <1>1, <1>2, <1>3, <1>4, <1>5, <1>6, <1>7, <1>8, <1>9 DEF GuardNext

(* The flag, the sentinel and the health check agree at all times.         *)
THEOREM GuardInvariant == GuardSpec => []GuardInv
<1>1. GuardInit => GuardInv
  BY GuardBegins
<1>2. GuardInv /\ [GuardNext]_guardVars => GuardInv'
  BY GuardStep
<1> QED BY <1>1, <1>2, PTL DEF GuardSpec

(* FirstBootKeepsCache: only the script's drop, whether it succeeds or     *)
(* not, empties the cache, and the invariant keeps it away from a settled  *)
(* first boot.                                                             *)
THEOREM FirstBootIsKept == GuardSpec => FirstBootKeepsCache
<1>1. GuardInv /\ [GuardNext]_guardVars =>
        [CacheDropped => settled # "first"]_guardVars
  <2> SUFFICES ASSUME GuardInv, [GuardNext]_guardVars, CacheDropped
               PROVE  settled # "first"
    OBVIOUS
  <2>1. DropCache \/ FailDrop
    BY DEF CacheDropped, guardVars, disk, GuardNext, StartService,
           StopService, Boot, RestartBackend, TestSentinel, RemoveSentinel,
           Mark, BootFailure, FailRemoveSentinel, FailMark, Node, Listen,
           DieOfCache, HealthCheck, Poll, ReportAgain, BeginRemoval,
           EndRemoval, FailRemoval, Crash, SaveCache
  <2> QED BY <2>1 DEF DropCache, FailDrop, GuardInv, FlagFollowsBoot
<1> QED BY <1>1, GuardInvariant, PTL DEF GuardSpec, FirstBootKeepsCache
=============================================================================
