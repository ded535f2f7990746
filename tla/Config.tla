------------------------------- MODULE Config -------------------------------
(***************************************************************************)
(* From the command line and the YAML file to a Config: Args, GpuDevices,  *)
(* load, parse_url and parse_proxy of src/config.rs, as operators.         *)
(*                                                                         *)
(* A line and a file are records of options, None where one is not given;  *)
(* text is taken apart already, and junk in it is None.  The kernels and   *)
(* the tuning modes, which load merges like the rest and does not look at, *)
(* and the two delays are left out.                                        *)
(***************************************************************************)
EXTENDS Naturals, Sequences, SequencesExt

CONSTANTS
  None,
  Endpoints,     \* pairs of host and port
  Cores,         \* available_parallelism; 1 if it fails
  DefaultPool    \* 127.0.0.1:3333

ASSUME ConfigAssumption == Cores \in Nat \ {0} /\ DefaultPool \in Endpoints

Or(a, b) == IF a # None THEN a ELSE b
----------------------------------------------------------------------------
(* GpuDevices.                                                             *)
AllDevices == [all |-> TRUE, indices |-> <<>>]
TheseDevices(indices) == [all |-> FALSE, indices |-> indices]

(* from_str: "all", or the parts between commas; None is an error.         *)
FromText(text) ==
  IF text.all THEN AllDevices
  ELSE IF None \notin ToSet(text.parts) /\ IsInjective(text.parts)
    THEN TheseDevices(text.parts) ELSE None

(* deserialize: a number, a list or a text.                                *)
FromYaml(value) ==
  CASE value.kind = "index" -> TheseDevices(<<value.index>>)
    [] value.kind = "list"  -> IF value.list = <<>> THEN None
                               ELSE TheseDevices(value.list)
    [] value.kind = "text"  -> FromText(value.text)
----------------------------------------------------------------------------
(* What the types of Args and FileConfig, both all options, can hold.  A   *)
(* file that is missing says nothing.                                      *)
OptionsTypeOK(options) ==
  /\ options.gpu_backend \in {None, "auto", "metal", "cuda", "opencl"}
  /\ \A o \in {"threads", "gpu_batch_size", "metal_threadgroup_size",
               "cuda_nonces_per_thread", "cuda_block_size"} :
       options[o] \in Nat \cup {None}
  /\ \A o \in {"stratum_url", "socks5_proxy"} :
       options[o] # None => options[o].endpoint \in Endpoints \cup {None}

TextTypeOK(text) == text.parts \in Seq(Nat \cup {None})

LineTypeOK(line) ==
  /\ OptionsTypeOK(line)
  /\ line.gpu_devices # None => TextTypeOK(line.gpu_devices)

FileTypeOK(file) ==
  /\ OptionsTypeOK(file)
  /\ file.gpu_devices # None =>
       /\ file.state # "missing"
       /\ CASE file.gpu_devices.kind = "index" -> file.gpu_devices.index \in Nat
            [] file.gpu_devices.kind = "list" ->
                 file.gpu_devices.list \in Seq(Nat)
            [] OTHER -> /\ file.gpu_devices.kind = "text"
                        /\ TextTypeOK(file.gpu_devices.text)

(* What clap accepts of a line, and serde of a file.                       *)
GivenWidths(options) ==
  {options.metal_nonces_per_thread, options.cuda_nonces_per_thread,
   options.opencl_nonces_per_item} \ {None}

LineParses(line) ==
  /\ line.gpu_devices # None => FromText(line.gpu_devices) # None
  /\ GivenWidths(line) \subseteq 1 .. 4

FileParses(file) ==
  /\ file.state = "readable"
  /\ file.gpu_devices # None => FromYaml(file.gpu_devices) # None

(* parse_url and parse_proxy: what they refuse.  An endpoint is None if    *)
(* the host or the port is missing.                                        *)
UrlIsPool(url) ==
  /\ url.valid /\ url.scheme = "stratum+tcp"
  /\ url.endpoint # None /\ ~url.path

ProxyIsUsable(proxy) ==
  /\ proxy.valid /\ ~proxy.credentials
  /\ proxy.endpoint # None /\ ~proxy.path
----------------------------------------------------------------------------
(* load.                                                                   *)

DefaultUrl ==
  [valid |-> TRUE, scheme |-> "stratum+tcp", endpoint |-> DefaultPool,
   path |-> FALSE, username |-> None, password |-> None]

Url(line, file) == Or(Or(line.stratum_url, file.stratum_url), DefaultUrl)

Proxy(line, file) == Or(line.socks5_proxy, file.socks5_proxy)

ChosenDevices(line, file) ==
  IF line.gpu_devices # None THEN FromText(line.gpu_devices)
  ELSE IF file.gpu_devices # None THEN FromYaml(file.gpu_devices)
  ELSE TheseDevices(<<0>>)

Threads(requested, device) ==
  IF requested # 0 THEN requested
  ELSE IF device = "both" /\ Cores > 1 THEN Cores - 1 ELSE Cores

(* Mutant of Sound: Metal's width is taken for CUDA's too.                 *)
SoundButCudaWidth(c) ==
  /\ c.gpu_batch_size # 0
  /\ c.metal_nonces_per_thread \in {None, 1, 2, 4}
  /\ c.metal_threadgroup_size # 0
  /\ c.metal_nonces_per_thread \in {None, 1, 2, 4}
  /\ c.cuda_block_size \in 32 .. 1024 /\ c.cuda_block_size % 32 = 0
  /\ c.opencl_local_size # 0

(* opencl_nonces_per_item is not looked at.                                *)
Sound(c) ==
  /\ c.gpu_batch_size # 0
  /\ c.metal_nonces_per_thread \in {None, 1, 2, 4}
  /\ c.metal_threadgroup_size # 0
  /\ c.cuda_nonces_per_thread \in {1, 2, 4}
  /\ c.cuda_block_size \in 32 .. 1024 /\ c.cuda_block_size % 32 = 0
  /\ c.opencl_local_size # 0

Merged(line, file) ==
  LET url == Url(line, file)
      proxy == Proxy(line, file)
      device == Or(Or(line.device, file.device), "cpu")
      threads == Or(Or(line.threads, file.threads), 0)
  IN [device |-> device,
      gpu_backend |-> Or(Or(line.gpu_backend, file.gpu_backend), "auto"),
      gpu_devices |-> ChosenDevices(line, file),
      endpoint |-> url.endpoint,
      socks5_proxy |-> IF proxy = None THEN None ELSE proxy.endpoint,
      username |-> Or(Or(Or(line.username, url.username), file.username), ""),
      password |->
        Or(Or(Or(line.password, url.password), file.password), "x"),
      threads |-> Threads(threads, device),
      gpu_batch_size |->
        Or(Or(line.gpu_batch_size, file.gpu_batch_size), 1048576),
      metal_nonces_per_thread |->
        Or(line.metal_nonces_per_thread, file.metal_nonces_per_thread),
      metal_threadgroup_size |->
        Or(line.metal_threadgroup_size, file.metal_threadgroup_size),
      cuda_nonces_per_thread |->
        Or(Or(line.cuda_nonces_per_thread, file.cuda_nonces_per_thread), 1),
      cuda_block_size |->
        Or(Or(line.cuda_block_size, file.cuda_block_size), 512),
      opencl_local_size |->
        Or(line.opencl_local_size, file.opencl_local_size),
      opencl_nonces_per_item |->
        Or(line.opencl_nonces_per_item, file.opencl_nonces_per_item),
      benchmark |-> line.benchmark,
      list_devices |-> line.list_devices]

(* Without a file the line must say what to do.                            *)
FileIsFit(line, file) ==
  IF file.state = "missing"
    THEN line.stratum_url # None \/ line.benchmark \/ line.list_devices
    ELSE FileParses(file)

(* The errors of load; whatever is asked for, all of it is looked at.      *)
Loads(line, file) ==
  /\ FileIsFit(line, file)
  /\ UrlIsPool(Url(line, file))
  /\ Proxy(line, file) # None => ProxyIsUsable(Proxy(line, file))
  /\ Sound(Merged(line, file))
  /\ line.benchmark_seconds # 0
=============================================================================
