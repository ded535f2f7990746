----------------------------- MODULE MCStartup -----------------------------
(***************************************************************************)
(* An instance of Startup for TLC.  A line and a file each set one option, *)
(* the same or different ones, or a line chooses GPUs as well; every       *)
(* check of load meets a value on both sides of it.                        *)
(***************************************************************************)
EXTENDS StartupProperties

CONSTANTS pool, local, far, pool4, pool6, tor, pool1, pool2, proxy1, proxy2

MCEndpoints == {pool, local, far, pool4, pool6, tor}
MCAddresses == {pool1, pool2, proxy1, proxy2}

(* far's name has 300 bytes, 44 in a byte.  The host of pool6 is an IPv6   *)
(* address, to which config leaves its brackets: it parses as a name, and  *)
(* no resolver knows it.                                                   *)
MCForm(endpoint) == IF endpoint = pool4 THEN "v4" ELSE "name"
MCNameLength(endpoint) == IF endpoint = far THEN 300 ELSE 9
MCLookups(endpoint) ==
  CASE endpoint = tor -> {<<>>, <<proxy1>>, <<proxy1, proxy2>>}
    [] endpoint = pool6 -> {}
    [] OTHER -> {<<pool1>>, <<pool1, pool2>>}

Bytes(n) == [i \in 1 .. n |-> 7]
MCGreetingReplies == {<<5, 0>>, <<5, 255>>, <<4, 0>>}
MCRequestReplies ==
  {<<5, 0, 0, 1>> \o Bytes(6), <<5, 0, 0, 4>> \o Bytes(18),
   <<5, 0, 0, 3, 0>> \o Bytes(2), <<5, 0, 0, 3, 3>> \o Bytes(5),
   <<5, 0, 0, 2>> \o Bytes(6),
   <<5, 4, 0, 1>> \o Bytes(6), <<4, 0, 0, 1>> \o Bytes(6),
   <<5, 0, 1, 1>> \o Bytes(6)}

MCBuilds ==
  {[macos |-> TRUE, cuda |-> FALSE, opencl |-> TRUE],
   [macos |-> FALSE, cuda |-> TRUE, opencl |-> TRUE],
   [macos |-> FALSE, cuda |-> FALSE, opencl |-> FALSE]}
----------------------------------------------------------------------------
Options ==
  {"device", "gpu_backend", "gpu_devices", "stratum_url", "socks5_proxy",
   "username", "password", "threads", "gpu_batch_size",
   "metal_nonces_per_thread", "metal_threadgroup_size",
   "cuda_nonces_per_thread", "cuda_block_size", "opencl_local_size",
   "opencl_nonces_per_item"}

EmptyLine ==
  [o \in Options |-> None] @@
  [benchmark |-> FALSE, benchmark_seconds |-> 3, list_devices |-> FALSE]

EmptyFile == [o \in Options |-> None] @@ [state |-> "readable"]

PoolUrl(endpoint) == [DefaultUrl EXCEPT !.endpoint = endpoint]
Urls ==
  {PoolUrl(e) : e \in {pool, far, pool4, pool6, None}} \union
  {[PoolUrl(pool) EXCEPT !.username = "alice", !.password = "secret"],
   [PoolUrl(pool) EXCEPT !.scheme = "stratum+ssl"],
   [PoolUrl(pool) EXCEPT !.path = TRUE],
   [PoolUrl(pool) EXCEPT !.valid = FALSE]}

UsableProxy ==
  [valid |-> TRUE, credentials |-> FALSE, endpoint |-> tor, path |-> FALSE]
Proxies ==
  {UsableProxy, [UsableProxy EXCEPT !.valid = FALSE],
   [UsableProxy EXCEPT !.credentials = TRUE],
   [UsableProxy EXCEPT !.endpoint = None], [UsableProxy EXCEPT !.path = TRUE]}

Texts ==
  {[all |-> TRUE, parts |-> <<>>]} \union
  {[all |-> FALSE, parts |-> p] : p \in {<<1, 0>>, <<0, 0>>, <<0, None>>}}

YamlDevices ==
  {[kind |-> "index", index |-> 1, list |-> <<>>, text |-> None]} \union
  {[kind |-> "list", index |-> 0, list |-> l, text |-> None] :
     l \in {<<>>, <<0, 0>>, <<1>>}} \union
  {[kind |-> "text", index |-> 0, list |-> <<>>, text |-> t] : t \in Texts}

(* What line and file may both say of these options.                       *)
Values(option) ==
  CASE option = "device" -> {"cpu", "gpu", "both"}
    [] option = "gpu_backend" -> {"auto", "opencl"}
    [] option = "stratum_url" -> Urls
    [] option = "socks5_proxy" -> Proxies
    [] option \in {"username", "password"} -> {"bob"}
    [] option = "threads" -> {0, 1, 5}
    [] option = "gpu_batch_size" -> {0, 1}
    [] option \in {"metal_threadgroup_size", "opencl_local_size"} -> {0, 64}
    [] option = "cuda_block_size" -> {0, 48, 96, 1024, 1056}
    [] OTHER -> 0 .. 5

SetOne(empty, DeviceValues) ==
  UNION {{[empty EXCEPT ![o] = v] : v \in Values(o)} :
           o \in Options \ {"gpu_devices"}} \union
  {[empty EXCEPT !["gpu_devices"] = v] : v \in DeviceValues}

GpuLines ==
  {[EmptyLine EXCEPT !.device = "gpu", !.gpu_backend = b, !.gpu_devices = d] :
     b \in {"auto", "metal", "cuda", "opencl"},
     d \in {None, [all |-> TRUE, parts |-> <<>>]}}

MCLines ==
  {EmptyLine, [EmptyLine EXCEPT !.benchmark_seconds = 0]} \union
  {[line EXCEPT !.benchmark = b, !.list_devices = l] :
     line \in GpuLines, b \in BOOLEAN, l \in BOOLEAN} \union
  SetOne(EmptyLine, Texts)

MCFiles ==
  {EmptyFile, [EmptyFile EXCEPT !.state = "missing"],
   [EmptyFile EXCEPT !.state = "broken"]} \union
  SetOne(EmptyFile, YamlDevices)
=============================================================================
