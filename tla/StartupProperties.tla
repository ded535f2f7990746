------------------------- MODULE StartupProperties -------------------------
(***************************************************************************)
(* What the start of the process and the way to the pool must get right.   *)
(***************************************************************************)
EXTENDS Startup

(* Configuration.  Whatever line and file say, what load lets pass can be  *)
(* launched: there is a thread, a nonce in each batch and a kernel of the  *)
(* widths asked for; and CudaBackend::new (src/gpu/cuda.rs) and            *)
(* blake2b_cuda_mine (native/cuda_runtime.cu), which check their options   *)
(* anew, do not refuse after the start what load let pass.  Devices are    *)
(* distinct and OpenCL's items have nonces, except as a file says: a YAML  *)
(* list of devices and OpenCL's width are not looked at (config.rs:142 and *)
(* config.rs:423).                                                         *)
CudaTakes(c) ==
  /\ c.gpu_batch_size > 0
  /\ c.cuda_nonces_per_thread \in {1, 2, 4}
  /\ c.cuda_block_size \in {32 * warps : warps \in 1 .. 32}

MetalHasKernel(c) ==
  /\ c.metal_nonces_per_thread # None =>
       \E log \in 0 .. 2 : c.metal_nonces_per_thread = 2 ^ log
  /\ c.metal_threadgroup_size # None => c.metal_threadgroup_size > 0

SettingsLaunchable ==
  start = "loaded" =>
    /\ config.threads > 0
    /\ CudaTakes(config) /\ MetalHasKernel(config)
    /\ \/ "gpu_devices" \in unchecked
       \/ IsInjective(config.gpu_devices.indices)
    /\ \/ "opencl_nonces_per_item" \in unchecked
       \/ config.opencl_nonces_per_item \in {None} \union (1 .. 4)
----------------------------------------------------------------------------
(* Devices.  All or nothing: run mines with a complete backend of every    *)
(* device that was asked for, in this order; or it fails, and what it had  *)
(* acquired until then is released, but for the results of a CUDA device   *)
(* that cannot be selected any more.  Nothing is sent, and no name looked  *)
(* up, before (README.md:166 "Explicitly unavailable backends fail before  *)
(* workers or a Stratum session are started").                             *)
AllOrNothing ==
  /\ start \in {"opened", "running"} =>
       \A i \in DOMAIN backends : backends[i].parts = Parts
  /\ start = "opened" /\ UsesGpu =>
       LET opened == [i \in DOMAIN backends |-> backends[i].index]
       IN /\ Built(api)
          /\ opened # <<>> /\ opened = Selected(Len(opened))
  /\ start \in {"failed", "exited"} => backends = <<>>
  /\ lost \subseteq {"results"} /\ (lost # {} => api = "cuda")
  /\ dial # "idle" => start = "running"
----------------------------------------------------------------------------
(* Dial.  The stream a session gets leads to the configured pool, and its  *)
(* first unread byte is the first byte of the pool, whatever reply the     *)
(* proxy made of how many bytes, in whatever pieces they came.             *)
StreamIsThePools ==
  dial \in {"session", "connected"} =>
    /\ stream.leads = to
    /\ stream.wire = [i \in 1 .. stream.spoken |-> PoolByte]

(* README.md:116: with a proxy, connection and name lookup go through it,  *)
(* and its failure is not followed by a direct try: no address but the     *)
(* proxy's is looked up or tried.  A dial fails only after every address   *)
(* has had its turn.                                                       *)
FailsClosed ==
  /\ start = "running" /\ dial # "idle" /\ config.socks5_proxy # None =>
       /\ asked \subseteq {config.socks5_proxy}
       /\ \A a \in tried :
            \E l \in Lookups(config.socks5_proxy) : a \in ToSet(l)
  /\ dial = "failed" => tried = ToSet(listed)

(* However the proxy dribbles, falls silent or hangs up, and however many  *)
(* addresses there are: a dial comes to an end, so the main thread comes   *)
(* back to look at stop (miner.rs:690).                                    *)
DialEnds == dial = "resolve" ~> dial \in {"connected", "failed", "lost"}
----------------------------------------------------------------------------
(* Why AllOrNothing and FailsClosed hold.                                  *)

(* Backends and what is left to open are the chosen devices, in order.     *)
PartNames == {"context", "miner", "params", "summary", "results", "queue",
              "kernel", "words", "counters", "library", "scratch",
              "pipeline"}
BackendType == [index : Nat, parts : Seq(PartNames)]

InOrder ==
  LET n == Len(backends) + Len(left)
      order == Selected(n)
  IN /\ n > 0 /\ order \in Seq(Nat) /\ Len(order) = n
     /\ \A i \in DOMAIN backends : backends[i].index = order[i]
     /\ \A i \in DOMAIN left : left[i] = order[Len(backends) + i]

(* While backends are made, all but the newest are complete.               *)
OpeningInv ==
  /\ start \in {"load", "loaded", "resolved"} => backends = <<>> /\ lost = {}
  /\ start = "resolved" => api \in {"metal", "cuda", "opencl"}
  /\ start \in {"create", "acquire"} =>
       /\ api \in {"metal", "cuda", "opencl"}
       /\ left \in Seq(Nat) /\ backends \in Seq(BackendType)
       /\ InOrder
       /\ backends # <<>> => Built(api)
       /\ \A i \in DOMAIN backends :
            backends[i].parts = Parts \/ (start = "acquire" /\ i = newest)
  /\ start \in {"opened", "running"} => backends \in Seq(BackendType)
  /\ start = "acquire" =>
       backends # <<>> /\ ToSet(backends[newest].parts) \subseteq ToSet(Parts)

Configured ==
  /\ start \in {"loaded", "resolved"} =>
       /\ config.gpu_backend \in {"auto", "metal", "cuda", "opencl"}
       /\ config.gpu_devices.indices \in Seq(Nat)
  /\ start \in {"loaded", "resolved", "create", "acquire", "opened", "running"} =>
       /\ config.endpoint \in Endpoints
       /\ config.socks5_proxy \in Endpoints \cup {None}

(* A dial knows one host, and no address but of one lookup of it.          *)
AddressesInv ==
  dial # "idle" =>
    /\ to = config.endpoint /\ via = config.socks5_proxy
    /\ addresses \in Seq(Addresses)
    /\ asked \subseteq {Host}
    /\ listed \in Lookups(Host) \cup {<<>>}
    /\ tried \cup ToSet(addresses) = ToSet(listed)
    /\ dial = "resolve" => addresses = <<>> /\ tried = {}

(* Why StreamIsThePools holds.  The k-th byte behind a request is one of   *)
(* the reply, or one of the pool; and the one before a read in progress.   *)
StreamBytes == Nat \cup {PoolByte}
Arriving(reply, k) == IF k <= Len(reply) THEN reply[k] ELSE PoolByte
Begun(reply) ==
  IF dial = "head" THEN 0
  ELSE IF dial = "rest" /\ reply[4] = 3 THEN 5 ELSE 4

(* What was read and what is still on the wire are those bytes, and at the *)
(* end of the last read the reply is over.                                 *)
Receives(reply) ==
  /\ OpensTunnel(reply) <=> stream.peer = "pool"
  /\ stream.peer = "pool" => stream.leads = to
  /\ stream.peer = "proxy" => dial = "head" /\ stream.spoken = 0
  /\ Begun(reply) + Len(got) + Len(stream.wire) = Len(reply) + stream.spoken
  /\ \A i \in DOMAIN got : got[i] = Arriving(reply, Begun(reply) + i)
  /\ \A i \in DOMAIN stream.wire :
       stream.wire[i] = Arriving(reply, Begun(reply) + Len(got) + i)
  /\ dial = "head" => Len(got) + need = 4
  /\ dial = "length" => reply[4] = 3 /\ Len(got) + need = 1
  /\ dial = "rest" =>
       /\ reply[4] \in {1, 3, 4}
       /\ Begun(reply) + Len(got) + need = Len(reply)

StreamTypeOK ==
  /\ DOMAIN stream = DOMAIN NoStream
  /\ stream.wire \in Seq(StreamBytes) /\ stream.spoken \in Nat
  /\ got \in Seq(StreamBytes) /\ need \in Nat

StreamInv ==
  /\ StreamTypeOK
  /\ need # 0 => dial \in {"greeting", "head", "length", "rest"}
  /\ dial \in {"greet", "request"} =>
       /\ stream.peer = "proxy" /\ stream.wire = <<>> /\ stream.spoken = 0
       /\ stream.sent = IF dial = "greet" THEN <<>> ELSE <<"greeting">>
  /\ dial = "greeting" =>
       /\ stream.peer \in {"greets", "proxy"} /\ stream.spoken = 0
       /\ stream.sent = <<"greeting">>
       /\ Len(got) + need = 2
       /\ Len(got) + Len(stream.wire) = IF stream.peer = "greets" THEN 0 ELSE 2
  /\ dial \in {"head", "length", "rest"} =>
       \/ /\ dial = "head" /\ stream.peer = "replies"
          /\ stream.wire = <<>> /\ stream.spoken = 0
          /\ got = <<>> /\ need = 4
          /\ Nameable(to) /\ Last(stream.sent) = Request
       \/ /\ stream.peer \in {"pool", "proxy"}
          /\ \E reply \in RequestReplies : Receives(reply)
  /\ dial \in {"session", "connected"} => stream.peer = "pool"

StartupInv ==
  /\ OpeningInv /\ Configured /\ AllOrNothing
  /\ AddressesInv /\ FailsClosed
=============================================================================
