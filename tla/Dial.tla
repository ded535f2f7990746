-------------------------------- MODULE Dial --------------------------------
(***************************************************************************)
(* How the main thread reaches its pool: connect, connect_addresses and    *)
(* negotiate_socks5 of src/miner.rs, and the two requests run_session      *)
(* writes first.                                                           *)
(*                                                                         *)
(* The resolver, the proxy and the pool are external.  A name resolves to  *)
(* no, one or several addresses, or not at all; a proxy answers what it    *)
(* likes, its bytes arrive in pieces of any size, and it may fall silent   *)
(* or hang up at any moment.  A byte of the pool is the token PoolByte.    *)
(* Endpoints are those of Config, of which None is used as well.           *)
(***************************************************************************)
EXTENDS Config

CONSTANTS
  Addresses,
  Form(_),           \* what an endpoint's host parses as: "v4", "v6", "name"
  NameLength(_),     \* the bytes of its host
  Lookups(_),        \* external: the lists of addresses its host has had
  GreetingReplies,   \* external: a proxy's answers to the greeting
  RequestReplies,    \* external: and to the request, as sequences of bytes
  PoolByte,
  MaxPoolBytes       \* bound: bytes the pool sends of its own accord

(* Only this reply leaves the stream in a tunnel; an address in it and the *)
(* port behind it are whole.                                               *)
OpensTunnel(reply) ==
  Len(reply) > 4 /\ reply[1] = 5 /\ reply[2] = 0 /\ reply[3] = 0

IsWhole(reply) ==
  Len(reply) > 3 /\ reply[1] = 5 /\ reply[2] = 0 /\ reply[3] = 0 =>
    /\ Len(reply) > 4
    /\ reply[4] = 1 => Len(reply) = 10
    /\ reply[4] = 3 => Len(reply) = 7 + reply[5]
    /\ reply[4] = 4 => Len(reply) = 22

ASSUME DialAssumption ==
  /\ MaxPoolBytes \in Nat
  /\ \A e \in Endpoints : Form(e) \in {"v4", "v6", "name"}
  /\ \A e \in Endpoints : \A l \in Lookups(e) : l \in Seq(Addresses)
  /\ \A reply \in GreetingReplies : reply \in Seq(Nat) /\ Len(reply) = 2
  /\ \A reply \in RequestReplies : reply \in Seq(Nat) /\ IsWhole(reply)

VARIABLES
  dial,        \* where connect is
  to, via,     \* its arguments: the pool, and the proxy or None
  addresses,   \* what the iterator of connect_addresses still holds
  stream,      \* the TcpStream, and what is on its way in it
  need, got,   \* read_exact: the bytes it lacks, those it has
  listed,      \* history: the addresses of this dial, those it tried, and
  tried,       \* whose addresses the miner asked the resolver for
  asked

place == <<to, via, listed, asked>>
reads == <<need, got>>
dialVars == <<dial, to, via, addresses, stream, reads, listed, tried, asked>>

(* peer is what the other side does next, leads whom the bytes reach.      *)
NoStream ==
  [peer |-> "none", leads |-> None, limit |-> FALSE, closed |-> FALSE,
   wire |-> <<>>, spoken |-> 0, sent |-> <<>>]

DialInit ==
  /\ dial = "idle" /\ to = None /\ via = None /\ addresses = <<>>
  /\ stream = NoStream /\ need = 0 /\ got = <<>>
  /\ listed = <<>> /\ tried = {} /\ asked = {}
----------------------------------------------------------------------------
(* connect, resolve and connect_addresses.                                 *)

Connect(endpoint, proxy) ==
  /\ dial = "idle"
  /\ dial' = "resolve" /\ to' = endpoint /\ via' = proxy
  /\ addresses' = <<>> /\ listed' = <<>> /\ tried' = {} /\ asked' = {}
  /\ stream' = NoStream /\ need' = 0 /\ got' = <<>>

(* Whose addresses connect tries: the pool's only without a proxy.         *)
Host == IF via = None THEN to ELSE via

Resolve ==
  /\ dial = "resolve"
  /\ asked' = asked \union {Host}
  /\ \/ dial' = "next" /\ \E l \in Lookups(Host) :
                            addresses' = l /\ listed' = l
     \/ dial' = "failed" /\ UNCHANGED <<addresses, listed>>
  /\ UNCHANGED <<to, via, stream, reads, tried>>

NextAddress ==
  /\ dial = "next" /\ addresses # <<>>
  /\ dial' = "open"
  /\ tried' = tried \union {Head(addresses)}
  /\ addresses' = Tail(addresses)
  /\ UNCHANGED <<place, stream, reads>>

(* Mutant of NoAddressLeft: try the pool itself after the proxy.           *)
FallBack ==
  /\ dial = "next" /\ addresses = <<>>
  /\ IF via = None THEN dial' = "failed" /\ UNCHANGED <<via, listed, tried>>
     ELSE dial' = "resolve" /\ via' = None /\ listed' = <<>> /\ tried' = {}
  /\ UNCHANGED <<to, asked, addresses, stream, reads>>

NoAddressLeft ==
  /\ dial = "next" /\ addresses = <<>>
  /\ dial' = "failed"
  /\ UNCHANGED <<place, addresses, stream, reads, tried>>

(* An address that failed, at connect_timeout or in the dialogue, is left: *)
(* its stream is closed and the next one has its turn.                     *)
TryNext ==
  /\ dial' = "next" /\ stream' = NoStream /\ need' = 0 /\ got' = <<>>
  /\ UNCHANGED <<place, addresses, tried>>

OpenFails == dial = "open" /\ TryNext

(* Mutant of Open: no timeouts on the proxy's stream.                      *)
OpenWithoutLimit ==
  /\ dial = "open"
  /\ dial' = IF via = None THEN "session" ELSE "greet"
  /\ stream' = [NoStream EXCEPT !.leads = Host,
                  !.peer = IF via = None THEN "pool" ELSE "proxy"]
  /\ UNCHANGED <<place, addresses, tried, reads>>

(* limit: the read and write timeouts of ten seconds are set.              *)
Open ==
  /\ dial = "open"
  /\ dial' = IF via = None THEN "session" ELSE "greet"
  /\ stream' = [NoStream EXCEPT !.leads = Host, !.limit = via # None,
                  !.peer = IF via = None THEN "pool" ELSE "proxy"]
  /\ UNCHANGED <<place, addresses, tried, reads>>
----------------------------------------------------------------------------
(* negotiate_socks5 with an external proxy.                                *)

Dialogue == {"greet", "greeting", "request", "head", "length", "rest"}

(* A read or write that fails: the peer is gone, or time is up.            *)
IoFails == dial \in Dialogue /\ (stream.closed \/ stream.limit) /\ TryNext

Expect(what, n) == dial' = what /\ need' = n /\ got' = <<>>

Greet ==
  /\ dial = "greet"
  /\ stream' = [stream EXCEPT !.sent = Append(@, "greeting"),
                              !.peer = "greets"]
  /\ Expect("greeting", 2)
  /\ UNCHANGED <<place, addresses, tried>>

(* read takes what has arrived, read_exact goes on until it has all.       *)
Read ==
  /\ need > 0
  /\ \E n \in 1 .. need :
       /\ n <= Len(stream.wire)
       /\ got' = got \o SubSeq(stream.wire, 1, n)
       /\ stream' = [stream EXCEPT !.wire = SubSeq(@, n + 1, Len(@))]
       /\ need' = need - n
  /\ UNCHANGED <<dial, place, addresses, tried>>

HasRead(what) == dial = what /\ need = 0

Welcome == got = <<5, 0>>

NotWelcome == HasRead("greeting") /\ ~Welcome /\ TryNext

IsWelcome ==
  /\ HasRead("greeting") /\ Welcome
  /\ dial' = "request"
  /\ UNCHANGED <<place, addresses, tried, stream, reads>>

Nameable(endpoint) ==
  Form(endpoint) = "name" => NameLength(endpoint) \in 1 .. 255

NotNameable == dial = "request" /\ ~Nameable(to) /\ TryNext

(* The request: an address as it is, or a name behind its length.          *)
Request ==
  [host |-> to,
   type |-> CASE Form(to) = "v4" -> 1 [] Form(to) = "v6" -> 4 [] OTHER -> 3,
   length |-> NameLength(to) % 256]

SendRequest ==
  /\ dial = "request" /\ Nameable(to)
  /\ stream' = [stream EXCEPT !.sent = Append(@, Request),
                              !.peer = "replies"]
  /\ Expect("head", 4)
  /\ UNCHANGED <<place, addresses, tried>>

Succeeds(reply) == reply[1] = 5 /\ reply[3] = 0 /\ reply[2] = 0

HeadFails ==
  /\ HasRead("head")
  /\ ~Succeeds(got) \/ got[4] \notin {1, 3, 4}
  /\ TryNext

(* Mutant of Remaining: the port behind the address is forgotten.          *)
RemainingAddress(length) == length

(* The bytes of an address of this length and of the port.                 *)
Remaining(length) == length + 2

HeadRead ==
  /\ HasRead("head") /\ Succeeds(got)
  /\ \/ got[4] = 1 /\ Expect("rest", Remaining(4))
     \/ got[4] = 4 /\ Expect("rest", Remaining(16))
     \/ got[4] = 3 /\ Expect("length", 1)
  /\ UNCHANGED <<place, addresses, tried, stream>>

LengthRead ==
  /\ HasRead("length")
  /\ Expect("rest", Remaining(got[1]))
  /\ UNCHANGED <<place, addresses, tried, stream>>

Negotiated ==
  /\ HasRead("rest")
  /\ dial' = "session"
  /\ stream' = [stream EXCEPT !.limit = FALSE]
  /\ UNCHANGED <<place, addresses, tried, reads>>
----------------------------------------------------------------------------
(* run_session goes on with the stream: subscribe, then the credentials.   *)
(* A failure here is the session's, and no further address is tried.       *)
OpenSession ==
  /\ dial = "session"
  /\ dial' = "connected"
  /\ stream' = [stream EXCEPT !.limit = TRUE,
                              !.sent = @ \o <<"subscribe", "authorize">>]
  /\ UNCHANGED <<place, addresses, tried, reads>>

OpeningFails ==
  /\ dial = "session"
  /\ dial' = "lost" /\ stream' = NoStream
  /\ UNCHANGED <<place, addresses, tried, reads>>

(* run's loop after an error and the delay: the next dial is a fresh one.  *)
SessionOver ==
  /\ dial \in {"connected", "failed", "lost"}
  /\ dial' = "idle" /\ to' = None /\ via' = None /\ addresses' = <<>>
  /\ stream' = NoStream /\ need' = 0 /\ got' = <<>>
  /\ listed' = <<>> /\ tried' = {} /\ asked' = {}

DialStep ==
  \/ Resolve \/ NextAddress \/ NoAddressLeft \/ OpenFails \/ Open
  \/ IoFails \/ Greet \/ Read \/ NotWelcome \/ IsWelcome \/ NotNameable
  \/ SendRequest \/ HeadFails \/ HeadRead \/ LengthRead \/ Negotiated
  \/ OpenSession \/ OpeningFails
----------------------------------------------------------------------------
(* External: the proxy, the pool and the network.                          *)
rest == <<dial, place, addresses, reads, tried>>

ProxyGreets ==
  /\ stream.peer = "greets" /\ ~stream.closed
  /\ \E reply \in GreetingReplies :
       stream' = [stream EXCEPT !.wire = @ \o reply, !.peer = "proxy"]
  /\ UNCHANGED rest

(* A proxy that was asked for a name reads as many bytes as it is told.    *)
Reaches(request) ==
  IF request.type = 3 /\ request.length # NameLength(request.host)
    THEN None ELSE request.host

ProxyReplies ==
  /\ stream.peer = "replies" /\ ~stream.closed
  /\ \E reply \in RequestReplies :
       stream' = [stream EXCEPT
         !.wire = @ \o reply,
         !.peer = IF OpensTunnel(reply) THEN "pool" ELSE "proxy",
         !.leads = IF OpensTunnel(reply) THEN Reaches(Last(stream.sent))
                   ELSE @]
  /\ UNCHANGED rest

PoolSpeaks ==
  /\ stream.peer = "pool" /\ ~stream.closed
  /\ stream.spoken < MaxPoolBytes
  /\ stream' = [stream EXCEPT !.wire = Append(@, PoolByte),
                              !.spoken = @ + 1]
  /\ UNCHANGED rest

HangUp ==
  /\ dial \in Dialogue /\ ~stream.closed
  /\ stream' = [stream EXCEPT !.closed = TRUE]
  /\ UNCHANGED rest

NetworkStep == ProxyGreets \/ ProxyReplies \/ PoolSpeaks \/ HangUp
=============================================================================
