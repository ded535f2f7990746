------------------------------ MODULE Startup ------------------------------
(***************************************************************************)
(* The process from its first step to its exit as its main thread takes    *)
(* it: Devices up to the workers, then one Dial after the other with the   *)
(* endpoints of the Config, each followed by a session that ends, until    *)
(* stop is seen between two of them.  What the threads do meanwhile is     *)
(* Miner, what the session says Session.                                   *)
(***************************************************************************)
EXTENDS Devices, Dial

vars == <<devicesVars, dialVars>>

Init == DevicesInit /\ DialInit

(* The loop of run: connect with what the Config says.                     *)
BeginDial ==
  /\ start = "running"
  /\ Connect(config.endpoint, config.socks5_proxy)
  /\ UNCHANGED devicesVars

(* run looks at stop between two sessions.                                 *)
Stop ==
  /\ start = "running" /\ dial = "idle"
  /\ start' = "closing"
  /\ UNCHANGED <<input, api, left, backends, lost, dialVars>>

MainStep ==
  \/ DevicesStep /\ UNCHANGED dialVars
  \/ BeginDial
  \/ (DialStep \/ SessionOver) /\ UNCHANGED devicesVars
  \/ Stop

Terminated == start \in {"failed", "exited"} /\ UNCHANGED vars

Next ==
  \/ MainStep
  \/ NetworkStep /\ UNCHANGED devicesVars
  \/ Terminated

Spec == Init /\ [][Next]_vars

(* A step of connect is taken when it can be: a read or a write returns    *)
(* with something done, an error, or at its timeout if there is one.       *)
FairSpec == Spec /\ WF_vars(DialStep /\ UNCHANGED devicesVars)
=============================================================================
