------------------------------ MODULE Session ------------------------------
(***************************************************************************)
(* The main thread's dialogue with the pool: run_session, handle_message   *)
(* and observe_share of src/miner.rs, SessionState of src/protocol.rs.     *)
(* The pool and the TCP stream are external: the pool answers requests in  *)
(* order and sends targets and jobs whenever it likes, and a line may      *)
(* arrive in parts.                                                        *)
(*                                                                         *)
(* Miner models how this thread shares the job with the workers.  Here the *)
(* workers are any source of shares for any Work ever published, and       *)
(* current is the Work whose epoch is active, if there is one: Miner's     *)
(* EpochNamesOneWork makes that one Work, and comparing epochs comparing   *)
(* Works.  The stop flag is Miner's too: here it may be up at any look.    *)
(***************************************************************************)
EXTENDS Naturals, Sequences

CONSTANTS
  Jobs,              \* what a mining.notify can carry
  DirectJobs,        \* those with a direct mid and so a fixed extranonce2
  NetworkTarget(_),  \* the network target of a job's nBits
  Targets, Digests,  \* sets of numbers; a smaller digest is a better one
  FirstShareId,      \* the first request id of a share; 10 in the code
  IdSpace,           \* request ids wrap here; 2^64 in the code
  None,
  MaxConnections,    \* bound: connections
  MaxNotices,        \* bound: targets and jobs the pool sends
  MaxShares          \* bound: shares found

ASSUME SessionAssumption ==
  /\ DirectJobs \subseteq Jobs
  /\ Targets \subseteq Nat /\ Digests \subseteq Nat
  /\ None \notin Nat
  /\ FirstShareId \in Nat /\ IdSpace \in Nat
  /\ 2 < FirstShareId /\ FirstShareId < IdSpace
  /\ MaxConnections \in Nat /\ MaxNotices \in Nat /\ MaxShares \in Nat

VARIABLES
  main,        \* "outer", "loop", "drain", "read" or "ended"
  connection,  \* names the connection, and the extranonce1 its pool gives
  session,     \* SessionState
  requestId,
  accepted, rejected,
  best,        \* BestShare: its hash, or None
  works,       \* every Work published; notice: history, the job it came from
  current,     \* the Work in hand, 0 if there is none
  shares,      \* the share channel
  asked,       \* requests on their way to the pool
  said,        \* lines on their way to the miner
  torn,        \* part of the first of them was read and thrown away
  notices, found,  \* bounded counters
  verdicts,    \* history: what the pool decided over this connection
  submitted,   \* history: every share submitted, with what was hashed
  announced    \* history: shares announced as block candidates

counters == <<requestId, accepted, rejected>>
jobs     == <<works, current>>
stream   == <<asked, said, torn>>
records  == <<best, submitted, announced>>
vars     == <<main, connection, session, counters, jobs, shares, stream,
              notices, found, verdicts, records>>
----------------------------------------------------------------------------
(* The 80 bytes workers hash: a direct mid leaves no room for extranonces. *)
Header(job, extraNonce1, extraNonce2) ==
  IF job \in DirectJobs
    THEN [job |-> job, extraNonce1 |-> 0, extraNonce2 |-> 0]
    ELSE [job |-> job, extraNonce1 |-> extraNonce1,
          extraNonce2 |-> extraNonce2]

(* SessionState::default; extraNonce1 is set together with the size that   *)
(* parse_job looks for.                                                    *)
NewSession == [target |-> None, extraNonce1 |-> None, nextExtraNonce2 |-> 0]

(* Mutant of NextId: ids wrap to zero.                                     *)
NextIdFromZero(id) == (id + 1) % IdSpace

NextId(id) ==
  LET next == (id + 1) % IdSpace
  IN  IF next < FirstShareId THEN FirstShareId ELSE next

Init ==
  /\ main = "outer" /\ connection = 0 /\ session = NewSession
  /\ requestId = FirstShareId /\ accepted = 0 /\ rejected = 0
  /\ best = None
  /\ works = <<>> /\ current = 0 /\ shares = <<>>
  /\ asked = <<>> /\ said = <<>> /\ torn = FALSE
  /\ notices = 0 /\ found = 0
  /\ verdicts = [accepted |-> 0, rejected |-> 0]
  /\ submitted = {} /\ announced = {}
----------------------------------------------------------------------------
(* Beginning and end of a session.                                         *)

(* Mutant of Connect: the best share is the session's own.                 *)
ConnectAfresh ==
  /\ main = "outer" /\ connection < MaxConnections
  /\ connection' = connection + 1
  /\ session' = NewSession
  /\ requestId' = FirstShareId /\ accepted' = 0 /\ rejected' = 0
  /\ asked' = <<[id |-> 1, method |-> "subscribe"],
                [id |-> 2, method |-> "authorize"]>>
  /\ said' = <<>> /\ torn' = FALSE
  /\ verdicts' = [accepted |-> 0, rejected |-> 0]
  /\ best' = None
  /\ main' = "loop"
  /\ UNCHANGED <<jobs, shares, notices, found, submitted, announced>>

Connect ==
  /\ main = "outer" /\ connection < MaxConnections
  /\ connection' = connection + 1
  /\ session' = NewSession
  /\ requestId' = FirstShareId /\ accepted' = 0 /\ rejected' = 0
  /\ asked' = <<[id |-> 1, method |-> "subscribe"],
                [id |-> 2, method |-> "authorize"]>>
  /\ said' = <<>> /\ torn' = FALSE
  /\ verdicts' = [accepted |-> 0, rejected |-> 0]
  /\ main' = "loop"
  /\ UNCHANGED <<jobs, shares, notices, found, records>>

(* run_session returns an error: the job in hand is withdrawn.             *)
EndSession == main' = "outer" /\ current' = 0

(* The stop flag is up (see Miner): run withdraws the job and ends.        *)
Stopped ==
  /\ main \in {"outer", "loop"}
  /\ main' = "ended" /\ current' = 0
  /\ UNCHANGED <<connection, session, counters, works, shares, stream,
                 notices, found, verdicts, records>>

EnterLoop ==
  /\ main = "loop"
  /\ main' = "drain"
  /\ UNCHANGED <<connection, session, counters, jobs, shares, stream,
                 notices, found, verdicts, records>>

(* End of stream, invalid JSON, client.reconnect, malformed parameters.    *)
SessionFails ==
  /\ main = "read"
  /\ EndSession
  /\ UNCHANGED <<connection, session, counters, works, shares, stream,
                 notices, found, verdicts, records>>
----------------------------------------------------------------------------
(* The share channel.                                                      *)

(* observe_share                                                           *)
Observe(share) ==
  /\ best' = IF best = None \/ share.digest < best THEN share.digest ELSE best
  /\ announced' = IF share.digest <= NetworkTarget(works[share.work].job)
                    THEN announced \cup {share} ELSE announced

DiscardShare ==
  /\ main = "drain" /\ shares # <<>> /\ Head(shares).work # current
  /\ shares' = Tail(shares)
  /\ UNCHANGED <<main, connection, session, counters, jobs, stream, notices,
                 found, verdicts, records>>

(* JobSpec::submission, with the header hashed as a history.               *)
Submission(share) ==
  LET work == works[share.work] IN
  [job |-> work.job, extraNonce2 |-> work.extraNonce2,
   digest |-> share.digest, connection |-> connection,
   header |-> work.header]

SubmitShare ==
  /\ main = "drain" /\ shares # <<>> /\ Head(shares).work = current
  /\ shares' = Tail(shares)
  /\ Observe(Head(shares))
  /\ submitted' = submitted \cup {Submission(Head(shares))}
  /\ asked' = Append(asked, [id |-> requestId, method |-> "submit"])
  /\ requestId' = NextId(requestId)
  /\ UNCHANGED <<main, connection, session, accepted, rejected, jobs, said,
                 torn, notices, found, verdicts>>

(* write_message fails after the share was observed.                       *)
SubmitFails ==
  /\ main = "drain" /\ shares # <<>> /\ Head(shares).work = current
  /\ shares' = Tail(shares)
  /\ Observe(Head(shares))
  /\ EndSession
  /\ UNCHANGED <<connection, session, counters, works, stream, notices,
                 found, verdicts, submitted>>

Drained ==
  /\ main = "drain" /\ shares = <<>>
  /\ main' = "read"
  /\ UNCHANGED <<connection, session, counters, jobs, shares, stream,
                 notices, found, verdicts, records>>
----------------------------------------------------------------------------
(* read_line, with its timeout of 25 ms.                                   *)

ReadNothing ==
  /\ main = "read"
  /\ main' = "loop"
  /\ UNCHANGED <<connection, session, counters, jobs, shares, stream,
                 notices, found, verdicts, records>>

(* The timeout strikes inside a line: line.clear() loses what was read.    *)
ReadPart ==
  /\ main = "read" /\ said # <<>>
  /\ torn' = TRUE
  /\ main' = "loop"
  /\ UNCHANGED <<connection, session, counters, jobs, shares, asked, said,
                 notices, found, verdicts, records>>

(* Mutant of ReadTorn: what does not parse is skipped.                     *)
SkipTorn ==
  /\ main = "read" /\ said # <<>> /\ torn
  /\ said' = Tail(said) /\ torn' = FALSE
  /\ main' = "loop"
  /\ UNCHANGED <<connection, session, counters, jobs, shares, asked,
                 notices, found, verdicts, records>>

(* The rest of a torn line is not JSON.                                    *)
ReadTorn ==
  /\ main = "read" /\ said # <<>> /\ torn
  /\ said' = Tail(said) /\ torn' = FALSE
  /\ EndSession
  /\ UNCHANGED <<connection, session, counters, works, shares, asked,
                 notices, found, verdicts, records>>

(* handle_message sees the next whole line.                                *)
Reads(kind) ==
  /\ main = "read" /\ said # <<>> /\ ~torn
  /\ Head(said).kind = kind
  /\ said' = Tail(said)
  /\ UNCHANGED <<connection, shares, asked, torn, notices, found, verdicts,
                 records>>

(* install_work                                                            *)
Install(work) ==
  /\ works' = Append(works, work)
  /\ current' = Len(works) + 1
  /\ main' = "loop"

(* Mutant of AllocateExtraNonce2: the next value is not counted up.        *)
ReuseExtraNonce2(job) == session' = session

(* A coinbase job takes the next extranonce2, a direct mid takes none.     *)
AllocateExtraNonce2(job) ==
  session' = IF job \in DirectJobs THEN session
             ELSE [session EXCEPT !.nextExtraNonce2 = @ + 1]

(* mining.notify: parse_job and install_work.                              *)
Notified ==
  LET job == Head(said).job
      extraNonce2 == IF job \in DirectJobs THEN 0 ELSE session.nextExtraNonce2
  IN
  /\ Reads("notify")
  /\ session.extraNonce1 # None /\ session.target # None
  /\ AllocateExtraNonce2(job)
  /\ Install([job |-> job, extraNonce2 |-> extraNonce2,
              target |-> session.target,
              header |-> Header(job, session.extraNonce1, extraNonce2),
              connection |-> connection, notice |-> Head(said).notice])
  /\ UNCHANGED counters

(* A job before the subscription's answer or before a target.              *)
NotifiedEarly ==
  /\ Reads("notify")
  /\ session.extraNonce1 = None \/ session.target = None
  /\ EndSession
  /\ UNCHANGED <<session, counters, works>>

(* Mutant of Retargeted: the copy gets an extranonce2 of its own.          *)
RetargetedAnew(work, t) ==
  [work EXCEPT !.target = t, !.extraNonce2 = session.nextExtraNonce2]

(* The job in hand under a new target; everything else is copied.          *)
Retargeted(work, t) == [work EXCEPT !.target = t]

(* Mutant of SetTarget: a new target waits for the next job.               *)
SetTargetOnly ==
  LET t == Head(said).target IN
  /\ Reads("target")
  /\ session' = [session EXCEPT !.target = t]
  /\ main' = "loop"
  /\ UNCHANGED <<counters, jobs>>

(* mining.set_target and mining.set_difficulty                             *)
SetTarget ==
  LET t == Head(said).target IN
  /\ Reads("target")
  /\ session' = [session EXCEPT !.target = t]
  /\ \/ current # 0 /\ Install(Retargeted(works[current], t))
     \/ current = 0 /\ main' = "loop" /\ UNCHANGED jobs
  /\ UNCHANGED counters

(* The answer to the subscription.                                         *)
Subscribed ==
  /\ Reads("answer")
  /\ Head(said).id = 1 /\ Head(said).result = "array"
  /\ session' = [session EXCEPT !.extraNonce1 = connection]
  /\ main' = "loop"
  /\ UNCHANGED <<counters, jobs>>

(* A refused subscription or authorization, or an answer of another shape. *)
Refused ==
  /\ Reads("answer")
  /\ \/ Head(said).id < FirstShareId /\ Head(said).result = "error"
     \/ Head(said).id = 1 /\ Head(said).result # "array"
     \/ Head(said).id = 2 /\ Head(said).result # "true"
  /\ EndSession
  /\ UNCHANGED <<session, counters, works>>

(* Authorized, or an id that is neither the handshake's nor a share's.     *)
Acknowledged ==
  /\ Reads("answer")
  /\ Head(said).result # "error"
  /\ \/ Head(said).id = 2 /\ Head(said).result = "true"
     \/ Head(said).id < FirstShareId /\ Head(said).id \notin {1, 2}
  /\ main' = "loop"
  /\ UNCHANGED <<session, counters, jobs>>

(* The verdict on a share.                                                 *)
ShareAnswered ==
  /\ Reads("answer")
  /\ Head(said).id >= FirstShareId
  /\ \/ /\ Head(said).result = "true"
        /\ accepted' = accepted + 1 /\ UNCHANGED rejected
     \/ /\ Head(said).result # "true"
        /\ rejected' = rejected + 1 /\ UNCHANGED accepted
  /\ main' = "loop"
  /\ UNCHANGED <<session, requestId, jobs>>

MainStep ==
  \/ Connect \/ Stopped \/ EnterLoop \/ SessionFails
  \/ DiscardShare \/ SubmitShare \/ SubmitFails \/ Drained
  \/ ReadNothing \/ ReadPart \/ ReadTorn
  \/ Notified \/ NotifiedEarly \/ SetTarget
  \/ Subscribed \/ Refused \/ Acknowledged \/ ShareAnswered
----------------------------------------------------------------------------
(* A worker finds a share for a Work it may hold for long.                 *)
FindShare(k, digest) ==
  /\ found < MaxShares
  /\ digest <= works[k].target
  /\ found' = found + 1
  /\ shares' = Append(shares, [work |-> k, digest |-> digest])
  /\ UNCHANGED <<main, connection, session, counters, jobs, stream, notices,
                 verdicts, records>>

(* The pool (external).                                                    *)
PoolStep(line) ==
  /\ main \notin {"outer", "ended"}
  /\ said' = Append(said, line)
  /\ UNCHANGED <<main, connection, session, counters, jobs, shares, torn,
                 found, records>>

PoolSetsTarget(t) ==
  /\ notices < MaxNotices
  /\ notices' = notices + 1
  /\ PoolStep([kind |-> "target", target |-> t])
  /\ UNCHANGED <<asked, verdicts>>

PoolSendsJob(job) ==
  /\ notices < MaxNotices
  /\ notices' = notices + 1
  /\ PoolStep([kind |-> "notify", job |-> job, notice |-> notices + 1])
  /\ UNCHANGED <<asked, verdicts>>

Results(method) ==
  IF method = "subscribe" THEN {"array", "error"}
                          ELSE {"true", "false", "error"}

PoolAnswers(result) ==
  /\ asked # <<>> /\ result \in Results(Head(asked).method)
  /\ asked' = Tail(asked)
  /\ PoolStep([kind |-> "answer", id |-> Head(asked).id,
               method |-> Head(asked).method, result |-> result])
  /\ verdicts' = IF Head(asked).method # "submit" THEN verdicts
                 ELSE IF result = "true"
                   THEN [verdicts EXCEPT !.accepted = @ + 1]
                   ELSE [verdicts EXCEPT !.rejected = @ + 1]
  /\ UNCHANGED notices

(* run has returned.                                                       *)
Terminated == main = "ended" /\ UNCHANGED vars

Next ==
  \/ MainStep
  \/ \E k \in DOMAIN works, d \in Digests : FindShare(k, d)
  \/ \E t \in Targets : PoolSetsTarget(t)
  \/ \E job \in Jobs : PoolSendsJob(job)
  \/ \E result \in {"array", "true", "false", "error"} : PoolAnswers(result)
  \/ Terminated

Spec == Init /\ [][Next]_vars
=============================================================================
