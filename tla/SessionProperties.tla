------------------------- MODULE SessionProperties -------------------------
(***************************************************************************)
(* What the dialogue with the pool must get right.                         *)
(***************************************************************************)
EXTENDS Session, FiniteSets

SessionType == [target : Targets \cup {None},
                extraNonce1 : Nat \cup {None},
                nextExtraNonce2 : Nat]
HeaderType == [job : Jobs, extraNonce1 : Nat, extraNonce2 : Nat]
WorkType == [job : Jobs, extraNonce2 : Nat, target : Targets,
             header : HeaderType, connection : Nat, notice : Nat]
ShareType == [work : 1 .. Len(works), digest : Digests]
SubmissionType == [job : Jobs, extraNonce2 : Nat, digest : Digests,
                   connection : Nat, header : HeaderType]
RequestType == [id : Nat, method : {"subscribe", "authorize", "submit"}]
LineType ==
  [kind : {"target"}, target : Targets]
    \cup [kind : {"notify"}, job : Jobs, notice : Nat]
    \cup [kind : {"answer"}, id : Nat,
          method : {"subscribe", "authorize", "submit"},
          result : {"array", "true", "false", "error"}]

DialogueTypeOK ==
  /\ main \in {"outer", "loop", "drain", "read", "ended"}
  /\ connection \in Nat /\ session \in SessionType
  /\ requestId \in FirstShareId .. IdSpace - 1
  /\ accepted \in Nat /\ rejected \in Nat
  /\ torn \in BOOLEAN
  /\ notices \in Nat /\ found \in Nat
  /\ verdicts \in [accepted : Nat, rejected : Nat]

WorksTypeOK == works \in Seq(WorkType) /\ current \in 0 .. Len(works)

StreamTypeOK == asked \in Seq(RequestType) /\ said \in Seq(LineType)

SharesTypeOK ==
  /\ best \in Digests \cup {None}
  /\ shares \in Seq(ShareType)
  /\ submitted \subseteq SubmissionType /\ announced \subseteq ShareType

TypeOK == DialogueTypeOK /\ WorksTypeOK /\ StreamTypeOK /\ SharesTypeOK
----------------------------------------------------------------------------
(* The Work in hand came over this connection and is mined under the       *)
(* target the session has now, however targets, jobs, lost lines and       *)
(* reconnects are ordered.                                                 *)
HeldUnderTarget ==
  current # 0 =>
    /\ main \in {"loop", "drain", "read"}
    /\ works[current].target = session.target
    /\ works[current].connection = connection

(* A submission names the job, the extranonce2 and the connection from     *)
(* which the pool rebuilds exactly the header that was hashed, also after  *)
(* retargets of the job.                                                   *)
SubmissionsRebuild ==
  \A s \in submitted : s.header = Header(s.job, s.connection, s.extraNonce2)

(* Within a connection two Works hash the same header only if they come    *)
(* from one mining.notify, or if the job leaves no room for an extranonce. *)
JobsDiffer ==
  \A i, j \in DOMAIN works :
    /\ works[i].header = works[j].header
    /\ works[i].connection = works[j].connection
    => works[i].notice = works[j].notice \/ works[i].job \in DirectJobs

(* The best share is no worse than any share submitted since the process   *)
(* started, over whichever connection.                                     *)
BestCoversSubmitted ==
  \A s \in submitted : best # None /\ best <= s.digest

(* While a session lasts, each verdict of the pool is either counted, once *)
(* and under its own heading, or still on its way: a line that was torn    *)
(* apart by the read timeout costs the session, never a verdict.           *)
Verdict(results) ==
  [kind : {"answer"}, id : Nat, method : {"submit"}, result : results]
Hits(lines, wanted) == {i \in DOMAIN lines : lines[i] \in wanted}
Coming(wanted) == Cardinality(Hits(said, wanted))
VerdictsCounted ==
  main \in {"loop", "drain", "read"} =>
    /\ accepted + Coming(Verdict({"true"})) = verdicts.accepted
    /\ rejected + Coming(Verdict({"false", "error"})) = verdicts.rejected

(* Why the first ones hold: what each Work was built from.                 *)
WorksRebuild ==
  \A i \in DOMAIN works :
    works[i].header =
      Header(works[i].job, works[i].connection, works[i].extraNonce2)

(* Extranonces of this connection are of this connection.                  *)
SessionIsOfConnection ==
  session.extraNonce1 # None => session.extraNonce1 = connection

DialogueInv ==
  /\ HeldUnderTarget /\ WorksRebuild /\ SessionIsOfConnection
  /\ SubmissionsRebuild /\ BestCoversSubmitted

(* Why JobsDiffer holds: the extranonces of this connection's Works are    *)
(* behind the session's next one.                                          *)
ExtraNoncesTaken ==
  \A i \in DOMAIN works :
    /\ works[i].connection <= connection
    /\ works[i].connection = connection /\ works[i].job \notin DirectJobs =>
         works[i].extraNonce2 < session.nextExtraNonce2

(* Why VerdictsCounted holds: an answer's id tells whether it is a share's.*)
AnswersKnown ==
  /\ \A i \in DOMAIN asked :
       (asked[i].method = "submit") <=> (asked[i].id >= FirstShareId)
  /\ \A i \in DOMAIN said : said[i].kind = "answer" =>
       /\ (said[i].method = "submit") <=> (said[i].id >= FirstShareId)
       /\ said[i].result \in Results(said[i].method)

SessionInv ==
  TypeOK /\ DialogueInv /\ ExtraNoncesTaken /\ AnswersKnown
----------------------------------------------------------------------------
(* README.md:148: "a hash meeting it produces a prominent BLOCK CANDIDATE  *)
(* FOUND message before the share is submitted": no share that meets its   *)
(* network target leaves the channel unannounced while its very job is     *)
(* still in hand.                                                          *)
IsCandidate(share) ==
  /\ share.digest <= NetworkTarget(works[share.work].job)
  /\ current # 0 /\ works[current].header = works[share.work].header
CandidatesAnnounced ==
  [][shares # <<>> /\ shares' = Tail(shares) /\ IsCandidate(Head(shares))
       => Head(shares) \in announced']_vars
=============================================================================
