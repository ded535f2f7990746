--------------------------- MODULE SessionProofs ---------------------------
(***************************************************************************)
(* The dialogue with the pool, for any jobs, targets, digests and numbers  *)
(* of connections, notices and shares: types first, then the invariant     *)
(* that ties the Work in hand, the submissions and the best share          *)
(* together.                                                               *)
(***************************************************************************)
EXTENDS SessionProperties, FiniteSetTheorems, FunctionTheorems, TLAPS

(* Request ids stay clear of the handshake's.                              *)
LEMMA NextIdIsShareId ==
  ASSUME NEW id \in Nat
  PROVE  NextId(id) \in FirstShareId .. IdSpace - 1
  BY SessionAssumption DEF NextId

(* A header is made of numbers.                                            *)
LEMMA HeaderIsHeader ==
  ASSUME NEW job \in Jobs, NEW a \in Nat, NEW b \in Nat
  PROVE  Header(job, a, b) \in HeaderType
  BY DEF Header, HeaderType

(* The types hold when run begins.                                         *)
LEMMA SessionTypeInit == Init => TypeOK
<1> SUFFICES ASSUME Init PROVE TypeOK
  OBVIOUS
<1> USE SessionAssumption DEF Init
<1>1. DialogueTypeOK
  <2>1. session \in SessionType
    BY DEF NewSession, SessionType
  <2>2. requestId \in FirstShareId .. IdSpace - 1
    OBVIOUS
  <2>3. verdicts \in [accepted : Nat, rejected : Nat]
    OBVIOUS
  <2> QED BY <2>1, <2>2, <2>3 DEF DialogueTypeOK
<1>2. WorksTypeOK /\ StreamTypeOK
  BY DEF WorksTypeOK, StreamTypeOK
<1>3. SharesTypeOK
  BY DEF SharesTypeOK
<1> QED BY <1>1, <1>2, <1>3 DEF TypeOK

(* Works only grow: shares keep naming one.                                *)
LEMMA MoreWorksKeepShares ==
  ASSUME TypeOK, Len(works') \in Nat, Len(works') >= Len(works),
         UNCHANGED <<shares, records>>
  PROVE  SharesTypeOK'
<1>1. ShareType \subseteq ShareType'
  BY DEF TypeOK, WorksTypeOK, ShareType
<1> QED BY <1>1 DEF TypeOK, SharesTypeOK, records, SubmissionType

(* Taking the first line off the stream leaves lines.                      *)
LEMMA ReadingKeepsStream ==
  ASSUME TypeOK, said # <<>>, said' = Tail(said), asked' = asked
  PROVE  StreamTypeOK' /\ Head(said) \in LineType
  BY DEF TypeOK, StreamTypeOK

(* Installing a well-typed Work.                                           *)
LEMMA InstallKeepsWorks ==
  ASSUME TypeOK, NEW work \in WorkType, Install(work),
         UNCHANGED <<shares, records>>
  PROVE  WorksTypeOK' /\ SharesTypeOK' /\ main' = "loop"
<1>1. /\ works' \in Seq(WorkType) /\ Len(works') = Len(works) + 1
      /\ current' \in 0 .. Len(works')
  BY DEF TypeOK, WorksTypeOK, Install
<1>2. Len(works) \in Nat
  BY DEF TypeOK, WorksTypeOK
<1> QED BY <1>1, <1>2, MoreWorksKeepShares DEF WorksTypeOK, Install

(* What handle_message does with each line is well typed.                  *)
LEMMA HandlingKeepsType ==
  ASSUME TypeOK,
         \/ Notified \/ NotifiedEarly \/ SetTarget \/ Subscribed
         \/ Refused \/ Acknowledged \/ ShareAnswered
  PROVE  TypeOK'
<1> USE DEF Reads
<1>0. StreamTypeOK' /\ Head(said) \in LineType
  BY ReadingKeepsStream DEF Notified, NotifiedEarly, SetTarget, Subscribed,
                            Refused, Acknowledged, ShareAnswered
<1>1. ASSUME UNCHANGED works, UNCHANGED <<shares, records>>,
             current' \in {0, current}
      PROVE  WorksTypeOK' /\ SharesTypeOK'
  <2>1. WorksTypeOK'
    BY <1>1 DEF TypeOK, WorksTypeOK
  <2> QED BY <2>1, <1>1, MoreWorksKeepShares DEF TypeOK, WorksTypeOK
<1>2. CASE Notified
  <2> DEFINE job == Head(said).job
             extraNonce2 == IF job \in DirectJobs THEN 0
                            ELSE session.nextExtraNonce2
             work == [job |-> job, extraNonce2 |-> extraNonce2,
                      target |-> session.target,
                      header |-> Header(job, session.extraNonce1, extraNonce2),
                      connection |-> connection, notice |-> Head(said).notice]
  <2>1. /\ job \in Jobs /\ Head(said).notice \in Nat
        /\ session.target \in Targets /\ session.extraNonce1 \in Nat
        /\ extraNonce2 \in Nat /\ connection \in Nat
    BY <1>0, <1>2 DEF Notified, LineType, TypeOK, DialogueTypeOK, SessionType
  <2>2. work \in WorkType
    BY <2>1, HeaderIsHeader DEF WorkType
  <2>3. Install(work)
    BY <1>2 DEF Notified
  <2>4. WorksTypeOK' /\ SharesTypeOK' /\ main' = "loop"
    BY <2>2, <2>3, <1>2, InstallKeepsWorks DEF Notified
  <2>5. session' \in SessionType
    BY <1>2 DEF Notified, AllocateExtraNonce2, TypeOK, DialogueTypeOK,
                SessionType
  <2>6. DialogueTypeOK'
    BY <2>4, <2>5, <1>2 DEF Notified, TypeOK, DialogueTypeOK, counters
  <2> QED BY <1>0, <2>4, <2>6 DEF TypeOK
<1>3. CASE NotifiedEarly \/ Refused
  <2>1. WorksTypeOK' /\ SharesTypeOK'
    BY <1>1, <1>3 DEF NotifiedEarly, Refused, EndSession
  <2>2. DialogueTypeOK'
    BY <1>3 DEF NotifiedEarly, Refused, EndSession, TypeOK, DialogueTypeOK,
                counters
  <2> QED BY <1>0, <2>1, <2>2 DEF TypeOK
<1>4. CASE SetTarget
  <2> DEFINE t == Head(said).target
  <2>1. t \in Targets
    BY <1>0, <1>4 DEF SetTarget, LineType
  <2>2. session' \in SessionType
    BY <2>1, <1>4 DEF SetTarget, TypeOK, DialogueTypeOK, SessionType
  <2>3. WorksTypeOK' /\ SharesTypeOK' /\ main' = "loop"
    <3>1. CASE current # 0 /\ Install(Retargeted(works[current], t))
      <4>1. Retargeted(works[current], t) \in WorkType
        <5>1. works[current] \in WorkType
          BY <3>1 DEF TypeOK, WorksTypeOK
        <5> QED BY <5>1, <2>1 DEF Retargeted, WorkType
      <4> QED BY <4>1, <3>1, <1>4, InstallKeepsWorks DEF SetTarget
    <3>2. CASE current = 0 /\ main' = "loop" /\ UNCHANGED jobs
      BY <3>2, <1>1, <1>4 DEF SetTarget, jobs
    <3> QED BY <3>1, <3>2, <1>4 DEF SetTarget
  <2>4. DialogueTypeOK'
    BY <2>2, <2>3, <1>4 DEF SetTarget, TypeOK, DialogueTypeOK, counters
  <2> QED BY <1>0, <2>3, <2>4 DEF TypeOK
<1>5. CASE Subscribed \/ Acknowledged \/ ShareAnswered
  <2>1. WorksTypeOK' /\ SharesTypeOK'
    BY <1>1, <1>5 DEF Subscribed, Acknowledged, ShareAnswered, jobs
  <2>2. session' \in SessionType
    BY <1>5 DEF Subscribed, Acknowledged, ShareAnswered, TypeOK,
                DialogueTypeOK, SessionType
  <2>3. accepted' \in Nat /\ rejected' \in Nat
    BY <1>5 DEF Subscribed, Acknowledged, ShareAnswered, TypeOK,
                DialogueTypeOK, counters
  <2>4. DialogueTypeOK'
    BY <2>2, <2>3, <1>5 DEF Subscribed, Acknowledged, ShareAnswered, TypeOK,
                            DialogueTypeOK, counters
  <2> QED BY <1>0, <2>1, <2>4 DEF TypeOK
<1> QED BY <1>2, <1>3, <1>4, <1>5

(* Connecting, reading without effect and the share channel.               *)
LEMMA DialogueKeepsType ==
  ASSUME TypeOK,
         \/ Connect \/ Stopped \/ EnterLoop \/ SessionFails
         \/ DiscardShare \/ SubmitShare \/ SubmitFails \/ Drained
         \/ ReadNothing \/ ReadPart \/ ReadTorn
  PROVE  TypeOK'
<1>1. Len(works') = Len(works) /\ Len(works) \in Nat /\ works' = works
  BY DEF TypeOK, WorksTypeOK, Connect, Stopped, EnterLoop, SessionFails,
         DiscardShare, SubmitShare, SubmitFails, Drained, ReadNothing,
         ReadPart, ReadTorn, jobs
<1>2. ShareType' = ShareType
  BY <1>1 DEF ShareType
<1>3. CASE Connect
  <2>1. session' \in SessionType
    BY <1>3 DEF Connect, NewSession, SessionType
  <2>2. verdicts' \in [accepted : Nat, rejected : Nat]
    BY <1>3 DEF Connect
  <2>3. requestId' \in FirstShareId .. IdSpace - 1
    BY <1>3, SessionAssumption DEF Connect
  <2>4. DialogueTypeOK'
    <3>1. /\ main' = "loop" /\ connection' \in Nat /\ accepted' \in Nat
          /\ rejected' \in Nat /\ notices' \in Nat /\ found' \in Nat
      BY <1>3 DEF Connect, TypeOK, DialogueTypeOK
    <3>2. torn' \in BOOLEAN
      BY <1>3 DEF Connect
    <3> QED BY <2>1, <2>2, <2>3, <3>1, <3>2 DEF DialogueTypeOK
  <2>5. StreamTypeOK'
    BY <1>3, SessionAssumption DEF Connect, StreamTypeOK, RequestType
  <2>6. SharesTypeOK' /\ WorksTypeOK'
    BY <1>1, <1>2, <1>3 DEF Connect, TypeOK, SharesTypeOK, WorksTypeOK,
                            SubmissionType, records, jobs
  <2> QED BY <2>4, <2>5, <2>6 DEF TypeOK
<1>4. CASE Stopped \/ EnterLoop \/ SessionFails \/ DiscardShare \/ Drained
           \/ ReadNothing \/ ReadPart \/ ReadTorn
  <2> USE <1>4 DEF Stopped, EnterLoop, SessionFails, DiscardShare, Drained,
                   ReadNothing, ReadPart, ReadTorn, EndSession, counters,
                   jobs, stream, records
  <2>1. DialogueTypeOK'
    <3>1. torn' \in BOOLEAN
      BY DEF TypeOK, DialogueTypeOK
    <3> QED BY <3>1 DEF TypeOK, DialogueTypeOK
  <2>2. StreamTypeOK'
    BY DEF TypeOK, StreamTypeOK
  <2>3. WorksTypeOK'
    BY DEF TypeOK, WorksTypeOK
  <2>4. SharesTypeOK'
    BY <1>2 DEF TypeOK, SharesTypeOK, SubmissionType
  <2> QED BY <2>1, <2>2, <2>3, <2>4 DEF TypeOK
<1>5. CASE SubmitShare \/ SubmitFails
  <2>1. Head(shares) \in ShareType /\ shares' \in Seq(ShareType)
    <3>1. shares \in Seq(ShareType) /\ shares # <<>> /\ shares' = Tail(shares)
      BY <1>5 DEF SubmitShare, SubmitFails, TypeOK, SharesTypeOK
    <3> QED BY <3>1
  <2>2. best' \in Digests \cup {None} /\ announced' \subseteq ShareType
    BY <1>5, <2>1 DEF SubmitShare, SubmitFails, Observe, TypeOK, SharesTypeOK,
                      ShareType
  <2>3. Submission(Head(shares)) \in SubmissionType
    <3>1. works[Head(shares).work] \in WorkType
      BY <2>1 DEF TypeOK, WorksTypeOK, ShareType
    <3> QED BY <2>1, <3>1 DEF Submission, SubmissionType, WorkType, ShareType,
                              TypeOK, DialogueTypeOK
  <2>4. SharesTypeOK'
    <3>1. submitted' \subseteq SubmissionType
      BY <1>5, <2>3 DEF SubmitShare, SubmitFails, TypeOK, SharesTypeOK
    <3> QED BY <1>2, <2>1, <2>2, <3>1 DEF SharesTypeOK, SubmissionType
  <2>5. requestId' \in FirstShareId .. IdSpace - 1 /\ requestId \in Nat
    <3>1. requestId \in FirstShareId .. IdSpace - 1 /\ requestId \in Nat
      BY SessionAssumption DEF TypeOK, DialogueTypeOK
    <3>2. requestId' = requestId \/ requestId' = NextId(requestId)
      BY <1>5 DEF SubmitShare, SubmitFails, counters
    <3> QED BY <3>1, <3>2, NextIdIsShareId
  <2>6. DialogueTypeOK'
    BY <1>5, <2>5 DEF SubmitShare, SubmitFails, EndSession, TypeOK,
                      DialogueTypeOK, counters, stream
  <2>7. StreamTypeOK'
    <3>1. [id |-> requestId, method |-> "submit"] \in RequestType
      BY <2>5 DEF RequestType
    <3>2. said' = said
      BY <1>5 DEF SubmitShare, SubmitFails, stream
    <3>3. \/ asked' = asked
          \/ asked' = Append(asked, [id |-> requestId, method |-> "submit"])
      BY <1>5 DEF SubmitShare, SubmitFails, stream
    <3> QED BY <3>1, <3>2, <3>3 DEF TypeOK, StreamTypeOK
  <2>8. WorksTypeOK'
    BY <1>1, <1>5 DEF SubmitShare, SubmitFails, EndSession, TypeOK,
                      WorksTypeOK, jobs
  <2> QED BY <2>4, <2>6, <2>7, <2>8 DEF TypeOK
<1> QED BY <1>3, <1>4, <1>5

(* The workers and the pool.                                               *)
LEMMA OthersKeepType ==
  ASSUME TypeOK,
         \/ \E k \in DOMAIN works, d \in Digests : FindShare(k, d)
         \/ \E t \in Targets : PoolSetsTarget(t)
         \/ \E job \in Jobs : PoolSendsJob(job)
         \/ \E result \in {"array", "true", "false", "error"} :
              PoolAnswers(result)
         \/ Terminated
         \/ UNCHANGED vars
  PROVE  TypeOK'
<1>1. works' = works /\ current' = current
  BY DEF FindShare, PoolSetsTarget, PoolSendsJob, PoolAnswers, PoolStep,
         Terminated, vars, jobs
<1>2. ShareType' = ShareType /\ WorksTypeOK'
  BY <1>1 DEF ShareType, TypeOK, WorksTypeOK
<1>3. ASSUME NEW k \in DOMAIN works, NEW d \in Digests, FindShare(k, d)
      PROVE  TypeOK'
  <2>1. [work |-> k, digest |-> d] \in ShareType
    BY <1>3 DEF ShareType, TypeOK, WorksTypeOK
  <2>2. SharesTypeOK'
    BY <1>2, <1>3, <2>1 DEF FindShare, TypeOK, SharesTypeOK, SubmissionType,
                            records
  <2>3. DialogueTypeOK' /\ StreamTypeOK'
    BY <1>3 DEF FindShare, TypeOK, DialogueTypeOK, StreamTypeOK, counters,
                stream
  <2> QED BY <1>2, <2>2, <2>3 DEF TypeOK
<1>4. ASSUME UNCHANGED <<shares, records>> PROVE SharesTypeOK'
  BY <1>2, <1>4 DEF TypeOK, SharesTypeOK, SubmissionType, records
<1>5. ASSUME NEW line \in LineType, PoolStep(line),
             asked' \in Seq(RequestType), notices' \in Nat,
             verdicts' \in [accepted : Nat, rejected : Nat]
      PROVE  TypeOK'
  BY <1>2, <1>4, <1>5 DEF PoolStep, TypeOK, DialogueTypeOK, StreamTypeOK,
                          counters
<1>6. ASSUME NEW t \in Targets, PoolSetsTarget(t) PROVE TypeOK'
  BY <1>5, <1>6 DEF PoolSetsTarget, LineType, TypeOK, DialogueTypeOK,
                    StreamTypeOK
<1>7. ASSUME NEW job \in Jobs, PoolSendsJob(job) PROVE TypeOK'
  BY <1>5, <1>7 DEF PoolSendsJob, LineType, TypeOK, DialogueTypeOK,
                    StreamTypeOK
<1>8. ASSUME NEW result \in {"array", "true", "false", "error"},
             PoolAnswers(result)
      PROVE  TypeOK'
  <2>1. Head(asked) \in RequestType /\ asked' \in Seq(RequestType)
    BY <1>8 DEF PoolAnswers, TypeOK, StreamTypeOK
  <2>2. verdicts' \in [accepted : Nat, rejected : Nat]
    BY <1>8 DEF PoolAnswers, TypeOK, DialogueTypeOK
  <2>3. [kind |-> "answer", id |-> Head(asked).id,
         method |-> Head(asked).method, result |-> result] \in LineType
    BY <2>1 DEF LineType, RequestType
  <2> QED BY <1>5, <1>8, <2>1, <2>2, <2>3 DEF PoolAnswers, TypeOK,
                                              DialogueTypeOK
<1>9. CASE Terminated \/ UNCHANGED vars
  BY <1>2, <1>4, <1>9 DEF Terminated, vars, TypeOK, DialogueTypeOK,
                          StreamTypeOK, counters, stream
<1> QED BY <1>3, <1>6, <1>7, <1>8, <1>9

(* Every variable of the dialogue keeps its type.                          *)
THEOREM SessionTypeCorrect == Spec => []TypeOK
<1>1. Init => TypeOK
  BY SessionTypeInit
<1>2. TypeOK /\ [Next]_vars => TypeOK'
  BY HandlingKeepsType, DialogueKeepsType, OthersKeepType DEF Next, MainStep
<1> QED BY <1>1, <1>2, PTL DEF Spec

(* The dialogue's invariant holds when run begins.                         *)
LEMMA DialogueInit == Init => DialogueInv
  BY DEF Init, NewSession, DialogueInv, HeldUnderTarget, WorksRebuild,
         SessionIsOfConnection, SubmissionsRebuild, BestCoversSubmitted

(* Steps that leave the Works, the submissions and the best share alone.   *)
LEMMA QuietStepsKeepDialogue ==
  ASSUME DialogueInv, works' = works, submitted' = submitted, best' = best,
         \/ current' = 0
         \/ /\ current' = current /\ connection' = connection
            /\ session'.target = session.target
            /\ main' \in {"loop", "drain", "read"} \/ main' = main,
         SessionIsOfConnection'
  PROVE  DialogueInv'
  BY DEF DialogueInv, HeldUnderTarget, WorksRebuild, SubmissionsRebuild,
         BestCoversSubmitted

(* A new Work that was built for this connection and the session's target. *)
LEMMA InstallKeepsDialogue ==
  ASSUME TypeOK, DialogueInv, NEW work, Install(work),
         submitted' = submitted, best' = best, connection' = connection,
         work.header = Header(work.job, work.connection, work.extraNonce2),
         work.connection = connection, work.target = session'.target,
         session'.extraNonce1 = session.extraNonce1
  PROVE  DialogueInv'
<1>1. Len(works) \in Nat /\ works \in Seq(WorkType)
  BY DEF TypeOK, WorksTypeOK
<1>2. /\ Len(works') = Len(works) + 1
      /\ current' = Len(works) + 1 /\ works'[current'] = work
      /\ \A i \in DOMAIN works : works'[i] = works[i]
      /\ DOMAIN works' = DOMAIN works \cup {Len(works) + 1}
  BY <1>1 DEF Install
<1>3. HeldUnderTarget'
  BY <1>2 DEF HeldUnderTarget, Install
<1>4. WorksRebuild'
  <2> SUFFICES ASSUME NEW i \in DOMAIN works'
               PROVE  works'[i].header = Header(works'[i].job,
                                works'[i].connection, works'[i].extraNonce2)
    BY DEF WorksRebuild
  <2>1. CASE i \in DOMAIN works
    BY <1>2, <2>1 DEF DialogueInv, WorksRebuild
  <2>2. CASE i = Len(works) + 1
    BY <1>2, <2>2
  <2> QED BY <1>2, <2>1, <2>2
<1> QED
  BY <1>3, <1>4 DEF DialogueInv, SessionIsOfConnection, SubmissionsRebuild,
                    BestCoversSubmitted

(* A share taken from the channel for submission.                          *)
LEMMA SubmittingKeepsDialogue ==
  ASSUME TypeOK, DialogueInv, SubmitShare \/ SubmitFails
  PROVE  DialogueInv'
<1> DEFINE share == Head(shares)
<1>1. /\ shares \in Seq(ShareType) /\ shares # <<>>
      /\ share.work = current /\ Observe(share)
      /\ works' = works /\ connection' = connection /\ session' = session
  BY DEF SubmitShare, SubmitFails, TypeOK, SharesTypeOK, jobs
<1>2. share \in ShareType
  BY <1>1
<1>3. current # 0 /\ current \in DOMAIN works /\ share.digest \in Nat
  <2>1. share.work \in 1 .. Len(works) /\ share.digest \in Digests
    BY <1>2 DEF ShareType
  <2>2. Len(works) \in Nat /\ works \in Seq(WorkType)
    BY DEF TypeOK, WorksTypeOK
  <2>3. share.digest \in Nat
    BY <2>1, SessionAssumption
  <2>4. current \in 1 .. Len(works)
    BY <1>1, <2>1
  <2>5. current # 0 /\ current \in DOMAIN works
    BY <2>2, <2>4
  <2> QED BY <2>3, <2>5
<1>4. best \in Nat \cup {None} /\ None \notin Nat
  BY SessionAssumption DEF TypeOK, SharesTypeOK
<1>5. /\ best' \in Nat /\ best' # None /\ best' <= share.digest
      /\ best # None => best' <= best
  BY <1>1, <1>3, <1>4 DEF Observe
<1>6. submitted' = submitted \/ submitted' = submitted \cup {Submission(share)}
  BY DEF SubmitShare, SubmitFails
<1>7. Submission(share).digest = share.digest
  BY DEF Submission
<1>8. BestCoversSubmitted'
  <2> SUFFICES ASSUME NEW s \in submitted' PROVE best' <= s.digest
    BY <1>5 DEF BestCoversSubmitted
  <2>1. CASE s \in submitted
    <3>1. best # None /\ best <= s.digest /\ s.digest \in Nat
      BY <2>1, SessionAssumption DEF DialogueInv, BestCoversSubmitted, TypeOK,
                                     SharesTypeOK, SubmissionType
    <3> QED BY <3>1, <1>4, <1>5
  <2>2. CASE s = Submission(share)
    BY <2>2, <1>5, <1>7
  <2> QED BY <1>6, <2>1, <2>2
<1>9. SubmissionsRebuild'
  <2> SUFFICES ASSUME NEW s \in submitted'
               PROVE  s.header = Header(s.job, s.connection, s.extraNonce2)
    BY DEF SubmissionsRebuild
  <2>1. CASE s \in submitted
    BY <2>1 DEF DialogueInv, SubmissionsRebuild
  <2>2. CASE s = Submission(share)
    <3>1. /\ s.job = works[current].job /\ s.connection = connection
          /\ s.extraNonce2 = works[current].extraNonce2
          /\ s.header = works[current].header
      BY <2>2, <1>1 DEF Submission
    <3>2. works[current].connection = connection
      BY <1>3 DEF DialogueInv, HeldUnderTarget
    <3> QED BY <3>1, <3>2, <1>3 DEF DialogueInv, WorksRebuild
  <2> QED BY <1>6, <2>1, <2>2
<1>10. HeldUnderTarget'
  BY <1>1 DEF SubmitShare, SubmitFails, EndSession, DialogueInv,
              HeldUnderTarget, jobs
<1> QED BY <1>1, <1>8, <1>9, <1>10 DEF DialogueInv, WorksRebuild,
                                       SessionIsOfConnection

(* Every step keeps the dialogue's invariant.                              *)
LEMMA DialogueStep ==
  ASSUME TypeOK, DialogueInv, [Next]_vars PROVE DialogueInv'
<1>1. CASE Connect
  BY <1>1, QuietStepsKeepDialogue
     DEF Connect, NewSession, DialogueInv, HeldUnderTarget,
         SessionIsOfConnection, jobs, records
<1>2. CASE \/ Stopped \/ EnterLoop \/ SessionFails \/ DiscardShare \/ Drained
           \/ ReadNothing \/ ReadPart \/ ReadTorn
  BY <1>2, QuietStepsKeepDialogue
     DEF Stopped, EnterLoop, SessionFails, DiscardShare, Drained, ReadNothing,
         ReadPart, ReadTorn, EndSession, DialogueInv, SessionIsOfConnection,
         jobs, records
<1>3. CASE SubmitShare \/ SubmitFails
  BY <1>3, SubmittingKeepsDialogue
<1>4. CASE NotifiedEarly \/ Refused \/ Acknowledged \/ ShareAnswered
  BY <1>4, QuietStepsKeepDialogue
     DEF NotifiedEarly, Refused, Acknowledged, ShareAnswered, Reads,
         EndSession, DialogueInv, SessionIsOfConnection, jobs, records
<1>5. CASE Subscribed
  <2>1. /\ session'.extraNonce1 = connection
        /\ session'.target = session.target
    BY <1>5 DEF Subscribed, TypeOK, DialogueTypeOK, SessionType
  <2> QED BY <1>5, <2>1, QuietStepsKeepDialogue
             DEF Subscribed, Reads, SessionIsOfConnection, jobs, records
<1>6. CASE Notified
  <2> DEFINE job == Head(said).job
             extraNonce2 == IF job \in DirectJobs THEN 0
                            ELSE session.nextExtraNonce2
             work == [job |-> job, extraNonce2 |-> extraNonce2,
                      target |-> session.target,
                      header |-> Header(job, session.extraNonce1, extraNonce2),
                      connection |-> connection, notice |-> Head(said).notice]
  <2>1. Install(work) /\ session.extraNonce1 # None
    BY <1>6 DEF Notified
  <2>2. /\ session'.extraNonce1 = session.extraNonce1
        /\ session'.target = session.target
    BY <1>6 DEF Notified, AllocateExtraNonce2, TypeOK, DialogueTypeOK,
                SessionType
  <2>3. session.extraNonce1 = connection
    BY <2>1 DEF DialogueInv, SessionIsOfConnection
  <2>4. /\ work.header = Header(work.job, work.connection, work.extraNonce2)
        /\ work.connection = connection /\ work.target = session'.target
    BY <2>2, <2>3
  <2>5. /\ submitted' = submitted /\ best' = best /\ connection' = connection
    BY <1>6 DEF Notified, Reads, records
  <2> HIDE DEF work
  <2> QED BY <2>1, <2>2, <2>4, <2>5, InstallKeepsDialogue
<1>7. CASE SetTarget
  <2> DEFINE t == Head(said).target
  <2>1. /\ session'.extraNonce1 = session.extraNonce1
        /\ session'.target = t
    BY <1>7 DEF SetTarget, TypeOK, DialogueTypeOK, SessionType
  <2>2. /\ submitted' = submitted /\ best' = best /\ connection' = connection
    BY <1>7 DEF SetTarget, Reads, records
  <2>3. CASE current # 0 /\ Install(Retargeted(works[current], t))
    <3> DEFINE old == works[current]
               work == Retargeted(old, t)
    <3>1. current \in DOMAIN works /\ old \in WorkType
      BY <2>3 DEF TypeOK, WorksTypeOK
    <3>2. /\ work.job = old.job /\ work.connection = old.connection
          /\ work.extraNonce2 = old.extraNonce2 /\ work.header = old.header
          /\ work.target = t
      BY <3>1 DEF Retargeted, WorkType
    <3>3. old.connection = connection
      BY <2>3 DEF DialogueInv, HeldUnderTarget
    <3>4. old.header = Header(old.job, old.connection, old.extraNonce2)
      BY <3>1 DEF DialogueInv, WorksRebuild
    <3>5. /\ work.header = Header(work.job, work.connection, work.extraNonce2)
          /\ work.connection = connection /\ work.target = session'.target
      BY <2>1, <3>2, <3>3, <3>4
    <3>6. Install(work)
      BY <2>3
    <3> HIDE DEF work
    <3> QED BY <2>1, <2>2, <3>5, <3>6, InstallKeepsDialogue
  <2>4. CASE current = 0 /\ main' = "loop" /\ UNCHANGED jobs
    BY <2>1, <2>2, <2>4, QuietStepsKeepDialogue
       DEF DialogueInv, SessionIsOfConnection, jobs
  <2> QED BY <1>7, <2>3, <2>4 DEF SetTarget
<1>8. CASE \/ \E k \in DOMAIN works, d \in Digests : FindShare(k, d)
           \/ \E t \in Targets : PoolSetsTarget(t)
           \/ \E job \in Jobs : PoolSendsJob(job)
           \/ \E result \in {"array", "true", "false", "error"} :
                PoolAnswers(result)
           \/ Terminated
           \/ UNCHANGED vars
  <2>1. UNCHANGED <<main, connection, session, jobs, records>>
    BY <1>8 DEF FindShare, PoolSetsTarget, PoolSendsJob, PoolAnswers,
                PoolStep, Terminated, vars
  <2> QED BY <2>1, QuietStepsKeepDialogue
             DEF DialogueInv, SessionIsOfConnection, jobs, records
<1> QED
  BY <1>1, <1>2, <1>3, <1>4, <1>5, <1>6, <1>7, <1>8 DEF Next, MainStep

(* Steps that publish nothing keep what is known of the extranonces taken. *)
LEMMA QuietStepsKeepExtraNonces ==
  ASSUME TypeOK, ExtraNoncesTaken, works' = works, connection' = connection,
         session'.nextExtraNonce2 = session.nextExtraNonce2
  PROVE  ExtraNoncesTaken'
BY DEF ExtraNoncesTaken

(* A published Work is of this connection, and behind the next extranonce. *)
LEMMA InstallKeepsExtraNonces ==
  ASSUME TypeOK, ExtraNoncesTaken, NEW work \in WorkType, Install(work),
         connection' = connection,
         session'.nextExtraNonce2 \in Nat,
         session'.nextExtraNonce2 >= session.nextExtraNonce2,
         work.connection = connection,
         work.job \notin DirectJobs =>
           work.extraNonce2 < session'.nextExtraNonce2
  PROVE  ExtraNoncesTaken'
<1>1. works \in Seq(WorkType) /\ works' = Append(works, work)
  BY DEF TypeOK, WorksTypeOK, Install
<1>2. connection \in Nat /\ session.nextExtraNonce2 \in Nat
  BY DEF TypeOK, DialogueTypeOK, SessionType
<1> SUFFICES ASSUME NEW i \in DOMAIN works'
             PROVE  /\ works'[i].connection <= connection
                    /\ works'[i].connection = connection
                         /\ works'[i].job \notin DirectJobs =>
                         works'[i].extraNonce2 < session'.nextExtraNonce2
  BY DEF ExtraNoncesTaken
<1>3. CASE i \in DOMAIN works
  <2>1. works'[i] = works[i] /\ works[i] \in WorkType
    BY <1>1, <1>3
  <2>2. works[i].extraNonce2 \in Nat /\ works[i].connection \in Nat
    BY <2>1 DEF WorkType
  <2> QED BY <2>1, <2>2, <1>2, <1>3 DEF ExtraNoncesTaken
<1>4. CASE i = Len(works) + 1
  <2>1. works'[i] = work
    BY <1>1, <1>4
  <2> QED BY <2>1, <1>2
<1> QED BY <1>1, <1>3, <1>4

(* Every step keeps it: a connection starts anew at 0, a job of mining     *)
(* notify takes the next one, a retarget copies one that is taken.         *)
LEMMA StepKeepsExtraNonces ==
  ASSUME TypeOK, DialogueInv, ExtraNoncesTaken, [Next]_vars
  PROVE  ExtraNoncesTaken'
<1>0. connection \in Nat /\ session \in SessionType
  BY DEF TypeOK, DialogueTypeOK
<1>1. CASE Connect
  <2>1. works' = works /\ connection' = connection + 1
    BY <1>1 DEF Connect, jobs
  <2>2. \A i \in DOMAIN works : works[i].connection \in Nat
    <3>1. \A i \in DOMAIN works : works[i] \in WorkType
      BY DEF TypeOK, WorksTypeOK
    <3> QED BY <3>1 DEF WorkType
  <2> QED BY <1>0, <2>1, <2>2 DEF ExtraNoncesTaken
<1>2. CASE \/ Stopped \/ EnterLoop \/ SessionFails \/ DiscardShare \/ Drained
           \/ ReadNothing \/ ReadPart \/ ReadTorn \/ SubmitShare \/ SubmitFails
           \/ NotifiedEarly \/ Refused \/ Acknowledged \/ ShareAnswered
  <2>1. works' = works /\ connection' = connection /\ session' = session
    BY <1>2 DEF Stopped, EnterLoop, SessionFails, DiscardShare, Drained,
         ReadNothing, ReadPart, ReadTorn, SubmitShare, SubmitFails,
         NotifiedEarly, Refused, Acknowledged, ShareAnswered, Reads, jobs
  <2> QED BY <2>1, QuietStepsKeepExtraNonces
<1>3. CASE Subscribed
  <2>1. /\ works' = works /\ connection' = connection
        /\ session' = [session EXCEPT !.extraNonce1 = connection]
    BY <1>3 DEF Subscribed, Reads, jobs
  <2> QED BY <1>0, <2>1, QuietStepsKeepExtraNonces DEF SessionType
<1>4. CASE Notified
  <2> DEFINE job == Head(said).job
             extraNonce2 == IF job \in DirectJobs THEN 0
                            ELSE session.nextExtraNonce2
             work == [job |-> job, extraNonce2 |-> extraNonce2,
                      target |-> session.target,
                      header |-> Header(job, session.extraNonce1, extraNonce2),
                      connection |-> connection, notice |-> Head(said).notice]
  <2>1. Install(work) /\ connection' = connection
    BY <1>4 DEF Notified, Reads
  <2>2. AllocateExtraNonce2(job)
    BY <1>4 DEF Notified
  <2>3. work \in WorkType
    <3>1. job \in Jobs /\ Head(said).notice \in Nat
      BY <1>4 DEF Notified, Reads, TypeOK, StreamTypeOK, LineType
    <3>2. session.target \in Targets /\ session.extraNonce1 \in Nat
      BY <1>0, <1>4 DEF Notified, SessionType
    <3>3. extraNonce2 \in Nat
      BY <1>0 DEF SessionType
    <3>4. Header(job, session.extraNonce1, extraNonce2) \in HeaderType
      BY <3>1, <3>2, <3>3, HeaderIsHeader
    <3> QED BY <1>0, <3>1, <3>2, <3>3, <3>4 DEF WorkType
  <2>4. /\ session'.nextExtraNonce2 \in Nat
        /\ session'.nextExtraNonce2 >= session.nextExtraNonce2
        /\ job \notin DirectJobs =>
             extraNonce2 < session'.nextExtraNonce2
    BY <1>0, <2>2 DEF AllocateExtraNonce2, SessionType
  <2>5. /\ work.connection = connection /\ work.job = job
        /\ work.extraNonce2 = extraNonce2
    OBVIOUS
  <2> HIDE DEF work, job, extraNonce2
  <2> QED BY <2>1, <2>3, <2>4, <2>5, InstallKeepsExtraNonces
<1>5. CASE SetTarget
  <2> DEFINE t == Head(said).target
             old == works[current]
             work == Retargeted(old, t)
  <2>1. /\ connection' = connection
        /\ session'.nextExtraNonce2 = session.nextExtraNonce2
        /\ session.nextExtraNonce2 \in Nat
    BY <1>0, <1>5 DEF SetTarget, Reads, SessionType
  <2>2. CASE current # 0 /\ Install(work)
    <3>1. current \in DOMAIN works /\ old \in WorkType
      BY <2>2 DEF TypeOK, WorksTypeOK
    <3>2. t \in Targets
      BY <1>5 DEF SetTarget, Reads, TypeOK, StreamTypeOK, LineType
    <3>3. /\ work \in WorkType
          /\ work.job = old.job /\ work.connection = old.connection
          /\ work.extraNonce2 = old.extraNonce2
      BY <3>1, <3>2 DEF Retargeted, WorkType
    <3>4. old.connection = connection
      BY <2>2 DEF DialogueInv, HeldUnderTarget
    <3>5. old.job \notin DirectJobs =>
            old.extraNonce2 < session.nextExtraNonce2
      BY <3>1, <3>4 DEF ExtraNoncesTaken
    <3> HIDE DEF work, old
    <3> QED BY <2>1, <2>2, <3>3, <3>4, <3>5, InstallKeepsExtraNonces
  <2>3. CASE UNCHANGED jobs
    BY <2>1, <2>3, QuietStepsKeepExtraNonces DEF jobs
  <2> QED BY <1>5, <2>2, <2>3 DEF SetTarget
<1>6. CASE \/ \E k \in DOMAIN works, d \in Digests : FindShare(k, d)
           \/ \E t \in Targets : PoolSetsTarget(t)
           \/ \E job \in Jobs : PoolSendsJob(job)
           \/ \E result \in {"array", "true", "false", "error"} :
                PoolAnswers(result)
           \/ Terminated
           \/ UNCHANGED vars
  <2>1. UNCHANGED <<connection, session, jobs>>
    BY <1>6 DEF FindShare, PoolSetsTarget, PoolSendsJob, PoolAnswers,
                PoolStep, Terminated, vars
  <2> QED BY <2>1, QuietStepsKeepExtraNonces DEF jobs
<1> QED
  BY <1>1, <1>2, <1>3, <1>4, <1>5, <1>6 DEF Next, MainStep

(* Requests and answers carry share ids exactly if they are a share's.     *)
LEMMA StepKeepsAnswers ==
  ASSUME TypeOK, AnswersKnown, [Next]_vars PROVE AnswersKnown'
<1> DEFINE Told(request) ==
             (request.method = "submit") <=> (request.id >= FirstShareId)
           Heard(line) ==
             line.kind = "answer" =>
               Told(line) /\ line.result \in Results(line.method)
<1>0. /\ asked \in Seq(RequestType) /\ said \in Seq(LineType)
      /\ \A i \in DOMAIN asked : Told(asked[i])
      /\ \A i \in DOMAIN said : Heard(said[i])
  BY DEF TypeOK, StreamTypeOK, AnswersKnown
<1>1. /\ 1 < FirstShareId /\ 2 < FirstShareId
      /\ requestId >= FirstShareId
  BY SessionAssumption DEF TypeOK, DialogueTypeOK
<1>2. SUFFICES /\ \A i \in DOMAIN asked' : Told(asked'[i])
               /\ \A i \in DOMAIN said' : Heard(said'[i])
  BY DEF AnswersKnown
<1>3. CASE Connect
  <2>1. /\ said' = <<>>
        /\ asked' = <<[id |-> 1, method |-> "subscribe"],
                      [id |-> 2, method |-> "authorize"]>>
    BY <1>3 DEF Connect
  <2>2. \A i \in DOMAIN asked' : asked'[i] \in
          {[id |-> 1, method |-> "subscribe"],
           [id |-> 2, method |-> "authorize"]}
    BY <2>1
  <2>3. \A i \in DOMAIN asked' : /\ asked'[i].method # "submit"
                                 /\ asked'[i].id \in {1, 2}
    BY <2>2
  <2>4. DOMAIN said' = {}
    BY <2>1
  <2> QED BY <1>1, <2>3, <2>4, SessionAssumption
<1>4. CASE UNCHANGED <<asked, said>>
  BY <1>0, <1>4
<1>5. CASE SubmitShare
  <2> DEFINE request == [id |-> requestId, method |-> "submit"]
  <2>1. said' = said /\ asked' = Append(asked, request) /\ Told(request)
    BY <1>1, <1>5 DEF SubmitShare
  <2> HIDE DEF request, Told
  <2>2. \A i \in DOMAIN asked' : asked'[i] \in {asked[j] : j \in DOMAIN asked}
                                             \cup {request}
    BY <1>0, <2>1
  <2> QED BY <1>0, <2>1, <2>2
<1>6. CASE asked' = asked /\ said # <<>> /\ said' = Tail(said)
  <2> HIDE DEF Told, Heard
  <2>1. \A i \in DOMAIN said' : i + 1 \in DOMAIN said /\ said'[i] = said[i + 1]
    BY <1>0, <1>6
  <2> QED BY <1>0, <1>6, <2>1
<1>7. ASSUME NEW line \in LineType, Heard(line), said' = Append(said, line),
             \/ asked' = asked
             \/ asked # <<>> /\ asked' = Tail(asked)
      PROVE  /\ \A i \in DOMAIN asked' : Told(asked'[i])
             /\ \A i \in DOMAIN said' : Heard(said'[i])
  <2> HIDE DEF Told, Heard
  <2>1. \A i \in DOMAIN said' : said'[i] \in {said[j] : j \in DOMAIN said}
                                            \cup {line}
    BY <1>0, <1>7
  <2>2. \A i \in DOMAIN asked' : asked'[i] \in {asked[j] : j \in DOMAIN asked}
    BY <1>0, <1>7
  <2> QED BY <1>0, <1>7, <2>1, <2>2
<1>8. ASSUME NEW t \in Targets, PoolSetsTarget(t)
      PROVE  /\ \A i \in DOMAIN asked' : Told(asked'[i])
             /\ \A i \in DOMAIN said' : Heard(said'[i])
  <2> DEFINE line == [kind |-> "target", target |-> t]
  <2>1. line \in LineType /\ line.kind # "answer"
    BY DEF LineType
  <2>2. said' = Append(said, line) /\ asked' = asked
    BY <1>8 DEF PoolSetsTarget, PoolStep
  <2> HIDE DEF line, Told
  <2> QED BY <1>7, <2>1, <2>2
<1>9. ASSUME NEW job \in Jobs, PoolSendsJob(job)
      PROVE  /\ \A i \in DOMAIN asked' : Told(asked'[i])
             /\ \A i \in DOMAIN said' : Heard(said'[i])
  <2> DEFINE line == [kind |-> "notify", job |-> job, notice |-> notices + 1]
  <2>1. line \in LineType /\ line.kind # "answer"
    BY DEF LineType, TypeOK, DialogueTypeOK
  <2>2. said' = Append(said, line) /\ asked' = asked
    BY <1>9 DEF PoolSendsJob, PoolStep
  <2> HIDE DEF line, Told
  <2> QED BY <1>7, <2>1, <2>2
<1>10. ASSUME NEW result \in {"array", "true", "false", "error"},
              PoolAnswers(result)
       PROVE  /\ \A i \in DOMAIN asked' : Told(asked'[i])
              /\ \A i \in DOMAIN said' : Heard(said'[i])
  <2> DEFINE line == [kind |-> "answer", id |-> Head(asked).id,
                      method |-> Head(asked).method, result |-> result]
  <2>1. /\ asked # <<>> /\ asked' = Tail(asked) /\ said' = Append(said, line)
        /\ result \in Results(Head(asked).method)
    BY <1>10 DEF PoolAnswers, PoolStep
  <2>2. Head(asked) \in RequestType /\ Told(Head(asked))
    BY <1>0, <2>1
  <2>3. line \in LineType
    BY <2>2 DEF RequestType, LineType
  <2>4. Heard(line)
    BY <2>1, <2>2
  <2> HIDE DEF line, Told, Heard
  <2> QED BY <1>7, <2>1, <2>3, <2>4
<1> HIDE DEF Told, Heard
<1>11. \/ Connect \/ SubmitShare \/ UNCHANGED <<asked, said>>
       \/ asked' = asked /\ said # <<>> /\ said' = Tail(said)
       \/ \E t \in Targets : PoolSetsTarget(t)
       \/ \E job \in Jobs : PoolSendsJob(job)
       \/ \E result \in {"array", "true", "false", "error"} :
            PoolAnswers(result)
  BY DEF Next, MainStep, Stopped, EnterLoop, SessionFails, DiscardShare,
         SubmitFails, Drained, ReadNothing, ReadPart, ReadTorn, Notified,
         NotifiedEarly, SetTarget, Subscribed, Refused, Acknowledged,
         ShareAnswered, Reads, FindShare, Terminated, vars, stream
<1> QED BY <1>3, <1>4, <1>5, <1>6, <1>8, <1>9, <1>10, <1>11

(* The invariant of the dialogue.                                          *)
THEOREM SessionCorrect == Spec => []SessionInv
<1>1. Init => DialogueInv /\ ExtraNoncesTaken /\ AnswersKnown
  <2>1. Init => ExtraNoncesTaken /\ AnswersKnown
    BY DEF Init, ExtraNoncesTaken, AnswersKnown
  <2> QED BY <2>1, DialogueInit
<1>2. TypeOK /\ DialogueInv /\ ExtraNoncesTaken /\ AnswersKnown /\ [Next]_vars
        => DialogueInv' /\ ExtraNoncesTaken' /\ AnswersKnown'
  BY DialogueStep, StepKeepsExtraNonces, StepKeepsAnswers
<1> QED BY <1>1, <1>2, SessionTypeCorrect, PTL DEF Spec, SessionInv

(* HeldUnderTarget: the job in hand is this pool's, under its target.      *)
THEOREM TargetInForce == Spec => []HeldUnderTarget
<1>1. SessionInv => HeldUnderTarget
  BY DEF SessionInv, DialogueInv
<1> QED BY <1>1, SessionCorrect, PTL

(* SubmissionsRebuild: the pool rebuilds the header that was hashed.       *)
THEOREM PoolRebuildsHeaders == Spec => []SubmissionsRebuild
<1>1. SessionInv => SubmissionsRebuild
  BY DEF SessionInv, DialogueInv
<1> QED BY <1>1, SessionCorrect, PTL

(* BestCoversSubmitted: the best share outlives its session.               *)
THEOREM BestShareIsBest == Spec => []BestCoversSubmitted
<1>1. SessionInv => BestCoversSubmitted
  BY DEF SessionInv, DialogueInv
<1> QED BY <1>1, SessionCorrect, PTL

(* Publishing a Work whose header no other notice of the connection had.   *)
LEMMA InstallKeepsJobsApart ==
  ASSUME TypeOK, JobsDiffer, NEW work, Install(work),
         \A i \in DOMAIN works :
           /\ works[i].header = work.header
           /\ works[i].connection = work.connection
           => \/ works[i].notice = work.notice
              \/ works[i].job \in DirectJobs /\ work.job \in DirectJobs
  PROVE  JobsDiffer'
<1>1. works' = Append(works, work) /\ DOMAIN works = 1 .. Len(works)
  BY DEF TypeOK, WorksTypeOK, Install
<1>2. /\ Len(works) \in Nat /\ DOMAIN works' = 1 .. Len(works) + 1
      /\ \A i \in DOMAIN works : works'[i] = works[i]
      /\ works'[Len(works) + 1] = work
  BY <1>1 DEF TypeOK, WorksTypeOK
<1> QED
  BY <1>1, <1>2 DEF JobsDiffer

(* JobsDiffer: no two notices of a connection are mined as one header.     *)
THEOREM JobsAreDifferent == Spec => []JobsDiffer
<1>1. Init => JobsDiffer
  BY DEF Init, JobsDiffer
<1>2. ASSUME SessionInv, JobsDiffer, [Next]_vars PROVE JobsDiffer'
  <2>0. TypeOK /\ DialogueInv /\ ExtraNoncesTaken
    BY <1>2 DEF SessionInv
  <2>1. CASE Notified
    <3> DEFINE job == Head(said).job
               extraNonce2 == IF job \in DirectJobs THEN 0
                              ELSE session.nextExtraNonce2
               work == [job |-> job, extraNonce2 |-> extraNonce2,
                        target |-> session.target,
                        header |->
                          Header(job, session.extraNonce1, extraNonce2),
                        connection |-> connection,
                        notice |-> Head(said).notice]
    <3>1. Install(work)
      BY <2>1 DEF Notified
    <3>2. ASSUME NEW i \in DOMAIN works, works[i].header = work.header,
                 works[i].connection = work.connection
          PROVE  works[i].job \in DirectJobs /\ work.job \in DirectJobs
      <4>1. /\ works[i].header = Header(works[i].job, works[i].connection,
                                        works[i].extraNonce2)
            /\ work.header = Header(job, session.extraNonce1, extraNonce2)
        BY <2>0 DEF DialogueInv, WorksRebuild
      <4>2. works[i].job = job
        BY <3>2, <4>1 DEF Header
      <4>3. job \notin DirectJobs => works[i].extraNonce2 = extraNonce2
        BY <3>2, <4>1, <4>2 DEF Header
      <4>4. job \notin DirectJobs =>
              works[i].extraNonce2 < session.nextExtraNonce2
        BY <2>0, <3>2, <4>2 DEF ExtraNoncesTaken
      <4>5. session.nextExtraNonce2 \in Nat
        BY <2>0 DEF TypeOK, DialogueTypeOK, SessionType
      <4> QED BY <4>2, <4>3, <4>4, <4>5
    <3> HIDE DEF work
    <3> QED BY <1>2, <2>0, <3>1, <3>2, InstallKeepsJobsApart
  <2>2. CASE SetTarget
    <3> DEFINE t == Head(said).target
               old == works[current]
               work == Retargeted(old, t)
    <3>1. CASE current # 0 /\ Install(work)
      <4>1. current \in DOMAIN works /\ old \in WorkType
        BY <2>0, <3>1 DEF TypeOK, WorksTypeOK
      <4>2. /\ work.header = old.header /\ work.connection = old.connection
            /\ work.notice = old.notice /\ work.job = old.job
        BY <4>1 DEF Retargeted, WorkType
      <4>3. \A i \in DOMAIN works :
              works[i].header = old.header => works[i].job = old.job
        <5>1. \A i \in DOMAIN works :
                works[i].header = Header(works[i].job, works[i].connection,
                                         works[i].extraNonce2)
          BY <2>0 DEF DialogueInv, WorksRebuild
        <5>2. \A a, b, c : Header(a, b, c).job = a
          BY DEF Header
        <5> HIDE DEF old
        <5>3. old.header.job = old.job
          BY <4>1, <5>1, <5>2 DEF old
        <5> QED BY <5>1, <5>2, <5>3
      <4>4. \A i \in DOMAIN works :
              /\ works[i].header = old.header
              /\ works[i].connection = old.connection
              => \/ works[i].notice = old.notice
                 \/ works[i].job \in DirectJobs /\ old.job \in DirectJobs
        BY <1>2, <4>1, <4>3 DEF JobsDiffer
      <4> HIDE DEF work, old
      <4> QED BY <1>2, <2>0, <3>1, <4>2, <4>4, InstallKeepsJobsApart
    <3>2. CASE UNCHANGED jobs
      BY <1>2, <3>2 DEF JobsDiffer, jobs
    <3> QED BY <2>2, <3>1, <3>2 DEF SetTarget
  <2>3. CASE UNCHANGED works
    BY <1>2, <2>3 DEF JobsDiffer
  <2>4. Notified \/ SetTarget \/ UNCHANGED works
    BY <1>2 DEF Next, MainStep, Connect, Stopped, EnterLoop, SessionFails,
         DiscardShare, SubmitShare, SubmitFails, Drained, ReadNothing,
         ReadPart, ReadTorn, NotifiedEarly, Subscribed, Refused,
         Acknowledged, ShareAnswered, Reads, FindShare, PoolSetsTarget,
         PoolSendsJob, PoolAnswers, PoolStep, Terminated, vars, jobs
  <2> QED BY <2>1, <2>2, <2>3, <2>4
<1> QED BY <1>1, <1>2, SessionCorrect, PTL DEF Spec

(* The lines that count are finitely many.                                 *)
LEMMA HitsAreFinite ==
  ASSUME NEW S, NEW lines \in Seq(S), NEW wanted
  PROVE  /\ IsFiniteSet(Hits(lines, wanted))
         /\ Cardinality(Hits(lines, wanted)) \in Nat
<1>1. DOMAIN lines = 1 .. Len(lines) /\ Len(lines) \in Nat
  OBVIOUS
<1>2. IsFiniteSet(1 .. Len(lines))
  BY <1>1, FS_Interval
<1>3. Hits(lines, wanted) \in SUBSET (1 .. Len(lines))
  BY <1>1 DEF Hits
<1>4. IsFiniteSet(Hits(lines, wanted))
  BY <1>2, <1>3, FS_Subset
<1> QED BY <1>4, FS_CardinalityType

(* A line appended counts if it is wanted.                                 *)
LEMMA HitsOfAppend ==
  ASSUME NEW S, NEW lines \in Seq(S), NEW line \in S, NEW wanted
  PROVE  Cardinality(Hits(Append(lines, line), wanted)) =
           IF line \in wanted THEN Cardinality(Hits(lines, wanted)) + 1
                              ELSE Cardinality(Hits(lines, wanted))
<1> DEFINE more == Append(lines, line)
           n == Len(lines) + 1
<1>1. /\ DOMAIN lines = 1 .. Len(lines) /\ Len(lines) \in Nat
      /\ DOMAIN more = 1 .. n /\ more[n] = line
      /\ \A i \in 1 .. Len(lines) : more[i] = lines[i]
  OBVIOUS
<1> HIDE DEF more
<1>2. n \notin Hits(lines, wanted)
  BY <1>1 DEF Hits
<1>3. Hits(more, wanted) = IF line \in wanted THEN Hits(lines, wanted) \cup {n}
                                              ELSE Hits(lines, wanted)
  <2>1. \A i : i \in 1 .. n <=> i \in 1 .. Len(lines) \/ i = n
    BY <1>1
  <2> HIDE DEF n
  <2> QED BY <1>1, <2>1 DEF Hits
<1>4. IsFiniteSet(Hits(lines, wanted))
  BY HitsAreFinite
<1> HIDE DEF n
<1>5. Cardinality(Hits(lines, wanted) \cup {n}) =
        Cardinality(Hits(lines, wanted)) + 1
  BY <1>2, <1>4, FS_AddElement
<1> QED BY <1>3, <1>5 DEF more

(* Taking the first line takes it out of the count if it was wanted.       *)
LEMMA HitsOfTail ==
  ASSUME NEW S, NEW lines \in Seq(S), lines # <<>>, NEW wanted
  PROVE  Cardinality(Hits(lines, wanted)) =
           IF Head(lines) \in wanted
             THEN Cardinality(Hits(Tail(lines), wanted)) + 1
             ELSE Cardinality(Hits(Tail(lines), wanted))
<1> DEFINE rest == Tail(lines)
           A == Hits(rest, wanted)
           B == Hits(lines, wanted) \ {1}
           f == [i \in A |-> i + 1]
<1>1. /\ DOMAIN lines = 1 .. Len(lines) /\ Len(lines) \in Nat
      /\ Len(lines) > 0 /\ Head(lines) = lines[1]
      /\ rest \in Seq(S) /\ DOMAIN rest = 1 .. Len(lines) - 1
      /\ \A i \in 1 .. Len(lines) - 1 : rest[i] = lines[i + 1]
  OBVIOUS
<1> HIDE DEF rest
<1>2. A = {i \in 1 .. Len(lines) - 1 : lines[i + 1] \in wanted}
  BY <1>1 DEF Hits
<1>3. B = {i \in 2 .. Len(lines) : lines[i] \in wanted}
  BY <1>1 DEF Hits
<1>4. f \in Bijection(A, B)
  <2>1. f \in [A -> B]
    BY <1>1, <1>2, <1>3
  <2>2. \A x, y \in A : f[x] = f[y] => x = y
    BY <1>1, <1>2
  <2>3. \A y \in B : \E x \in A : f[x] = y
    <3> SUFFICES ASSUME NEW y \in B PROVE \E x \in A : f[x] = y
      OBVIOUS
    <3>1. y - 1 \in A /\ f[y - 1] = y
      BY <1>1, <1>2, <1>3
    <3> QED BY <3>1
  <2> HIDE DEF f, A, B
  <2> QED BY <2>1, <2>2, <2>3, Fun_IsBij
<1>5. IsFiniteSet(A) /\ IsFiniteSet(Hits(lines, wanted))
  BY <1>1, HitsAreFinite
<1>6. Cardinality(B) = Cardinality(A)
  <2> HIDE DEF f, A, B
  <2> QED BY <1>4, <1>5, FS_Bijection DEF ExistsBijection
<1>7. /\ Cardinality(Hits(lines, wanted)) \in Nat
      /\ Cardinality(B) = IF 1 \in Hits(lines, wanted)
                            THEN Cardinality(Hits(lines, wanted)) - 1
                            ELSE Cardinality(Hits(lines, wanted))
  BY <1>5, FS_RemoveElement, FS_CardinalityType
<1>8. 1 \in Hits(lines, wanted) <=> Head(lines) \in wanted
  BY <1>1 DEF Hits
<1>9. Cardinality(A) \in Nat
  BY <1>5, FS_CardinalityType
<1> HIDE DEF A, B
<1>10. Cardinality(Hits(lines, wanted)) =
         IF Head(lines) \in wanted THEN Cardinality(A) + 1 ELSE Cardinality(A)
  BY <1>6, <1>7, <1>8, <1>9
<1> QED BY <1>10 DEF A, rest

(* A step that reads no share's answer and no pool has sent one leaves the *)
(* count alone.                                                            *)
LEMMA QuietStepsKeepVerdicts ==
  ASSUME VerdictsCounted, verdicts' = verdicts, said' = said,
         UNCHANGED <<accepted, rejected>>,
         main' \in {"loop", "drain", "read"} =>
           main \in {"loop", "drain", "read"}
  PROVE  VerdictsCounted'
BY DEF VerdictsCounted, Coming

(* Reading a line that is no share's answer leaves the count alone.        *)
LEMMA OtherLinesKeepVerdicts ==
  ASSUME TypeOK, VerdictsCounted, main \in {"loop", "drain", "read"},
         said # <<>>, said' = Tail(said), verdicts' = verdicts,
         UNCHANGED <<accepted, rejected>>,
         Head(said).kind = "answer" => Head(said).method # "submit"
  PROVE  VerdictsCounted'
<1>1. \A results : Head(said) \notin Verdict(results)
  BY DEF Verdict
<1>2. said \in Seq(LineType)
  BY DEF TypeOK, StreamTypeOK
<1>3. \A wanted : Head(said) \notin wanted =>
        Cardinality(Hits(Tail(said), wanted)) = Cardinality(Hits(said, wanted))
  BY <1>2, HitsOfTail
<1> QED BY <1>1, <1>3 DEF VerdictsCounted, Coming

(* VerdictsCounted: no verdict is lost, counted twice or under the other   *)
(* heading while the session lasts.                                        *)
THEOREM EveryVerdictCounts == Spec => []VerdictsCounted
<1>1. Init => VerdictsCounted
  BY DEF Init, VerdictsCounted
<1>2. ASSUME SessionInv, VerdictsCounted, [Next]_vars PROVE VerdictsCounted'
  <2> DEFINE Good == Verdict({"true"})
             Bad == Verdict({"false", "error"})
  <2>0. TypeOK /\ AnswersKnown /\ said \in Seq(LineType)
        /\ asked \in Seq(RequestType)
    BY <1>2 DEF SessionInv, TypeOK, StreamTypeOK
  <2>1. CASE Connect
    <3>1. /\ said' = <<>> /\ accepted' = 0 /\ rejected' = 0
          /\ verdicts'.accepted = 0 /\ verdicts'.rejected = 0
      BY <2>1 DEF Connect
    <3> HIDE DEF Good, Bad
    <3>2. /\ accepted' + Cardinality(Hits(said', Good)) = verdicts'.accepted
          /\ rejected' + Cardinality(Hits(said', Bad)) = verdicts'.rejected
      <4>1. Cardinality({}) = 0
        BY FS_EmptySet
      <4>2. DOMAIN said' = {}
        BY <3>1
      <4>3. Hits(said', Good) = {} /\ Hits(said', Bad) = {}
        BY <4>2 DEF Hits
      <4>4. /\ Cardinality(Hits(said', Good)) = 0
            /\ Cardinality(Hits(said', Bad)) = 0
        BY <4>1, <4>3, Zenon
      <4> QED BY <3>1, <4>4
    <3> QED BY <3>2 DEF VerdictsCounted, Coming, Good, Bad
  <2>2. CASE main' \in {"outer", "ended"}
    BY <2>2 DEF VerdictsCounted
  <2>3. CASE \/ EnterLoop \/ DiscardShare \/ SubmitShare \/ Drained
             \/ ReadNothing \/ ReadPart
             \/ \E k \in DOMAIN works, d \in Digests : FindShare(k, d)
             \/ Terminated \/ UNCHANGED vars
    BY <1>2, <2>3, QuietStepsKeepVerdicts
       DEF EnterLoop, DiscardShare, SubmitShare, Drained, ReadNothing,
           ReadPart, FindShare, Terminated, vars, counters, stream
  <2>4. CASE Notified \/ SetTarget \/ Subscribed \/ Acknowledged
    <3>1. /\ main = "read" /\ said # <<>> /\ said' = Tail(said)
          /\ verdicts' = verdicts /\ UNCHANGED <<accepted, rejected>>
      BY <2>4 DEF Notified, SetTarget, Subscribed, Acknowledged, Reads,
                  counters
    <3>2. 1 \in DOMAIN said /\ Head(said) = said[1]
      BY <2>0, <3>1
    <3>3. Head(said).kind = "answer" => Head(said).method # "submit"
      <4>1. CASE Notified \/ SetTarget
        BY <4>1 DEF Notified, SetTarget, Reads
      <4>2. CASE Subscribed \/ Acknowledged
        <5>1. ~(Head(said).id >= FirstShareId) \/ Head(said).kind # "answer"
          <6>1. Head(said) \in LineType
            BY <2>0, <3>2
          <6>2. Head(said).kind = "answer" => Head(said).id \in Nat
            BY <6>1 DEF LineType
          <6> QED BY <4>2, <6>2, SessionAssumption
                  DEF Subscribed, Acknowledged
        <5> QED BY <2>0, <3>2, <5>1 DEF AnswersKnown
      <4> QED BY <2>4, <4>1, <4>2
    <3> QED BY <1>2, <2>0, <3>1, <3>3, OtherLinesKeepVerdicts
  <2>5. CASE ShareAnswered
    <3>1. /\ main = "read" /\ said # <<>> /\ said' = Tail(said)
          /\ verdicts' = verdicts /\ Head(said).kind = "answer"
          /\ Head(said).id >= FirstShareId
      BY <2>5 DEF ShareAnswered, Reads
    <3>2. /\ 1 \in DOMAIN said /\ Head(said) = said[1]
          /\ Head(said) \in LineType
      BY <2>0, <3>1
    <3>3. /\ Head(said).method = "submit" /\ Head(said).id \in Nat
          /\ Head(said).result \in {"true", "false", "error"}
      BY <2>0, <3>1, <3>2 DEF AnswersKnown, Results, LineType
    <3>4. /\ Head(said) \in Good <=> Head(said).result = "true"
          /\ Head(said) \in Bad <=> Head(said).result # "true"
      <4>1. Head(said) \in [kind : {"answer"}, id : Nat,
                            method : {"subscribe", "authorize", "submit"},
                            result : {"array", "true", "false", "error"}]
        BY <3>1, <3>2 DEF LineType
      <4> QED BY <3>3, <4>1 DEF Verdict
    <3> HIDE DEF Good, Bad
    <3>5. /\ Cardinality(Hits(said, Good)) =
               IF Head(said) \in Good
                 THEN Cardinality(Hits(Tail(said), Good)) + 1
                 ELSE Cardinality(Hits(Tail(said), Good))
          /\ Cardinality(Hits(said, Bad)) =
               IF Head(said) \in Bad
                 THEN Cardinality(Hits(Tail(said), Bad)) + 1
                 ELSE Cardinality(Hits(Tail(said), Bad))
      BY <2>0, <3>1, HitsOfTail
    <3>6. Tail(said) \in Seq(LineType)
      BY <2>0, <3>1
    <3>7. /\ Cardinality(Hits(Tail(said), Good)) \in Nat
          /\ Cardinality(Hits(Tail(said), Bad)) \in Nat
      BY <3>6, HitsAreFinite
    <3>8. /\ accepted + Cardinality(Hits(said, Good)) = verdicts.accepted
          /\ rejected + Cardinality(Hits(said, Bad)) = verdicts.rejected
      BY <1>2, <3>1 DEF VerdictsCounted, Coming, Good, Bad
    <3>9. accepted \in Nat /\ rejected \in Nat
      BY <2>0 DEF TypeOK, DialogueTypeOK
    <3>10. /\ accepted' + Cardinality(Hits(said', Good)) = verdicts'.accepted
           /\ rejected' + Cardinality(Hits(said', Bad)) = verdicts'.rejected
      <4>1. CASE Head(said).result = "true"
        BY <2>5, <3>1, <3>4, <3>5, <3>7, <3>8, <3>9, <4>1 DEF ShareAnswered
      <4>2. CASE Head(said).result # "true"
        BY <2>5, <3>1, <3>4, <3>5, <3>7, <3>8, <3>9, <4>2 DEF ShareAnswered
      <4> QED BY <4>1, <4>2
    <3> QED BY <3>10 DEF VerdictsCounted, Coming, Good, Bad
  <2>6. ASSUME NEW line \in LineType, PoolStep(line), verdicts' = verdicts,
               line.kind = "answer" => line.method # "submit"
        PROVE  VerdictsCounted'
    <3>1. line \notin Good /\ line \notin Bad
      BY <2>6 DEF Verdict
    <3>2. said' = Append(said, line) /\ main' = main
          /\ UNCHANGED <<accepted, rejected>>
      BY <2>6 DEF PoolStep, counters
    <3> HIDE DEF Good, Bad
    <3>3. /\ Cardinality(Hits(said', Good)) = Cardinality(Hits(said, Good))
          /\ Cardinality(Hits(said', Bad)) = Cardinality(Hits(said, Bad))
      BY <2>0, <3>1, <3>2, HitsOfAppend
    <3> QED BY <1>2, <2>6, <3>2, <3>3 DEF VerdictsCounted, Coming, Good, Bad
  <2>7. ASSUME NEW t \in Targets, PoolSetsTarget(t) PROVE VerdictsCounted'
    BY <2>6, <2>7 DEF PoolSetsTarget, LineType
  <2>8. ASSUME NEW job \in Jobs, PoolSendsJob(job) PROVE VerdictsCounted'
    BY <2>0, <2>6, <2>8 DEF PoolSendsJob, LineType, TypeOK, DialogueTypeOK
  <2>9. ASSUME NEW result \in {"array", "true", "false", "error"},
               PoolAnswers(result)
        PROVE  VerdictsCounted'
    <3> DEFINE line == [kind |-> "answer", id |-> Head(asked).id,
                        method |-> Head(asked).method, result |-> result]
    <3>1. asked # <<>> /\ PoolStep(line)
      BY <2>9 DEF PoolAnswers
    <3>2. Head(asked) \in RequestType
      BY <2>0, <3>1
    <3>3. line \in LineType
      BY <3>2 DEF RequestType, LineType
    <3>4. CASE Head(asked).method # "submit"
      <4>1. verdicts' = verdicts /\ line.method # "submit"
        BY <2>9, <3>4 DEF PoolAnswers
      <4> HIDE DEF line
      <4> QED BY <2>6, <3>1, <3>3, <4>1
    <3>5. CASE Head(asked).method = "submit"
      <4>1. result \in {"true", "false", "error"}
        BY <2>9, <3>5 DEF PoolAnswers, Results
      <4>2. /\ line \in Good <=> result = "true"
            /\ line \in Bad <=> result # "true"
        BY <3>2, <3>5, <4>1 DEF Verdict, RequestType
      <4>3. verdicts' = IF result = "true"
                          THEN [verdicts EXCEPT !.accepted = @ + 1]
                          ELSE [verdicts EXCEPT !.rejected = @ + 1]
        BY <2>9, <3>5 DEF PoolAnswers
      <4>4. said' = Append(said, line) /\ main' = main
            /\ UNCHANGED <<accepted, rejected>>
        BY <3>1 DEF PoolStep, counters
      <4> HIDE DEF Good, Bad, line
      <4>5. /\ Cardinality(Hits(said', Good)) =
                 IF line \in Good THEN Cardinality(Hits(said, Good)) + 1
                                  ELSE Cardinality(Hits(said, Good))
            /\ Cardinality(Hits(said', Bad)) =
                 IF line \in Bad THEN Cardinality(Hits(said, Bad)) + 1
                                 ELSE Cardinality(Hits(said, Bad))
        BY <2>0, <3>3, <4>4, HitsOfAppend
      <4>6. /\ Cardinality(Hits(said, Good)) \in Nat
            /\ Cardinality(Hits(said, Bad)) \in Nat
        BY <2>0, HitsAreFinite
      <4>7. /\ main \in {"loop", "drain", "read"}
            /\ accepted + Cardinality(Hits(said, Good)) = verdicts.accepted
            /\ rejected + Cardinality(Hits(said, Bad)) = verdicts.rejected
        BY <1>2, <2>0, <3>1
           DEF PoolStep, VerdictsCounted, Coming, Good, Bad, TypeOK,
               DialogueTypeOK
      <4>8. /\ accepted \in Nat /\ rejected \in Nat
            /\ verdicts \in [accepted : Nat, rejected : Nat]
        BY <2>0 DEF TypeOK, DialogueTypeOK
      <4>9. /\ accepted' + Cardinality(Hits(said', Good)) = verdicts'.accepted
            /\ rejected' + Cardinality(Hits(said', Bad)) = verdicts'.rejected
        <5>1. CASE result = "true"
          BY <4>2, <4>3, <4>4, <4>5, <4>6, <4>7, <4>8, <5>1
        <5>2. CASE result # "true"
          BY <4>2, <4>3, <4>4, <4>5, <4>6, <4>7, <4>8, <5>2
        <5> QED BY <5>1, <5>2
      <4> QED BY <4>9 DEF VerdictsCounted, Coming, Good, Bad
    <3> QED BY <3>4, <3>5
  <2>10. CASE Stopped \/ SessionFails \/ SubmitFails \/ ReadTorn
              \/ NotifiedEarly \/ Refused
    BY <2>2, <2>10 DEF Stopped, SessionFails, SubmitFails, ReadTorn,
                       NotifiedEarly, Refused, EndSession
  <2> QED BY <1>2, <2>1, <2>3, <2>4, <2>5, <2>7, <2>8, <2>9, <2>10
          DEF Next, MainStep
<1> QED BY <1>1, <1>2, SessionCorrect, PTL DEF Spec
=============================================================================
