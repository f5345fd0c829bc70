------------------------ MODULE CanaryBillingProofs ------------------------
(***************************************************************************)
(* Proofs about CanaryBilling, for any number of references and concurrent *)
(* requests, any lengths of the periods and any bounds: the type           *)
(* invariant, that a cancelled trial is not charged, that a trial is       *)
(* charged once, and that one payment grants one period.                   *)
(***************************************************************************)
EXTENDS CanaryBilling, TLAPS

\* A commit writes a column or leaves it, and writes only what changed.
LEMMA CommitColumns ==
    ASSUME row \in Row, NEW s \in Row, NEW n \in Row, Commit(s, n)
    PROVE  /\ row' \in Row
           /\ row'.status = IF n.status = s.status THEN row.status ELSE n.status
           /\ row'.invoice = IF n.invoice = s.invoice THEN row.invoice ELSE n.invoice
           /\ row'.granted = IF n.granted = s.granted THEN row.granted ELSE n.granted
           /\ row'.period = IF n.period = s.period THEN row.period ELSE n.period
           /\ row'.tried = IF n.tried = s.tried THEN row.tried ELSE n.tried
           /\ row'.grace = IF n.grace = s.grace THEN row.grace ELSE n.grace
           /\ row'.cancelled = IF n.cancelled = s.cancelled THEN row.cancelled ELSE n.cancelled
  BY DEF Commit, Row

LEMMA OlderColumns ==
    ASSUME NEW s \in Row
    PROVE  /\ Older(s) \in Row
           /\ Older(s).status = s.status /\ Older(s).invoice = s.invoice
           /\ Older(s).granted = s.granted /\ Older(s).tried = s.tried
           /\ Older(s).cancelled = s.cancelled
           /\ Older(s).period <= s.period
           /\ s.grace = Never => Older(s).grace = Never
  <1> DEFINE o == Older(s)
  <1>1. s.period \in Nat /\ s.trial \in 0..TrialTime /\ s.grace \in {-1} \cup 0..GraceTime
    BY DEF Row, Never
  <1>2. /\ Less(s.period) \in Nat /\ Less(s.period) <= s.period
        /\ Less(s.trial) \in 0..TrialTime
        /\ Less(s.grace) \in {-1} \cup 0..GraceTime
        /\ s.grace = -1 => Less(s.grace) = -1
    BY <1>1, BillingBounds DEF Less
  <1>3. o = [s EXCEPT !.period = Less(@), !.trial = Less(@), !.grace = Less(@)]
    BY DEF Older
  <1> QED BY <1>2, <1>3 DEF Row, Never

LEMMA InitTypeOK == Init => TypeOK
  <1> SUFFICES ASSUME Init PROVE TypeOK
    OBVIOUS
  <1>1. NoRow \in Row
    BY BillingBounds DEF Row, NoRow, NoRef, Never
  <1> QED BY <1>1 DEF Init, TypeOK, Idle, NoRef

\* The rows the code prepares for a commit are rows.
LEMMA NewRows ==
    ASSUME NEW s \in Row, NEW r \in Refs \cup {NoRef}
    PROVE  /\ [s EXCEPT !.invoice = r,
                        !.status = IF s.status = "active" THEN @ ELSE "pending"] \in Row
           /\ [s EXCEPT !.invoice = r, !.status = "pending"] \in Row
           /\ [s EXCEPT !.period = @ + Period, !.status = "active", !.granted = r] \in Row
           /\ StartTrial(s, r) \in Row
           /\ [s EXCEPT !.cancelled = TRUE] \in Row
  <1>1. [s EXCEPT !.invoice = r,
                  !.status = IF s.status = "active" THEN @ ELSE "pending"] \in Row
    BY DEF Row
  <1>2. [s EXCEPT !.invoice = r, !.status = "pending"] \in Row
    BY DEF Row
  <1>3. [s EXCEPT !.period = @ + Period, !.status = "active", !.granted = r] \in Row
    <2>1. s.period \in Nat /\ s.period + Period \in Nat
      BY BillingBounds DEF Row
    <2> QED BY <2>1 DEF Row
  <1>4. StartTrial(s, r) \in Row
    <2>1. TrialTime \in 0..TrialTime /\ 0 \in 0..MaxAttempts
      BY BillingBounds
    <2> QED BY <2>1 DEF Row, StartTrial
  <1>5. [s EXCEPT !.cancelled = TRUE] \in Row
    BY DEF Row
  <1> QED BY <1>1, <1>2, <1>3, <1>4, <1>5

LEMMA NewJobRows ==
    ASSUME NEW s \in Row
    PROVE  /\ [s EXCEPT !.status = "active", !.period = Period,
                        !.attempts = 0, !.grace = Never] \in Row
           /\ [s EXCEPT !.attempts = OneMore(@),
                        !.grace = IF OneMore(s.attempts) >= MaxAttempts
                                  THEN GraceTime ELSE @] \in Row
           /\ [s EXCEPT !.status = "expired", !.grace = Never] \in Row
  <1>1. [s EXCEPT !.status = "active", !.period = Period, !.attempts = 0, !.grace = Never] \in Row
    <2>1. Period \in Nat /\ 0 \in 0..MaxAttempts
      BY BillingBounds
    <2> QED BY <2>1 DEF Row
  <1>2. [s EXCEPT !.attempts = OneMore(@),
                  !.grace = IF OneMore(s.attempts) >= MaxAttempts THEN GraceTime ELSE @] \in Row
    <2>1. s.attempts \in 0..MaxAttempts
      BY DEF Row
    <2>2. OneMore(s.attempts) \in 0..MaxAttempts /\ GraceTime \in 0..GraceTime
      BY <2>1, BillingBounds DEF OneMore
    <2> QED BY <2>2 DEF Row
  <1>3. [s EXCEPT !.status = "expired", !.grace = Never] \in Row
    BY DEF Row
  <1> QED BY <1>1, <1>2, <1>3

Ops  == {"idle", "subscribe", "trial", "activate", "verify", "cancel", "webhook"}
Req  == [op : Ops, ref : Refs \cup {NoRef}, snap : Row]

LEMMA LoadFinishType ==
    ASSUME TypeOK, NEW p \in Slots
    PROVE  /\ Finish(p) => req' \in [Slots -> Req]
           /\ \A op \in Ops, r \in Refs \cup {NoRef} : Load(p, op, r) => req' \in [Slots -> Req]
  <1>1. NoRow \in Row
    BY BillingBounds DEF Row, NoRow, NoRef, Never
  <1> QED BY <1>1 DEF TypeOK, Req, Ops, Idle, Finish, Load

LEMMA ActivateType ==
    ASSUME TypeOK, NEW s \in Row, NEW r \in Refs \cup {NoRef}, Activate(s, r)
    PROVE  row' \in Row /\ grants' \in [Refs -> Nat]
  <1> DEFINE n == [s EXCEPT !.period = @ + Period, !.status = "active", !.granted = r]
  <1>1. row' \in Row
    <2>1. n \in Row /\ row \in Row
      BY NewRows DEF TypeOK
    <2>2. CASE Commit(s, n)
      <3> HIDE DEF n
      <3> QED BY <2>1, <2>2, CommitColumns
    <2> QED BY <2>1, <2>2 DEF Activate
  <1>2. grants' \in [Refs -> Nat]
    BY DEF TypeOK, Activate
  <1> QED BY <1>1, <1>2

LEMMA StepTypeOK == TypeOK /\ [Next]_vars => TypeOK'
  <1> SUFFICES ASSUME TypeOK, [Next]_vars PROVE TypeOK'
    OBVIOUS
  <1> USE DEF provider, env, history
  <1>0. NoRow \in Row
    BY BillingBounds DEF Row, NoRow, NoRef, Never
  <1>a. /\ row \in Row /\ req \in [Slots -> Req]
        /\ job \in [at : {"idle", "charge", "charged", "failed", "grace", "expire"}, snap : Row]
    BY DEF TypeOK, Req, Ops
  <1>1. ASSUME NEW p \in Slots, Request(p) PROVE TypeOK'
    <2>1. row.invoice \in Refs \cup {NoRef}
      BY <1>a DEF Row
    <2>2. req' \in [Slots -> Req]
      <3>1. ASSUME NEW op \in Ops, NEW r \in Refs \cup {NoRef}, Load(p, op, r)
            PROVE  req' \in [Slots -> Req]
        BY <3>1, LoadFinishType
      <3> QED BY <1>1, <2>1, <3>1 DEF Request, Subscribe, TrialStart, Return, Cancel, Webhook,
                                     Ops
    <2>3. calls' \in Nat
      BY <1>1 DEF TypeOK, Request, Subscribe, TrialStart, Return, Cancel, Webhook, Call
    <2>4. UNCHANGED <<row, job, provider, crashes, faults, history>>
      BY <1>1 DEF Request, Subscribe, TrialStart, Return, Cancel, Webhook
    <2> QED BY <2>2, <2>3, <2>4 DEF TypeOK, Req, Ops
  <1>2. ASSUME NEW p \in Slots, Answer(p) PROVE TypeOK'
    <2>1. req[p].snap \in Row /\ req[p].ref \in Refs \cup {NoRef}
      BY <1>a DEF Req
    <2>2. req' \in [Slots -> Req]
      BY <1>2, LoadFinishType DEF Answer, SubscribeDone, TrialDone, ActivateDone, WebhookDone,
                                  VerifyDone, CancelDone
    <2>3. row' \in Row /\ grants' \in [Refs -> Nat]
      <3>1. CASE ActivateDone(p) \/ WebhookDone(p)
        <4>1. Activate(req[p].snap, req[p].ref) => row' \in Row /\ grants' \in [Refs -> Nat]
          BY <2>1, ActivateType
        <4> QED BY <3>1, <4>1, <1>a DEF TypeOK, ActivateDone, WebhookDone
      <3>2. CASE VerifyDone(p)
        BY <3>2, <2>1, <1>a, NewRows, CommitColumns DEF TypeOK, VerifyDone
      <3> QED BY <1>2, <3>1, <3>2, <2>1, <1>a, NewRows, CommitColumns
              DEF TypeOK, Answer, SubscribeDone, TrialDone, CancelDone
    <2>4. kind' \in [Refs -> {"none", "period", "auth"}] /\ paid' = paid /\ due' \subseteq due
      BY <1>2 DEF TypeOK, Answer, SubscribeDone, TrialDone, ActivateDone, WebhookDone,
                  VerifyDone, CancelDone, Show
    <2>5. refunded' \subseteq paid /\ charges' \in Nat /\ offInTime' \in BOOLEAN
      <3>1. CASE VerifyDone(p)
        <4>1. row'.cancelled \in BOOLEAN
          BY <2>3 DEF Row
        <4> QED BY <3>1, <4>1 DEF TypeOK, VerifyDone
      <3>2. CASE ~VerifyDone(p)
        BY <1>2, <3>2 DEF TypeOK, Answer, SubscribeDone, TrialDone, ActivateDone, WebhookDone,
                          CancelDone
      <3> QED BY <3>1, <3>2
    <2>6. UNCHANGED <<job, calls, crashes>> /\ (faults' = faults \/ faults' = faults + 1)
      BY <1>2 DEF Answer, SubscribeDone, TrialDone, ActivateDone, WebhookDone, VerifyDone,
                  CancelDone
    <2> QED BY <2>2, <2>3, <2>4, <2>5, <2>6 DEF TypeOK, Req, Ops
  <1>3. CASE Job
    <2>1. row' \in Row
      BY <1>3, <1>a, NewJobRows, CommitColumns
         DEF Job, JobStart, JobCharge, JobCharged, JobFailed, JobGrace, JobExpire
    <2>2. job' \in [at : {"idle", "charge", "charged", "failed", "grace", "expire"}, snap : Row]
      BY <1>3, <1>a DEF Job, JobStart, JobCharge, JobCharged, JobFailed, JobGrace, JobExpire
    <2>3. charges' \in Nat /\ faults' \in Nat
      BY <1>3 DEF TypeOK, Job, JobStart, JobCharge, JobCharged, JobFailed, JobGrace, JobExpire
    <2>4. UNCHANGED <<req, provider, calls, crashes, grants, refunded, offInTime>>
      BY <1>3 DEF Job, JobStart, JobCharge, JobCharged, JobFailed, JobGrace, JobExpire
    <2> QED BY <2>1, <2>2, <2>3, <2>4 DEF TypeOK
  <1>4. ASSUME NEW r \in Refs, WebhookUnverified(r) \/ Pay(r) PROVE TypeOK'
    BY <1>4 DEF TypeOK, WebhookUnverified, Pay
  <1>5. CASE Tick
    <2>1. row' \in Row /\ job' \in [at : {"idle", "charge", "charged", "failed", "grace", "expire"},
                                    snap : Row]
      BY <1>5, <1>a, OlderColumns DEF Tick
    <2>2. \A p \in Slots : [req[p] EXCEPT !.snap = Older(@)] \in Req
      BY <1>a, OlderColumns DEF Req
    <2>3. req' \in [Slots -> Req]
      BY <1>5, <2>2 DEF Tick
    <2> QED BY <1>5, <2>1, <2>3 DEF Tick, TypeOK, Req, Ops
  <1>6. CASE Crash
    <2>1. req' \in [Slots -> Req] /\ crashes' \in Nat
      BY <1>0, <1>6 DEF Crash, Idle, Req, Ops, TypeOK
    <2> QED BY <1>0, <1>6, <2>1 DEF Crash, TypeOK, Req, Ops
  <1>7. CASE UNCHANGED vars
    BY <1>7 DEF vars, TypeOK
  <1> QED BY <1>1, <1>2, <1>3, <1>4, <1>5, <1>6, <1>7 DEF Next

\* Every variable keeps its type, for all values of the constants.
THEOREM BillingTypeCorrect == Spec => []TypeOK
  BY InitTypeOK, StepTypeOK, PTL DEF Spec

(***************************************************************************)
(* What the answer to a request, and a step of the job, commit: the row    *)
(* they prepare from the one they loaded, by the columns the proofs need.  *)
(***************************************************************************)
Opening == {"subscribe", "trial"}
Using   == {"activate", "verify", "webhook"}

Prepared(op, r, s, n) ==
    /\ n.invoice = IF op \in Opening THEN r ELSE s.invoice
    /\ op = "subscribe" => n.status = IF s.status = "active" THEN "active" ELSE "pending"
    /\ op = "trial" => n.status = "pending"
    /\ op = "cancel" => n.status = s.status /\ n.cancelled
    /\ op \in {"activate", "webhook"} =>
         /\ n.status = "active" /\ n.period = s.period + Period /\ n.granted = r
         /\ ~(s.granted = r /\ s.status = "active")
    /\ op \in Opening \cup {"cancel"} => n.period = s.period /\ n.granted = s.granted
    /\ op \in Opening \cup {"activate", "webhook"} => n.cancelled = s.cancelled
    /\ IF op = "verify" THEN n.tried ELSE n.tried = s.tried /\ n.grace = s.grace

LEMMA AnswerCommits ==
    ASSUME TypeOK, NEW p \in Slots, Answer(p)
    PROVE  \/ UNCHANGED row /\ req[p].op \in Using
           \/ \E n \in Row : /\ Commit(req[p].snap, n)
                             /\ Prepared(req[p].op, req[p].ref, req[p].snap, n)
  <1> DEFINE s == req[p].snap
             r == req[p].ref
  <1>a. s \in Row /\ r \in Refs \cup {NoRef}
    BY DEF TypeOK
  <1> USE DEF Prepared, Opening, Using
  <1>1. CASE SubscribeDone(p)
    <2> DEFINE n == [s EXCEPT !.invoice = r,
                              !.status = IF s.status = "active" THEN @ ELSE "pending"]
    <2>1. n \in Row /\ Commit(s, n) /\ req[p].op = "subscribe"
      BY <1>a, <1>1, NewRows DEF SubscribeDone
    <2>2. Prepared("subscribe", r, s, n)
      BY <1>a DEF Row
    <2> QED BY <2>1, <2>2
  <1>2. CASE TrialDone(p)
    <2> DEFINE n == [s EXCEPT !.invoice = r, !.status = "pending"]
    <2>1. n \in Row /\ Commit(s, n) /\ req[p].op = "trial"
      BY <1>a, <1>2, NewRows DEF TrialDone
    <2>2. Prepared("trial", r, s, n)
      BY <1>a DEF Row
    <2> QED BY <2>1, <2>2
  <1>3. CASE ActivateDone(p) \/ WebhookDone(p)
    <2> DEFINE n == [s EXCEPT !.period = @ + Period, !.status = "active", !.granted = r]
    <2>1. n \in Row
      BY <1>a, NewRows
    <2>2. /\ req[p].op \in {"activate", "webhook"}
          /\ UNCHANGED row \/ (Commit(s, n) /\ ~(s.granted = r /\ s.status = "active"))
      BY <1>3 DEF ActivateDone, WebhookDone, Activate
    <2>3. /\ n.status = "active" /\ n.period = s.period + Period /\ n.granted = r
          /\ n.invoice = s.invoice /\ n.cancelled = s.cancelled
          /\ n.tried = s.tried /\ n.grace = s.grace
      BY <1>a DEF Row
    <2> HIDE DEF n
    <2> QED BY <2>1, <2>2, <2>3
  <1>4. CASE CancelDone(p)
    <2> DEFINE n == [s EXCEPT !.cancelled = TRUE]
    <2>1. n \in Row /\ Commit(s, n) /\ req[p].op = "cancel"
      BY <1>a, <1>4, NewRows DEF CancelDone
    <2>2. Prepared("cancel", r, s, n)
      BY <1>a DEF Row
    <2> QED BY <2>1, <2>2
  <1>5. CASE VerifyDone(p)
    <2>1. StartTrial(s, r) \in Row
      BY <1>a, NewRows
    <2>2. Prepared("verify", r, s, StartTrial(s, r))
      BY <1>a DEF Row, StartTrial
    <2>3. req[p].op = "verify" /\ (UNCHANGED row \/ Commit(s, StartTrial(s, r)))
      BY <1>5 DEF VerifyDone
    <2> QED BY <2>1, <2>2, <2>3
  <1> QED BY <1>1, <1>2, <1>3, <1>4, <1>5 DEF Answer

LEMMA JobCommits ==
    ASSUME TypeOK, Job
    PROVE  \/ UNCHANGED row /\ job.at \in {"idle", "charge", "grace"}
           \/ \E n \in Row : /\ Commit(job.snap, n)
                             /\ n.invoice = job.snap.invoice /\ n.tried = job.snap.tried
                             /\ n.cancelled = job.snap.cancelled
                             /\ n.status \in {"active", "expired", job.snap.status}
                             /\ job.at = "charged" => n.status = "active"
                             /\ job.at \in {"charged", "failed", "expire"}
  <1> DEFINE s == job.snap
  <1>a. s \in Row
    BY DEF TypeOK
  <1>1. CASE JobCharged
    <2> DEFINE n == [s EXCEPT !.status = "active", !.period = Period,
                              !.attempts = 0, !.grace = Never]
    <2>1. n \in Row /\ Commit(s, n) /\ job.at = "charged"
      BY <1>a, <1>1, NewJobRows DEF JobCharged
    <2>2. /\ n.invoice = s.invoice /\ n.tried = s.tried /\ n.cancelled = s.cancelled
          /\ n.status = "active"
      BY <1>a DEF Row
    <2> QED BY <2>1, <2>2
  <1>2. CASE JobFailed
    <2> DEFINE n == [s EXCEPT !.attempts = OneMore(@),
                              !.grace = IF OneMore(s.attempts) >= MaxAttempts
                                        THEN GraceTime ELSE @]
    <2>1. n \in Row /\ Commit(s, n) /\ job.at = "failed"
      BY <1>a, <1>2, NewJobRows DEF JobFailed
    <2>2. /\ n.invoice = s.invoice /\ n.tried = s.tried /\ n.cancelled = s.cancelled
          /\ n.status = s.status
      BY <1>a DEF Row
    <2> QED BY <2>1, <2>2
  <1>3. CASE JobExpire
    <2> DEFINE n == [s EXCEPT !.status = "expired", !.grace = Never]
    <2>1. n \in Row /\ Commit(s, n) /\ job.at = "expire"
      BY <1>a, <1>3, NewJobRows DEF JobExpire
    <2>2. /\ n.invoice = s.invoice /\ n.tried = s.tried /\ n.cancelled = s.cancelled
          /\ n.status = "expired"
      BY <1>a DEF Row
    <2> QED BY <2>1, <2>2
  <1>4. CASE JobStart \/ JobCharge \/ JobGrace
    BY <1>4 DEF JobStart, JobCharge, JobGrace
  <1> QED BY <1>1, <1>2, <1>3, <1>4 DEF Job

(***************************************************************************)
(* A cancelled trial is not charged.  The job decides on the row it loaded *)
(* and the charge comes later; the history variable remembers only         *)
(* cancellations outside of a run, so a run that has decided to charge has *)
(* none behind it, and one that starts after a cancellation sees it in the *)
(* row: no later commit takes it back but that of a new trial.             *)
(***************************************************************************)
CancelInv ==
    /\ offInTime => row.cancelled
    /\ job.at = "charge" => ~offInTime
    /\ \A p \in Slots : req[p].op = "cancel" => ~req[p].snap.cancelled

\* Only a trial's verification takes a cancellation back.
LEMMA CancelledStays ==
    ASSUME TypeOK, row.cancelled,
           \/ \E p \in Slots : Answer(p) /\ req[p].op # "verify"
           \/ Job
    PROVE  row'.cancelled
  <1>a. row \in Row /\ job.snap \in Row /\ \A p \in Slots : req[p].snap \in Row
    BY DEF TypeOK
  <1>1. ASSUME NEW n \in Row, NEW s \in Row, Commit(s, n), n.cancelled = s.cancelled \/ n.cancelled
        PROVE  row'.cancelled
    <2>1. row'.cancelled = IF n.cancelled = s.cancelled THEN row.cancelled ELSE n.cancelled
      BY <1>a, <1>1, CommitColumns
    <2> QED BY <1>1, <2>1
  <1>2. CASE Job
    BY <1>a, <1>1, <1>2, JobCommits
  <1>3. ASSUME NEW p \in Slots, Answer(p), req[p].op # "verify" PROVE row'.cancelled
    <2>1. req[p].op \in {"subscribe", "trial", "activate", "webhook", "cancel"}
      BY <1>3 DEF Answer, SubscribeDone, TrialDone, ActivateDone, WebhookDone, VerifyDone,
                  CancelDone
    <2> QED BY <1>a, <1>1, <1>3, <2>1, AnswerCommits DEF Prepared, Opening
  <1> QED BY <1>2, <1>3

LEMMA StepCancelInv == TypeOK /\ CancelInv /\ [Next]_vars => CancelInv'
  <1> SUFFICES ASSUME TypeOK, CancelInv, [Next]_vars PROVE CancelInv'
    OBVIOUS
  <1> USE DEF provider, env, history
  <1>a. row \in Row /\ job.snap \in Row /\ \A p \in Slots : req[p] \in Req
    BY DEF TypeOK, Req, Ops
  <1>1. ASSUME NEW p \in Slots, Request(p) PROVE CancelInv'
    <2>1. UNCHANGED <<row, job, offInTime>>
      BY <1>1 DEF Request, Subscribe, TrialStart, Return, Cancel, Webhook
    <2>2. req'[p].op = "cancel" => ~req'[p].snap.cancelled
      BY <1>1 DEF TypeOK, Request, Subscribe, TrialStart, Return, Cancel, Webhook, Load
    <2>3. \A q \in Slots \ {p} : req'[q] = req[q]
      BY <1>1 DEF TypeOK, Request, Subscribe, TrialStart, Return, Cancel, Webhook, Load
    <2> QED BY <2>1, <2>2, <2>3 DEF CancelInv
  <1>2. ASSUME NEW p \in Slots, Answer(p) PROVE CancelInv'
    <2>1. \A q \in Slots : req'[q].op = "cancel" => req'[q] = req[q]
      BY <1>2 DEF TypeOK, Answer, SubscribeDone, TrialDone, ActivateDone, WebhookDone, VerifyDone,
                  CancelDone, Finish, Idle
    <2>2. UNCHANGED job
      BY <1>2 DEF Answer, SubscribeDone, TrialDone, ActivateDone, WebhookDone, VerifyDone,
                  CancelDone
    <2>3. (offInTime' => row'.cancelled) /\ (job.at = "charge" => ~offInTime')
      <3>1. CASE VerifyDone(p)
        <4>1. CASE UNCHANGED <<row, offInTime>>
          BY <4>1 DEF CancelInv
        <4>2. CASE offInTime' = (offInTime /\ row'.cancelled)
          BY <4>2 DEF CancelInv
        <4> QED BY <3>1, <4>1, <4>2 DEF VerifyDone
      <3>2. CASE CancelDone(p)
        <4> DEFINE s == req[p].snap
                   n == [s EXCEPT !.cancelled = TRUE]
        <4>1. req[p].op = "cancel" /\ s \in Row /\ Commit(s, n)
          BY <3>2, <1>a DEF CancelDone, Req
        <4>2. n \in Row /\ n.cancelled = TRUE
          BY <4>1 DEF Row
        <4>3. s.cancelled = FALSE
          BY <4>1 DEF Row, CancelInv
        <4>4. row'.cancelled
          <5> HIDE DEF s, n
          <5>1. row'.cancelled = IF n.cancelled = s.cancelled THEN row.cancelled ELSE n.cancelled
            BY <4>1, <4>2, <1>a, CommitColumns
          <5> QED BY <5>1, <4>2, <4>3
        <4>5. job.at = "charge" => offInTime' = offInTime
          BY <3>2 DEF CancelDone, TypeOK
        <4> QED BY <4>4, <4>5 DEF CancelInv
      <3>3. CASE ~VerifyDone(p) /\ ~CancelDone(p)
        <4>1. req[p].op # "verify" /\ UNCHANGED offInTime
          BY <1>2, <3>3 DEF Answer, SubscribeDone, TrialDone, ActivateDone, WebhookDone
        <4> QED BY <1>2, <4>1, CancelledStays DEF CancelInv
      <3> QED BY <3>1, <3>2, <3>3
    <2> QED BY <2>1, <2>2, <2>3 DEF CancelInv
  <1>3. CASE Job
    <2>1. UNCHANGED <<req, offInTime>>
      BY <1>3 DEF Job, JobStart, JobCharge, JobCharged, JobFailed, JobGrace, JobExpire
    <2>2. job'.at = "charge" => ~row.cancelled
      BY <1>3 DEF TypeOK, Job, JobStart, JobCharge, JobCharged, JobFailed, JobGrace, JobExpire, Due
    <2> QED BY <1>3, <2>1, <2>2, CancelledStays DEF CancelInv
  <1>4. ASSUME NEW r \in Refs, WebhookUnverified(r) \/ Pay(r) PROVE CancelInv'
    BY <1>4 DEF CancelInv, WebhookUnverified, Pay
  <1>5. CASE Tick
    <2>1. row'.cancelled = row.cancelled /\ job'.at = job.at /\ UNCHANGED offInTime
      BY <1>5, <1>a, OlderColumns DEF Tick, TypeOK
    <2>2. ASSUME NEW p \in Slots PROVE /\ req'[p].op = req[p].op
                                       /\ req'[p].snap.cancelled = req[p].snap.cancelled
      BY <1>5, <1>a, OlderColumns DEF Tick, Req
    <2> QED BY <2>1, <2>2 DEF CancelInv
  <1>6. CASE Crash
    BY <1>6 DEF Crash, CancelInv, Idle
  <1>7. CASE UNCHANGED vars
    BY <1>7 DEF vars, CancelInv
  <1> QED BY <1>1, <1>2, <1>3, <1>4, <1>5, <1>6, <1>7 DEF Next

\* "Prevents future billing": no step charges a trial that was cancelled in
\* time, whatever other requests, webhooks, crashes and lost answers come in
\* between.
THEOREM CancelledIsNotCharged == Spec => CancelHolds
  <1>1. Init => CancelInv
    BY DEF Init, CancelInv, Idle
  <1>2. ASSUME TypeOK, CancelInv, [Next]_vars, charges' > charges PROVE ~offInTime
    <2>1. CASE Job
      BY <1>2, <2>1 DEF Job, JobStart, JobCharge, JobCharged, JobFailed, JobGrace, JobExpire,
                        TypeOK, CancelInv, history
    <2>2. CASE ~Job
      <3>1. charges' = 0 \/ charges' = charges
        BY <1>2, <2>2 DEF Next, vars, history, Request, Subscribe, TrialStart, Return, Cancel,
             Webhook, Answer, SubscribeDone, TrialDone, ActivateDone, WebhookDone, VerifyDone,
             CancelDone, WebhookUnverified, Pay, Tick, Crash
      <3> QED BY <1>2, <3>1 DEF TypeOK
    <2> QED BY <2>1, <2>2
  <1>3. TypeOK /\ CancelInv /\ [Next]_vars => [charges' > charges => ~offInTime]_vars
    BY <1>2
  <1> QED BY <1>1, <1>3, InitTypeOK, StepTypeOK, StepCancelInv, PTL DEF Spec, CancelHolds

(***************************************************************************)
(* A trial is charged once.  While all is calm, a charged trial is either  *)
(* still in the hands of the run that charged it, on a row loaded as a     *)
(* trial, so that its commit ends the trial, or it has ended: only a new   *)
(* verification makes a trial again, and that one starts uncharged.        *)
(***************************************************************************)
ChargeInv ==
    Calm =>
        /\ job.at \in {"charge", "charged"} => job.snap.status = "trial"
        /\ job.at = "charge" => charges = 0
        /\ row.status = "trial" /\ job.at # "charged" => charges = 0
        /\ charges <= 1

\* Only a trial's verification makes a row a trial.
LEMMA NoNewTrial ==
    ASSUME TypeOK, (\E p \in Slots : Answer(p) /\ req[p].op # "verify") \/ Job,
           row'.status = "trial"
    PROVE  row.status = "trial"
  <1>a. row \in Row /\ job.snap \in Row /\ \A p \in Slots : req[p].snap \in Row
    BY DEF TypeOK
  <1>1. ASSUME NEW n \in Row, NEW s \in Row, Commit(s, n),
               n.status \in {"pending", "active", "expired", s.status}
        PROVE  row.status = "trial"
    BY <1>a, <1>1, CommitColumns
  <1>2. CASE Job
    BY <1>a, <1>1, <1>2, JobCommits
  <1>3. ASSUME NEW p \in Slots, Answer(p), req[p].op # "verify" PROVE row.status = "trial"
    <2>1. req[p].op \in {"subscribe", "trial", "activate", "webhook", "cancel"}
      BY <1>3 DEF Answer, SubscribeDone, TrialDone, ActivateDone, WebhookDone, VerifyDone,
                  CancelDone
    <2> QED BY <1>a, <1>1, <1>3, <2>1, AnswerCommits DEF Prepared, Opening
  <1> QED BY <1>2, <1>3

LEMMA StepChargeInv == TypeOK /\ ChargeInv /\ [Next]_vars => ChargeInv'
  <1> SUFFICES ASSUME TypeOK, ChargeInv, [Next]_vars, Calm' PROVE ChargeInv'
    BY DEF ChargeInv
  <1> USE DEF provider, env, history
  <1>a. row \in Row /\ job.snap \in Row /\ charges \in Nat /\ \A p \in Slots : req[p] \in Req
    BY DEF TypeOK, Req, Ops
  <1>1. ASSUME NEW p \in Slots, Request(p) PROVE ChargeInv'
    <2>1. UNCHANGED <<row, job, charges, crashes, faults>>
      BY <1>1 DEF Request, Subscribe, TrialStart, Return, Cancel, Webhook
    <2> QED BY <2>1 DEF ChargeInv, Calm
  <1>2. ASSUME NEW p \in Slots, Answer(p) PROVE ChargeInv'
    <2>1. UNCHANGED <<job, crashes, faults>>
      <3>1. UNCHANGED <<job, crashes>> /\ (faults' = faults \/ faults' = faults + 1)
        BY <1>2 DEF Answer, SubscribeDone, TrialDone, ActivateDone, WebhookDone, VerifyDone,
                    CancelDone
      <3>2. faults \in Nat /\ faults' = 0
        BY DEF TypeOK, Calm
      <3> QED BY <3>1, <3>2
    <2>2. Calm
      BY <2>1 DEF Calm
    <2>3. CASE req[p].op = "verify"
      <3>1. charges' = 0 \/ UNCHANGED <<row, charges>>
        BY <1>2, <2>3 DEF Answer, SubscribeDone, TrialDone, ActivateDone, WebhookDone, VerifyDone,
                          CancelDone
      <3> QED BY <2>1, <2>2, <3>1 DEF ChargeInv
    <2>4. CASE req[p].op # "verify"
      <3>1. UNCHANGED charges
        BY <1>2, <2>4 DEF Answer, SubscribeDone, TrialDone, ActivateDone, WebhookDone, VerifyDone,
                          CancelDone
      <3>2. row'.status = "trial" => row.status = "trial"
        BY <1>2, <2>4, NoNewTrial
      <3> QED BY <2>1, <2>2, <3>1, <3>2 DEF ChargeInv
    <2> QED BY <2>3, <2>4
  <1>3. CASE Job
    <2>1. row'.status = "trial" => row.status = "trial"
      BY <1>3, NoNewTrial
    <2>2. Calm
      BY <1>3 DEF Calm, TypeOK, Job, JobStart, JobCharge, JobCharged, JobFailed, JobGrace, JobExpire
    <2>3. CASE JobStart
      BY <2>2, <2>3 DEF JobStart, ChargeInv, Due, Calm
    <2>4. CASE JobCharge
      <3>1. charges = 0 /\ job.snap.status = "trial"
        BY <2>2, <2>4 DEF JobCharge, ChargeInv
      <3>2. /\ job'.snap = job.snap /\ UNCHANGED row
            /\ (job'.at = "charged" /\ charges' = 1) \/ (job'.at = "failed" /\ charges' = 0)
        BY <2>2, <2>4, <3>1 DEF JobCharge, Calm, TypeOK
      <3> QED BY <3>1, <3>2 DEF ChargeInv
    <2>5. CASE JobCharged
      <3> DEFINE s == job.snap
                 n == [s EXCEPT !.status = "active", !.period = Period,
                                !.attempts = 0, !.grace = Never]
      <3>1. n \in Row /\ n.status = "active" /\ Commit(s, n)
        BY <1>a, <2>5, NewJobRows DEF Row, JobCharged
      <3>2. s.status = "trial" /\ charges <= 1
        BY <2>2, <2>5 DEF JobCharged, ChargeInv
      <3>3. row'.status = "active"
        BY <1>a, <3>1, <3>2, CommitColumns
      <3> QED BY <2>5, <3>2, <3>3, <1>a DEF JobCharged, ChargeInv, TypeOK
    <2>6. CASE JobFailed \/ JobGrace \/ JobExpire
      <3>1. /\ job.at # "charged" /\ job'.at \notin {"charge", "charged"} /\ UNCHANGED charges
        BY <2>6 DEF JobFailed, JobGrace, JobExpire, TypeOK
      <3> QED BY <2>1, <2>2, <3>1 DEF ChargeInv
    <2> QED BY <1>3, <2>3, <2>4, <2>5, <2>6 DEF Job
  <1>4. ASSUME NEW r \in Refs, WebhookUnverified(r) \/ Pay(r) PROVE ChargeInv'
    <2>1. UNCHANGED <<row, job, charges>> /\ Calm
      BY <1>4 DEF WebhookUnverified, Pay, Calm, TypeOK
    <2> QED BY <2>1 DEF ChargeInv
  <1>5. CASE Tick
    <2>1. /\ row'.status = row.status /\ job'.at = job.at
          /\ job'.snap.status = job.snap.status /\ UNCHANGED <<charges, env>>
      BY <1>5, <1>a, OlderColumns DEF Tick, TypeOK
    <2> QED BY <2>1 DEF ChargeInv, Calm
  <1>6. CASE Crash
    BY <1>6 DEF Crash, Calm, TypeOK
  <1>7. CASE UNCHANGED vars
    BY <1>7 DEF vars, ChargeInv, Calm
  <1> QED BY <1>1, <1>2, <1>3, <1>4, <1>5, <1>6, <1>7 DEF Next

\* A trial is charged at most once while no answer of the provider is lost
\* and no process dies, however many requests overlap with the billing job.
THEOREM TrialIsChargedOnce == Spec => []ChargedOnce
  <1>1. Init => ChargeInv
    BY DEF Init, ChargeInv, NoRow
  <1>2. ChargeInv => ChargedOnce
    BY DEF ChargeInv, ChargedOnce
  <1> QED BY <1>1, <1>2, InitTypeOK, StepTypeOK, StepChargeInv, PTL DEF Spec

(***************************************************************************)
(* One payment, one period.  A reference whose link is not handed out yet  *)
(* is in the hands of the one request that opened it; every other request  *)
(* works on a reference that has been handed out.                          *)
(***************************************************************************)
RefInv ==
    /\ \A r \in paid : kind[r] # "none"
    /\ row.invoice # NoRef => kind[row.invoice] # "none"
    /\ \A p \in Slots :
        /\ req[p].op \in Using => req[p].ref \in Refs /\ kind[req[p].ref] # "none"
        /\ req[p].op \in Opening => req[p].ref \in Refs /\ kind[req[p].ref] = "none"
    /\ \A p, q \in Slots :
        p # q /\ req[p].op \in Opening => req[q].ref # req[p].ref

\* Only an opening request hands out a link, and a link stays handed out.
LEMMA KindGrows ==
    ASSUME TypeOK, [Next]_vars
    PROVE  /\ \A r \in Refs : kind[r] # "none" => kind'[r] # "none"
           /\ \A r \in Refs : kind'[r] # kind[r] =>
                \E p \in Slots : Answer(p) /\ req[p].op \in Opening /\ req[p].ref = r
  <1> USE DEF provider, env, history
  <1>1. ASSUME NEW p \in Slots, SubscribeDone(p) \/ TrialDone(p)
        PROVE  /\ req[p].op \in Opening /\ Answer(p)
               /\ \A r \in Refs : r # req[p].ref => kind'[r] = kind[r]
               /\ \A r \in Refs : r = req[p].ref => kind'[r] # "none"
    BY <1>1 DEF TypeOK, SubscribeDone, TrialDone, Show, Opening, Answer
  <1>2. CASE ~\E p \in Slots : SubscribeDone(p) \/ TrialDone(p)
    <2>1. UNCHANGED kind
      BY <1>2 DEF Next, vars, Request, Subscribe, TrialStart, Return, Cancel, Webhook, Answer,
           ActivateDone, WebhookDone, VerifyDone, CancelDone, Job, JobStart, JobCharge,
           JobCharged, JobFailed, JobGrace, JobExpire, WebhookUnverified, Pay, Tick, Crash
    <2> QED BY <2>1
  <1>3. ASSUME NEW p \in Slots, SubscribeDone(p) \/ TrialDone(p)
        PROVE  /\ \A r \in Refs : kind[r] # "none" => kind'[r] # "none"
               /\ \A r \in Refs : kind'[r] # kind[r] =>
                    \E q \in Slots : Answer(q) /\ req[q].op \in Opening /\ req[q].ref = r
    BY <1>1, <1>3
  <1> QED BY <1>2, <1>3

\* Only an opening request changes the invoice of the row, to its reference.
LEMMA InvoiceKept ==
    ASSUME TypeOK, [Next]_vars, row'.invoice # row.invoice
    PROVE  \E p \in Slots : /\ SubscribeDone(p) \/ TrialDone(p)
                            /\ row'.invoice = req[p].ref
  <1>a. row \in Row /\ job.snap \in Row /\ \A p \in Slots : req[p].snap \in Row
    BY DEF TypeOK
  <1>1. ASSUME NEW n \in Row, NEW s \in Row, Commit(s, n)
        PROVE  n.invoice # s.invoice /\ row'.invoice = n.invoice
    BY <1>a, <1>1, CommitColumns
  <1>2. ASSUME Job PROVE FALSE
    BY <1>a, <1>1, <1>2, JobCommits
  <1>3. ASSUME NEW p \in Slots, Answer(p)
        PROVE  (SubscribeDone(p) \/ TrialDone(p)) /\ row'.invoice = req[p].ref
    <2>1. req[p].op \in Opening /\ row'.invoice = req[p].ref
      BY <1>a, <1>1, <1>3, AnswerCommits DEF Prepared
    <2> QED BY <1>3, <2>1 DEF Opening, Answer, ActivateDone, WebhookDone, VerifyDone, CancelDone
  <1>4. ASSUME Tick PROVE FALSE
    BY <1>4, <1>a, OlderColumns DEF Tick
  <1>5. ASSUME \/ \E p \in Slots : Request(p)
               \/ \E r \in Refs : WebhookUnverified(r) \/ Pay(r)
               \/ Crash \/ UNCHANGED vars
        PROVE  FALSE
    BY <1>5 DEF vars, Request, Subscribe, TrialStart, Return, Cancel, Webhook, WebhookUnverified,
                Pay, Crash
  <1> QED BY <1>2, <1>3, <1>4, <1>5 DEF Next

LEMMA StepRefInv == TypeOK /\ RefInv /\ [Next]_vars => RefInv'
  <1> SUFFICES ASSUME TypeOK, RefInv, [Next]_vars PROVE RefInv'
    OBVIOUS
  <1> USE DEF provider, env, history
  <1>a. /\ row.invoice \in Refs \cup {NoRef} /\ paid \subseteq Refs
        /\ \A p \in Slots : req[p].op \in Ops /\ req[p].ref \in Refs \cup {NoRef}
    BY DEF TypeOK, Row, Ops
  <1>b. NoRef \notin Refs
    BY DEF NoRef, Refs
  <1>c. row'.invoice \in Refs \cup {NoRef}
    BY StepTypeOK DEF TypeOK, Row
  <1>1. \A r \in paid' : r \in Refs /\ kind'[r] # "none"
    <2>1. \A r \in paid' : r \in Refs /\ kind[r] # "none"
      BY DEF RefInv, TypeOK, Next, vars, Request, Subscribe, TrialStart, Return, Cancel, Webhook,
             Answer, SubscribeDone, TrialDone, ActivateDone, WebhookDone, VerifyDone, CancelDone,
             Job, JobStart, JobCharge, JobCharged, JobFailed, JobGrace, JobExpire,
             WebhookUnverified, Pay, Tick, Crash
    <2> QED BY <2>1, KindGrows
  <1>2. row'.invoice # NoRef => kind'[row'.invoice] # "none"
    <2>1. CASE row'.invoice = row.invoice
      BY <1>a, <2>1, KindGrows DEF RefInv
    <2>2. CASE row'.invoice # row.invoice
      <3>1. PICK p \in Slots : (SubscribeDone(p) \/ TrialDone(p)) /\ row'.invoice = req[p].ref
        BY <2>2, InvoiceKept
      <3> QED BY <1>a, <3>1 DEF SubscribeDone, TrialDone, Show, TypeOK
    <2> QED BY <2>1, <2>2
  <1>3. ASSUME NEW p \in Slots, Request(p) PROVE RefInv'
    <2>1. UNCHANGED kind /\ \A q \in Slots \ {p} : req'[q] = req[q]
      BY <1>3 DEF TypeOK, Request, Subscribe, TrialStart, Return, Cancel, Webhook, Load
    <2>2. \/ /\ req'[p].op \in Using /\ req'[p].ref \in Refs /\ kind[req'[p].ref] # "none"
          \/ /\ req'[p].op \in Opening /\ req'[p].ref \in Refs /\ kind[req'[p].ref] = "none"
             /\ \A q \in Slots : req[q].ref # req'[p].ref
          \/ req'[p].op = "cancel" /\ req'[p].ref = NoRef
      <3>1. CASE Subscribe(p) \/ TrialStart(p)
        BY <3>1 DEF TypeOK, Subscribe, TrialStart, Load, Fresh, Opening
      <3>2. CASE Return(p) \/ Cancel(p)
        BY <1>a, <3>2 DEF TypeOK, RefInv, Return, Cancel, Load, Using
      <3>3. ASSUME NEW r \in Refs, Webhook(p, r)
            PROVE  req'[p].op \in Using /\ req'[p].ref \in Refs /\ kind[req'[p].ref] # "none"
        BY <3>3 DEF TypeOK, RefInv, Webhook, Load, Using
      <3> QED BY <1>3, <3>1, <3>2, <3>3 DEF Request
    <2>3. Opening \cap Using = {} /\ "cancel" \notin Opening \cup Using
      BY DEF Opening, Using
    <2>4. ASSUME NEW q \in Slots
          PROVE  /\ req'[q].op \in Using => req'[q].ref \in Refs /\ kind'[req'[q].ref] # "none"
                 /\ req'[q].op \in Opening => req'[q].ref \in Refs /\ kind'[req'[q].ref] = "none"
      BY <2>1, <2>2, <2>3 DEF RefInv
    <2>5. ASSUME NEW q \in Slots, NEW t \in Slots, q # t, req'[q].op \in Opening
          PROVE  req'[t].ref # req'[q].ref
      <3>1. CASE q = p
        BY <2>1, <2>2, <2>3, <2>5, <3>1
      <3>2. CASE t = p /\ q # p
        <4>1. req[q].op \in Opening /\ req[q].ref \in Refs /\ kind[req[q].ref] = "none"
          BY <2>1, <2>5, <3>2 DEF RefInv
        <4> QED BY <1>b, <2>1, <2>2, <3>2, <4>1
      <3>3. CASE t # p /\ q # p
        BY <2>1, <2>5, <3>3 DEF RefInv
      <3> QED BY <3>1, <3>2, <3>3
    <2> QED BY <1>1, <1>2, <2>4, <2>5 DEF RefInv
  <1>4. ASSUME NEW p \in Slots, Answer(p) PROVE RefInv'
    <2>1. req' = [req EXCEPT ![p] = Idle]
      BY <1>4 DEF Answer, SubscribeDone, TrialDone, ActivateDone, WebhookDone, VerifyDone,
                  CancelDone, Finish
    <2>2. /\ req'[p].op \notin Opening \cup Using /\ req'[p].ref = NoRef
          /\ \A q \in Slots \ {p} : req'[q] = req[q]
      BY <2>1 DEF TypeOK, Idle, Opening, Using
    <2>3. \A r \in Refs : kind'[r] # kind[r] => req[p].op \in Opening /\ r = req[p].ref
      BY <1>4 DEF TypeOK, Answer, SubscribeDone, TrialDone, ActivateDone, WebhookDone, VerifyDone,
                  CancelDone, Show, Opening
    <2>4. ASSUME NEW q \in Slots
          PROVE  /\ req'[q].op \in Using => req'[q].ref \in Refs /\ kind'[req'[q].ref] # "none"
                 /\ req'[q].op \in Opening => req'[q].ref \in Refs /\ kind'[req'[q].ref] = "none"
      <3>1. CASE q = p
        BY <2>2, <3>1
      <3>2. CASE q # p
        BY <2>2, <2>3, <3>2, KindGrows DEF RefInv
      <3> QED BY <3>1, <3>2
    <2>5. ASSUME NEW q \in Slots, NEW t \in Slots, q # t, req'[q].op \in Opening
          PROVE  req'[t].ref # req'[q].ref
      <3>1. q # p /\ req[q].op \in Opening /\ req'[q] = req[q]
        BY <2>2, <2>5
      <3>2. CASE t = p
        BY <1>b, <2>2, <3>1, <3>2 DEF RefInv
      <3>3. CASE t # p
        BY <2>2, <2>5, <3>1, <3>3 DEF RefInv
      <3> QED BY <3>2, <3>3
    <2> QED BY <1>1, <1>2, <2>4, <2>5 DEF RefInv
  <1>5. CASE Job \/ Tick \/ \E r \in Refs : WebhookUnverified(r) \/ Pay(r)
    <2>1. UNCHANGED kind
      BY <1>5 DEF Job, JobStart, JobCharge, JobCharged, JobFailed, JobGrace, JobExpire,
                  WebhookUnverified, Pay, Tick
    <2>2. \A p \in Slots : req'[p].op = req[p].op /\ req'[p].ref = req[p].ref
      BY <1>5 DEF TypeOK, Job, JobStart, JobCharge, JobCharged, JobFailed, JobGrace, JobExpire,
                  WebhookUnverified, Pay, Tick
    <2> QED BY <1>1, <1>2, <2>1, <2>2 DEF RefInv
  <1>6. CASE Crash
    <2>1. \A p \in Slots : req'[p].op \notin Opening \cup Using
      BY <1>6 DEF Crash, Idle, Opening, Using
    <2> QED BY <1>1, <1>2, <2>1 DEF RefInv
  <1>7. CASE UNCHANGED vars
    BY <1>7 DEF vars, RefInv
  <1> QED BY <1>3, <1>4, <1>5, <1>6, <1>7 DEF Next

(***************************************************************************)
(* While r is the only reference handed out and no trial was begun, the    *)
(* row and every copy of it in hand have at most the one period of r, and  *)
(* have it exactly when r is the reference that granted it: an activation  *)
(* on a copy from before the grant writes the same end again, and one on a *)
(* copy from after it does nothing.                                        *)
(***************************************************************************)
Only(r) == (\A q \in Refs \ {r} : kind[q] = "none") /\ ~row.tried

Modest(r, s) ==
    /\ ~s.tried /\ s.grace = Never /\ s.status # "trial"
    /\ \/ s.granted = NoRef /\ s.period = 0 /\ s.status # "active"
       \/ s.granted = r /\ s.period <= Period /\ s.status = "active" /\ kind[r] # "none"

OneInv ==
    \A r \in Refs : Only(r) =>
        /\ Modest(r, row) /\ Modest(r, job.snap)
        /\ \A p \in Slots : Modest(r, req[p].snap)
        /\ job.at \in {"idle", "grace"}

\* What was only once has always been so.
LEMMA OnlyBefore ==
    ASSUME TypeOK, [Next]_vars, NEW r \in Refs, Only(r)'
    PROVE  Only(r)
  <1>a. row \in Row /\ row' \in Row /\ job.snap \in Row /\ \A p \in Slots : req[p].snap \in Row
    BY StepTypeOK DEF TypeOK
  <1>1. \A q \in Refs \ {r} : kind[q] = "none"
    BY KindGrows DEF Only
  <1>2. ASSUME NEW n \in Row, NEW s \in Row, Commit(s, n), n.tried = s.tried \/ n.tried
        PROVE  row.tried => row'.tried
    BY <1>a, <1>2, CommitColumns
  <1>3. row.tried => row'.tried
    <2>1. CASE Job
      BY <1>a, <1>2, <2>1, JobCommits
    <2>2. ASSUME NEW p \in Slots, Answer(p) PROVE row.tried => row'.tried
      BY <1>a, <1>2, <2>2, AnswerCommits DEF Prepared
    <2>3. CASE Tick
      BY <1>a, <2>3, OlderColumns DEF Tick
    <2>4. CASE \/ \E p \in Slots : Request(p)
               \/ \E q \in Refs : WebhookUnverified(q) \/ Pay(q)
               \/ Crash \/ UNCHANGED vars
      BY <2>4 DEF vars, Request, Subscribe, TrialStart, Return, Cancel, Webhook,
                  WebhookUnverified, Pay, Crash
    <2> QED BY <2>1, <2>2, <2>3, <2>4 DEF Next
  <1> QED BY <1>1, <1>3 DEF Only

LEMMA ModestOlder ==
    ASSUME NEW r \in Refs, NEW s \in Row, Modest(r, s)
    PROVE  Modest(r, Older(s))
  <1>1. /\ Older(s) \in Row /\ s.period \in Nat /\ Older(s).period \in Nat
    BY OlderColumns DEF Row
  <1>2. s.period = 0 => Older(s).period = 0
    BY <1>1, OlderColumns
  <1>3. s.period <= Period => Older(s).period <= Period
    BY <1>1, OlderColumns, BillingBounds
  <1> QED BY <1>2, <1>3, OlderColumns DEF Modest

\* The commit of an answer on a modest copy of a modest row.
LEMMA AnswerModest ==
    ASSUME TypeOK, RefInv, [Next]_vars, NEW p \in Slots, Answer(p),
           NEW r \in Refs, Only(r), Only(r)', Modest(r, row), Modest(r, req[p].snap)
    PROVE  Modest(r, row)'
  <1> DEFINE s == req[p].snap
             k == req[p].ref
  <1>a. s \in Row /\ row \in Row /\ NoRef \notin Refs
    BY DEF TypeOK, NoRef, Refs
  <1>b. kind[r] # "none" => kind'[r] # "none"
    BY KindGrows
  <1>1. CASE UNCHANGED row
    BY <1>b, <1>1 DEF Modest
  <1>2. ASSUME NEW n \in Row, Commit(s, n), Prepared(req[p].op, k, s, n)
        PROVE  Modest(r, row)'
    <2>1. CASE req[p].op \in Opening
      <3>1. k \in Refs /\ kind[k] = "none"
        BY <2>1 DEF RefInv
      <3>2. kind'[k] # "none"
        BY <1>2, <2>1, <3>1 DEF Opening, TypeOK, Answer, SubscribeDone, TrialDone, ActivateDone,
                         WebhookDone, VerifyDone, CancelDone, Show
      <3>3. k = r
        BY <3>1, <3>2 DEF Only
      <3>4. /\ s.granted = NoRef /\ s.status # "active" /\ s.period = 0
            /\ row.granted = NoRef /\ row.status # "active" /\ row.period = 0
        BY <3>1, <3>3 DEF Modest
      <3>5. /\ n.status = "pending" /\ n.period = s.period /\ n.granted = s.granted
            /\ n.tried = s.tried /\ n.grace = s.grace
        BY <1>2, <2>1, <3>4 DEF Prepared, Opening
      <3>6. /\ row'.granted = NoRef /\ row'.period = 0 /\ row'.tried = row.tried
            /\ row'.grace = row.grace /\ row'.status \in {row.status, "pending"}
        BY <1>a, <1>2, <3>4, <3>5, CommitColumns
      <3> QED BY <3>4, <3>6 DEF Modest
    <2>2. CASE req[p].op = "cancel"
      <3>1. /\ n.status = s.status /\ n.period = s.period /\ n.granted = s.granted
            /\ n.tried = s.tried /\ n.grace = s.grace
        BY <1>2, <2>2 DEF Prepared, Opening
      <3>2. /\ row'.granted = row.granted /\ row'.period = row.period /\ row'.tried = row.tried
            /\ row'.grace = row.grace /\ row'.status = row.status
        BY <1>a, <1>2, <3>1, CommitColumns
      <3> QED BY <1>b, <3>2 DEF Modest
    <2>3. CASE req[p].op \in {"activate", "webhook"}
      <3>1. k \in Refs /\ kind[k] # "none"
        BY <2>3 DEF RefInv, Using
      <3>2. k = r
        BY <3>1 DEF Only
      <3>3. /\ n.status = "active" /\ n.period = s.period + Period /\ n.granted = r
            /\ n.tried = s.tried /\ n.grace = s.grace
            /\ ~(s.granted = r /\ s.status = "active")
        BY <1>2, <2>3, <3>2 DEF Prepared, Opening
      <3>4. s.granted = NoRef /\ s.period = 0 /\ s.status # "active"
        BY <3>3 DEF Modest
      <3>5. n.period = Period /\ Period # 0 /\ Period <= Period
        BY <3>3, <3>4, BillingBounds
      <3>6. /\ row'.granted = r /\ row'.period = Period /\ row'.status = "active"
            /\ row'.tried = row.tried /\ row'.grace = row.grace
        BY <1>a, <1>2, <3>3, <3>4, <3>5, CommitColumns
      <3> QED BY <1>b, <3>1, <3>2, <3>5, <3>6 DEF Modest
    <2>4. CASE req[p].op = "verify"
      <3>1. n.tried = TRUE /\ s.tried = FALSE
        BY <1>a, <1>2, <2>4 DEF Prepared, Modest, Row
      <3>2. row'.tried
        BY <1>a, <1>2, <3>1, CommitColumns
      <3> QED BY <3>2 DEF Only
    <2>5. req[p].op # "idle"
      BY DEF Answer, SubscribeDone, TrialDone, ActivateDone, WebhookDone, VerifyDone, CancelDone
    <2> QED BY <2>1, <2>2, <2>3, <2>4, <2>5 DEF TypeOK, Opening
  <1> QED BY <1>1, <1>2, AnswerCommits

LEMMA StepOneInv == TypeOK /\ RefInv /\ OneInv /\ [Next]_vars => OneInv'
  <1> SUFFICES ASSUME TypeOK, RefInv, OneInv, [Next]_vars, NEW r \in Refs, Only(r)'
               PROVE  /\ Modest(r, row)' /\ Modest(r, job.snap)'
                      /\ \A p \in Slots : Modest(r, req[p].snap)'
                      /\ job'.at \in {"idle", "grace"}
    BY DEF OneInv
  <1> USE DEF provider, env, history
  <1>a. row \in Row /\ job.snap \in Row /\ \A p \in Slots : req[p].snap \in Row
    BY DEF TypeOK
  <1>b. Only(r)
    BY OnlyBefore
  <1>c. /\ Modest(r, row) /\ Modest(r, job.snap) /\ \A p \in Slots : Modest(r, req[p].snap)
        /\ job.at \in {"idle", "grace"}
    BY <1>b DEF OneInv
  <1>e. kind[r] # "none" => kind'[r] # "none"
    BY KindGrows
  <1>n. Modest(r, NoRow) /\ NoRow \in Row
    BY BillingBounds DEF Modest, NoRow, NoRef, Never, Row
  <1>1. ASSUME NEW p \in Slots, Request(p)
        PROVE  /\ UNCHANGED <<row, job, kind>>
               /\ \A q \in Slots : req'[q].snap \in {req[q].snap, row}
    BY <1>1 DEF TypeOK, Request, Subscribe, TrialStart, Return, Cancel, Webhook, Load
  <1>2. ASSUME NEW p \in Slots, Answer(p)
        PROVE  /\ Modest(r, row)' /\ UNCHANGED job
               /\ \A q \in Slots : req'[q].snap \in {req[q].snap, NoRow}
    <2>1. Modest(r, row)'
      BY <1>2, <1>b, <1>c, AnswerModest
    <2> QED BY <1>2, <2>1 DEF TypeOK, Answer, SubscribeDone, TrialDone, ActivateDone, WebhookDone,
                              VerifyDone, CancelDone, Finish, Idle
  <1>3. CASE Job
    <2>1. JobStart \/ JobGrace
      BY <1>3, <1>c DEF Job, JobCharge, JobCharged, JobFailed, JobExpire
    <2>2. UNCHANGED <<row, req, kind>> /\ job'.snap = row
      BY <2>1 DEF JobStart, JobGrace
    <2>3. job'.at \in {"idle", "grace"}
      BY <1>c, <2>1 DEF JobStart, JobGrace, Modest, Due
    <2> QED BY <1>c, <2>2, <2>3 DEF Modest
  <1>4. CASE \/ \E q \in Refs : WebhookUnverified(q) \/ Pay(q)
             \/ UNCHANGED vars
    BY <1>c, <1>4 DEF WebhookUnverified, Pay, vars, Modest
  <1>5. CASE Tick
    <2>1. UNCHANGED kind /\ row' = Older(row)
      BY <1>5 DEF Tick
    <2>2. job'.snap = Older(job.snap) /\ job'.at = job.at
      BY <1>5 DEF Tick, TypeOK
    <2>3. ASSUME NEW p \in Slots PROVE req'[p].snap = Older(req[p].snap)
      BY <1>5 DEF Tick, TypeOK
    <2>4. Modest(r, Older(row)) /\ Modest(r, Older(job.snap))
      BY <1>a, <1>c, ModestOlder
    <2>5. \A p \in Slots : Modest(r, Older(req[p].snap))
      BY <1>a, <1>c, ModestOlder
    <2> QED BY <1>c, <2>1, <2>2, <2>3, <2>4, <2>5 DEF Modest
  <1>6. CASE Crash
    BY <1>c, <1>n, <1>6 DEF Crash, Idle, Modest
  <1>7. ASSUME NEW p \in Slots, Request(p) \/ Answer(p)
        PROVE  /\ Modest(r, row)' /\ Modest(r, job.snap)'
               /\ \A q \in Slots : Modest(r, req[q].snap)'
               /\ job'.at \in {"idle", "grace"}
    <2>1. CASE Request(p)
      BY <1>1, <1>c, <2>1 DEF Modest
    <2>2. CASE Answer(p)
      BY <1>2, <1>c, <1>e, <1>n, <2>2 DEF Modest
    <2> QED BY <1>7, <2>1, <2>2
  <1> QED BY <1>3, <1>4, <1>5, <1>6, <1>7 DEF Next

\* Who opens one checkout and no trial has at most one period from now, for
\* any number of overlapping returns, webhooks and duplicates.
THEOREM OnePeriodPerPayment == Spec => []OnePaymentOnePeriod
  <1>1. Init => RefInv /\ OneInv
    <2> SUFFICES ASSUME Init PROVE RefInv /\ OneInv
      OBVIOUS
    <2>1. RefInv
      BY DEF Init, RefInv, NoRow, Idle, Opening, Using
    <2>2. OneInv
      BY BillingBounds DEF Init, OneInv, Modest, NoRow, Idle, NoRef, Never
    <2> QED BY <2>1, <2>2
  <1>2. TypeOK /\ OneInv => OnePaymentOnePeriod
    <2> SUFFICES ASSUME TypeOK, OneInv, NEW r \in Refs, Only(r) PROVE row.period <= Period
      BY DEF OnePaymentOnePeriod, Only
    <2> QED BY BillingBounds DEF OneInv, Modest, TypeOK, Row
  <1> QED BY <1>1, <1>2, InitTypeOK, StepTypeOK, StepRefInv, StepOneInv, PTL DEF Spec

=============================================================================
