---------------------------- MODULE CanaryBilling ----------------------------
(***************************************************************************)
(* The subscription of one user of the hosted canary service               *)
(* (src/src/wraithwall/canary_service.py): checkout, card-backed trial,    *)
(* provider webhooks, browser return, cancellation, and the hourly billing *)
(* job that charges trials which have ended.                               *)
(*                                                                         *)
(* Every request and the job load the CanarySubscription row, may call the *)
(* payment provider, and then commit; nothing locks the row.  A commit     *)
(* writes the columns it changed and no other: requests that overlap       *)
(* overwrite each other column by column.                                  *)
(*                                                                         *)
(* An end date is the time left until it: 0 once it has passed, Never when *)
(* it is not set.  BTCPay invoices take the path of Paystack references    *)
(* through _activate_subscription.  The hourly rate limits are left out.   *)
(***************************************************************************)
EXTENDS Integers, FiniteSets

CONSTANTS
    Slots,         \* requests handled at the same time
    MaxRefs,       \* bound: payment references opened
    Period,        \* CANARY_SUB_PERIOD_DAYS
    TrialTime,     \* CANARY_TRIAL_DAYS
    GraceTime,     \* CANARY_TRIAL_GRACE_DAYS
    MaxAttempts,   \* CANARY_TRIAL_MAX_BILLING_ATTEMPTS
    MaxCalls,      \* bound: requests of the user, webhooks sent once more
    MaxCrashes,    \* bound: crashes of the process
    MaxFaults      \* bound: provider calls whose answer is lost or an error

ASSUME BillingBounds ==
    /\ MaxRefs \in Nat /\ MaxCalls \in Nat /\ MaxCrashes \in Nat /\ MaxFaults \in Nat
    /\ Period \in Nat \ {0} /\ TrialTime \in Nat \ {0} /\ GraceTime \in Nat \ {0}
    /\ MaxAttempts \in Nat \ {0}

Refs  == 1..MaxRefs
NoRef == 0
Never == -1

VARIABLES
    row,        \* the user's CanarySubscription
    req,        \* [Slots -> the request in hand, with the row it loaded]
    job,        \* the billing job, with the row it loaded
    kind,       \* what a reference is to pay, "none" until its link is handed out
    paid,       \* references the provider reports as successful
    due,        \* webhooks the provider has not had a 200 for
    calls, crashes, faults,                 \* bounded environment
    grants, refunded, charges, offInTime    \* history, see below

(***************************************************************************)
(* History: how often each reference granted a period, the references      *)
(* refunded, the charges of the present trial, and whether the user        *)
(* cancelled it before it ended and outside of a run of the billing job.   *)
(***************************************************************************)
provider == <<kind, paid, due>>
env      == <<calls, crashes, faults>>
history  == <<grants, refunded, charges, offInTime>>
vars     == <<row, req, job, provider, env, history>>

Row == [status : {"none", "pending", "active", "trial", "expired"},
        invoice : Refs \cup {NoRef}, granted : Refs \cup {NoRef},
        period : Nat, trial : 0..TrialTime, tried : BOOLEAN,
        card : BOOLEAN, attempts : 0..MaxAttempts,
        grace : {Never} \cup 0..GraceTime, cancelled : BOOLEAN]

NoRow == [status |-> "none", invoice |-> NoRef, granted |-> NoRef,
          period |-> 0, trial |-> 0, tried |-> FALSE, card |-> FALSE,
          attempts |-> 0, grace |-> Never, cancelled |-> FALSE]
Idle  == [op |-> "idle", ref |-> NoRef, snap |-> NoRow]

Init ==
    /\ row = NoRow /\ req = [p \in Slots |-> Idle]
    /\ job = [at |-> "idle", snap |-> NoRow]
    /\ kind = [r \in Refs |-> "none"] /\ paid = {} /\ due = {}
    /\ calls = 0 /\ crashes = 0 /\ faults = 0
    /\ grants = [r \in Refs |-> 0] /\ refunded = {} /\ charges = 0
    /\ offInTime = FALSE

\* The commit of a unit of work: the columns that differ from what it loaded.
Commit(snap, new) ==
    row' = [f \in DOMAIN row |-> IF new[f] = snap[f] THEN row[f] ELSE new[f]]

----------------------------------------------------------------------------
(* Requests: each loads the row and, later, commits. *)

Load(p, op, r) ==
    /\ req[p].op = "idle"
    /\ req' = [req EXCEPT ![p] = [op |-> op, ref |-> r, snap |-> row]]
Finish(p) == req' = [req EXCEPT ![p] = Idle]

Call == calls < MaxCalls /\ calls' = calls + 1

\* A reference the provider has just opened a transaction under; the user
\* gets the link to pay it with the answer.
Fresh(r)   == kind[r] = "none" /\ \A p \in Slots : req[p].ref # r
Show(r, k) == kind' = [kind EXCEPT ![r] = k]

Subscribe(p) ==
    /\ Call
    /\ \E r \in Refs : Fresh(r) /\ Load(p, "subscribe", r)
    /\ UNCHANGED <<row, job, provider, crashes, faults, history>>

\* "One trial per account", unless that trial has expired.
TrialStart(p) ==
    /\ Call
    /\ row.status \notin {"active", "trial"} /\ ~(row.tried /\ row.status # "expired")
    /\ \E r \in Refs : Fresh(r) /\ Load(p, "trial", r)
    /\ UNCHANGED <<row, job, provider, crashes, faults, history>>

\* The browser comes back from checkout: paystack_callback_verify, and
\* trial_verify; only the last reference opened is found.
Return(p) ==
    /\ Call /\ row.invoice # NoRef
    /\ Load(p, "activate", row.invoice) \/ Load(p, "verify", row.invoice)
    /\ UNCHANGED <<row, job, provider, crashes, faults, history>>

Cancel(p) ==
    /\ Call /\ row.status # "none" /\ ~row.cancelled
    /\ Load(p, "cancel", NoRef)
    /\ UNCHANGED <<row, job, provider, crashes, faults, history>>

\* The webhook of a paid reference, sent until it is answered with 200, and
\* perhaps once more.  Its metadata name the user when the row has another
\* invoice by now.
Webhook(p, r) ==
    /\ r \in paid
    /\ (r \in due /\ UNCHANGED calls) \/ (r \notin due /\ Call)
    /\ Load(p, "webhook", r)
    /\ UNCHANGED <<row, job, provider, crashes, faults, history>>

\* The lookup of a paid reference answers with an error: the webhook is
\* answered with 200 and "verified": false.
WebhookUnverified(r) ==
    /\ r \in due /\ due' = due \ {r}
    /\ faults < MaxFaults /\ faults' = faults + 1
    /\ UNCHANGED <<row, req, job, kind, paid, calls, crashes, history>>

\* Commit of subscribe: a checkout begins, an active subscription stays.
SubscribeDone(p) ==
    LET s == req[p].snap IN
    /\ req[p].op = "subscribe"
    /\ Commit(s, [s EXCEPT !.invoice = req[p].ref,
                           !.status = IF s.status = "active" THEN @ ELSE "pending"])
    /\ Show(req[p].ref, "period") /\ Finish(p)
    /\ UNCHANGED <<job, paid, due, env, history>>

TrialDone(p) ==
    LET s == req[p].snap IN
    /\ req[p].op = "trial"
    /\ Commit(s, [s EXCEPT !.invoice = req[p].ref, !.status = "pending"])
    /\ Show(req[p].ref, "auth") /\ Finish(p)
    /\ UNCHANGED <<job, paid, due, env, history>>

\* Mutant of Activate: the reference is not compared.
ActivateAgain(s, r) ==
    /\ Commit(s, [s EXCEPT !.period = @ + Period, !.status = "active", !.granted = r])
    /\ grants' = [grants EXCEPT ![r] = @ + 1]

\* _activate_subscription: one period from the end of the present one, unless
\* this reference was the last to grant one.
Activate(s, r) ==
    IF s.granted = r /\ s.status = "active"
    THEN UNCHANGED <<row, grants>>
    ELSE /\ Commit(s, [s EXCEPT !.period = @ + Period, !.status = "active", !.granted = r])
         /\ grants' = [grants EXCEPT ![r] = @ + 1]

\* A browser return activates only what the provider reports as paid; it may
\* report no payment or an error.
ActivateDone(p) ==
    /\ req[p].op = "activate"
    /\ \/ req[p].ref \in paid /\ Activate(req[p].snap, req[p].ref)
       \/ UNCHANGED <<row, grants>>
    /\ Finish(p)
    /\ UNCHANGED <<job, provider, env, refunded, charges, offInTime>>

\* Mutant of WebhookDone: without the lookup by the metadata's user.
WebhookDoneOwnInvoice(p) ==
    LET r == req[p].ref IN
    /\ req[p].op = "webhook"
    /\ IF req[p].snap.invoice = r THEN Activate(req[p].snap, r)
       ELSE UNCHANGED <<row, grants>>
    /\ due' = due \ {r}
    /\ Finish(p)
    /\ UNCHANGED <<job, kind, paid, env, refunded, charges, offInTime>>

WebhookDone(p) ==
    /\ req[p].op = "webhook"
    /\ Activate(req[p].snap, req[p].ref)
    /\ due' = due \ {req[p].ref}
    /\ Finish(p)
    /\ UNCHANGED <<job, kind, paid, env, refunded, charges, offInTime>>

\* Mutant of StartTrial: a second verification extends the trial.
StartTrialExtends(s, r) ==
    [s EXCEPT !.status = "trial", !.trial = @ + TrialTime, !.tried = TRUE, !.card = TRUE,
              !.granted = r, !.attempts = 0, !.grace = Never, !.cancelled = FALSE]

\* The columns trial_verify sets.
StartTrial(s, r) ==
    [s EXCEPT !.status = "trial", !.trial = TrialTime, !.tried = TRUE, !.card = TRUE,
              !.granted = r, !.attempts = 0, !.grace = Never, !.cancelled = FALSE]

\* The card is good: the trial begins, and the amount is given back unless
\* the refund fails, which nobody looks at.  Or the provider reports no
\* payment, no card authorization or an error.
VerifyDone(p) ==
    LET s == req[p].snap
        r == req[p].ref
    IN  /\ req[p].op = "verify"
        /\ \/ /\ r \in paid
              /\ Commit(s, StartTrial(s, r)) /\ charges' = 0
              /\ offInTime' = (offInTime /\ row'.cancelled)
              /\ \/ refunded' = refunded \cup {r} /\ UNCHANGED faults
                 \/ /\ faults < MaxFaults /\ faults' = faults + 1
                    /\ UNCHANGED refunded
           \/ UNCHANGED <<row, refunded, charges, offInTime, faults>>
        /\ Finish(p)
        /\ UNCHANGED <<job, provider, calls, crashes, grants>>

CancelDone(p) ==
    LET s == req[p].snap IN
    /\ req[p].op = "cancel"
    /\ Commit(s, [s EXCEPT !.cancelled = TRUE])
    /\ offInTime' = (offInTime \/ (row.status = "trial" /\ row.trial > 0 /\ job.at = "idle"))
    /\ Finish(p)
    /\ UNCHANGED <<job, provider, env, grants, refunded, charges>>

----------------------------------------------------------------------------
(* The billing job, run_trial_billing. *)

\* Mutant of Due: a cancelled trial is charged.
DueThoughCancelled(s) == s.status = "trial" /\ s.trial = 0 /\ s.card

Due(s) == s.status = "trial" /\ s.trial = 0 /\ s.card /\ ~s.cancelled

JobStart ==
    /\ job.at = "idle"
    /\ job' = [at |-> IF Due(row) THEN "charge" ELSE "grace", snap |-> row]
    /\ UNCHANGED <<row, req, provider, env, history>>

\* The provider charges the card or declines, and its answer may be lost.
JobCharge ==
    /\ job.at = "charge"
    /\ \/ /\ charges' = charges + 1
          /\ \/ job' = [job EXCEPT !.at = "charged"] /\ UNCHANGED faults
             \/ /\ job' = [job EXCEPT !.at = "failed"]
                /\ faults < MaxFaults /\ faults' = faults + 1
       \/ job' = [job EXCEPT !.at = "failed"] /\ UNCHANGED <<charges, faults>>
    /\ UNCHANGED <<row, req, provider, calls, crashes, grants, refunded, offInTime>>

\* Mutant of JobCharged: the status is left to the webhook.
JobChargedKeepsTrial ==
    /\ job.at = "charged"
    /\ Commit(job.snap, [job.snap EXCEPT !.period = Period, !.attempts = 0, !.grace = Never])
    /\ job' = [job EXCEPT !.at = "grace"]
    /\ UNCHANGED <<req, provider, env, history>>

JobCharged ==
    /\ job.at = "charged"
    /\ Commit(job.snap, [job.snap EXCEPT !.status = "active", !.period = Period,
                                         !.attempts = 0, !.grace = Never])
    /\ job' = [job EXCEPT !.at = "grace"]
    /\ UNCHANGED <<req, provider, env, history>>

\* Mutant of OneMore: the attempt is not counted.
OneMoreForgotten(n) == n

\* billing_attempts is only compared with its maximum, and stops there.
OneMore(n) == IF n < MaxAttempts THEN n + 1 ELSE n

\* _handle_trial_charge_failure: from the last attempt on, each failure sets
\* the grace period anew.
JobFailed ==
    LET s == job.snap IN
    /\ job.at = "failed"
    /\ Commit(s, [s EXCEPT !.attempts = OneMore(@),
                           !.grace = IF OneMore(s.attempts) >= MaxAttempts
                                     THEN GraceTime ELSE @])
    /\ job' = [job EXCEPT !.at = "grace"]
    /\ UNCHANGED <<req, provider, env, history>>

\* The second query: trials whose grace period has ended.
JobGrace ==
    /\ job.at = "grace"
    /\ job' = [at |-> IF row.status = "trial" /\ row.grace = 0 THEN "expire" ELSE "idle",
               snap |-> row]
    /\ UNCHANGED <<row, req, provider, env, history>>

JobExpire ==
    /\ job.at = "expire"
    /\ Commit(job.snap, [job.snap EXCEPT !.status = "expired", !.grace = Never])
    /\ job' = [job EXCEPT !.at = "idle"]
    /\ UNCHANGED <<req, provider, env, history>>

----------------------------------------------------------------------------
(* The provider, time and the process. *)

\* A charge_authorization of the job has no reference of the service and no
\* metadata: its webhook matches no row.
Pay(r) ==
    /\ kind[r] # "none" /\ r \notin paid
    /\ paid' = paid \cup {r} /\ due' = due \cup {r}
    /\ UNCHANGED <<row, req, job, kind, env, history>>

Less(n) == IF n > 0 THEN n - 1 ELSE n
Older(r) == [r EXCEPT !.period = Less(@), !.trial = Less(@), !.grace = Less(@)]

Tick ==
    /\ row' = Older(row)
    /\ req' = [p \in Slots |-> [req[p] EXCEPT !.snap = Older(@)]]
    /\ job' = [job EXCEPT !.snap = Older(@)]
    /\ UNCHANGED <<provider, env, history>>

Crash ==
    /\ crashes < MaxCrashes /\ crashes' = crashes + 1
    /\ req' = [p \in Slots |-> Idle]
    /\ job' = [at |-> "idle", snap |-> NoRow]
    /\ UNCHANGED <<row, provider, calls, faults, history>>

Answer(p) ==
    \/ SubscribeDone(p) \/ TrialDone(p) \/ ActivateDone(p) \/ WebhookDone(p)
    \/ VerifyDone(p) \/ CancelDone(p)

Request(p) ==
    \/ Subscribe(p) \/ TrialStart(p) \/ Return(p) \/ Cancel(p)
    \/ \E r \in Refs : Webhook(p, r)

Job == JobStart \/ JobCharge \/ JobCharged \/ JobFailed \/ JobGrace \/ JobExpire

Next ==
    \/ \E p \in Slots : Request(p) \/ Answer(p)
    \/ \E r \in Refs : WebhookUnverified(r) \/ Pay(r)
    \/ Job \/ Tick \/ Crash

\* Requests are answered, a webhook is sent until it is, the scheduler runs
\* the job every hour and time passes.
Fairness ==
    /\ \A p \in Slots : WF_vars(Answer(p))
    /\ \A r \in Refs : SF_vars(\E p \in Slots : r \in due /\ Webhook(p, r))
    /\ WF_vars(Job) /\ WF_vars(Tick)

Spec     == Init /\ [][Next]_vars
FairSpec == Spec /\ Fairness

----------------------------------------------------------------------------
(* What must hold. *)

Calm == crashes = 0 /\ faults = 0

TypeOK ==
    /\ row \in Row
    /\ req \in [Slots -> [op : {"idle", "subscribe", "trial", "activate", "verify",
                                "cancel", "webhook"},
                          ref : Refs \cup {NoRef}, snap : Row]]
    /\ job \in [at : {"idle", "charge", "charged", "failed", "grace", "expire"}, snap : Row]
    /\ kind \in [Refs -> {"none", "period", "auth"}]
    /\ due \subseteq paid /\ paid \subseteq Refs /\ refunded \subseteq paid
    /\ calls \in Nat /\ crashes \in Nat /\ faults \in Nat
    /\ grants \in [Refs -> Nat] /\ charges \in Nat /\ offInTime \in BOOLEAN

\* A trial is charged once, however requests and webhooks overlap with the
\* job, as long as no answer of the provider is lost and no process dies.
ChargedOnce == Calm => charges <= 1

\* "Prevents future billing": a trial cancelled before it ended, and not
\* while the job was running, is not charged.
CancelHolds == [][charges' > charges => ~offInTime]_vars

\* Who opens one checkout and no trial gets one period for it, whether the
\* webhook, its duplicates and the browser return come one after the other or
\* all at once.
OnePaymentOnePeriod ==
    \A r \in Refs :
        kind[r] = "period" /\ (\A q \in Refs \ {r} : kind[q] = "none") /\ ~row.tried
            => row.period <= Period

\* A payment is granted or given back, even when the user has opened another
\* checkout since, the browser never returns and the process dies meanwhile.
PaidIsGranted ==
    \A r \in Refs : r \in paid ~> grants[r] > 0 \/ r \in refunded \/ faults > 0

\* A trial that has ended is charged, cancelled or put into its grace period.
DueTrialSettles == Due(row) ~> ~Due(row) \/ row.grace # Never

\* canary_service.py:1114: "Verify trial card authorization, refund, and
\* activate the trial period": the reference of the authorization pays for
\* nothing, so the trial it began lasts until it ends, unless the user opens
\* another checkout.
TrialLasts ==
    [][(row.status = "trial" /\ row.trial > 0 /\ \A r \in Refs : kind[r] # "period")
          => row'.status = "trial"]_vars

=============================================================================
