--------------------------- MODULE MCCanaryBilling ---------------------------
(***************************************************************************)
(* Model checking of CanaryBilling: a period, trial or grace period lasts  *)
(* one unit of time.  A trial that the user begins, and then does more     *)
(* about, takes more requests than can be explored together with crashes   *)
(* and faults, so a run may also begin at a state that the specification   *)
(* reaches from an empty row: a trial that has begun, with one request     *)
(* left and no further crash or fault.                                     *)
(***************************************************************************)
EXTENDS CanaryBilling

CONSTANTS p1, p2

OneSlot  == {p1}
TwoSlots == {p1, p2}

\* Reached by TrialStart, TrialDone, Pay, Return, VerifyDone and
\* WebhookUnverified of the first reference, and crashes with nothing in hand.
TrialBegun ==
    /\ row = [StartTrial(NoRow, 1) EXCEPT !.invoice = 1]
    /\ req = [p \in Slots |-> Idle] /\ job = [at |-> "idle", snap |-> NoRow]
    /\ kind = [r \in Refs |-> IF r = 1 THEN "auth" ELSE "none"]
    /\ paid = {1} /\ due = {} /\ refunded = {1}
    /\ calls = MaxCalls - 1 /\ crashes = MaxCrashes /\ faults = 1
    /\ grants = [r \in Refs |-> 0] /\ charges = 0 /\ offInTime = FALSE

LaterSpec == (Init \/ TrialBegun) /\ [][Next]_vars /\ Fairness
=============================================================================
