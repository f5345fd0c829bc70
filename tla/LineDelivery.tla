---------------------------- MODULE LineDelivery ----------------------------
(***************************************************************************)
(* What the watcher, the queue and the workers of the Cowrie pipeline      *)
(* promise about a line of the log as long as the process does not crash:  *)
(* lines are taken up in file order, each is handled at most once, a line  *)
(* that is given up is never handled later, and no more lines wait, or are *)
(* in hand, than the queue and the workers can hold.                       *)
(***************************************************************************)
EXTENDS Naturals, FiniteSets

CONSTANTS MaxLog, QueueMax, Hands

VARIABLE status   \* [1..MaxLog -> stage of the line]

Lines  == 1..MaxLog
Stages == {"unwritten", "written", "queued", "handling", "done", "given up"}
At(stage) == {k \in Lines : status[k] = stage}
First(k, stage) == k \in At(stage) /\ \A j \in At(stage) : k <= j

StatusOK == status \in [Lines -> Stages]

Init == status = [k \in Lines |-> "unwritten"]

Move(k, stage) == status' = [status EXCEPT ![k] = stage]

Write(k) == First(k, "unwritten") /\ Move(k, "written")

\* A full queue, or a line read half-written, gives the line up.
Take(k) ==
    /\ First(k, "written")
    /\ \/ Cardinality(At("queued")) < QueueMax /\ Move(k, "queued")
       \/ Move(k, "given up")

Start(k) ==
    /\ First(k, "queued")
    /\ Cardinality(At("handling")) < Hands
    /\ Move(k, "handling")

End(k) == status[k] = "handling" /\ Move(k, "done")

Next == \E k \in Lines : Write(k) \/ Take(k) \/ Start(k) \/ End(k)

Spec == Init /\ [][Next]_status

=============================================================================
