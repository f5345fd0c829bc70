---------------------------- MODULE CowrieAlerts ----------------------------
(***************************************************************************)
(* Alerting of the Cowrie pipeline                                         *)
(* (src/src/wraithwall/cowrie_intelligence.py): the triage of a closed     *)
(* session by CRYSTAL, the rate and dedup counters it keeps in Redis, the  *)
(* bounded alert queue, and the alert worker with its global rate cap and  *)
(* its summaries.                                                          *)
(*                                                                         *)
(* The counters are INCR followed, on the first hit, by a separate EXPIRE, *)
(* so a counter may be left without a time to live when the EXPIRE fails   *)
(* or the process dies between the two.  The alert worker keeps the number *)
(* of suppressed alerts in memory and sends it as a summary when an alert  *)
(* of a later window arrives.                                              *)
(***************************************************************************)
EXTENDS Naturals, Sequences, FiniteSets, Functions

CONSTANTS
    Workers,       \* the event worker threads
    Ips,           \* source addresses
    Sigs,          \* signatures of command lists: campaigns
    AlertMax,      \* alert_queue maxsize (1000 in the code)
    VelocityMax,   \* ALERT_VELOCITY_MAX (10)
    GlobalMax,     \* GLOBAL_ALERT_MAX (30)
    Scores,        \* threat scores of sessions
    MaxSessions,   \* bound: sessions closed and high-risk commands handled
    MaxWindows,    \* bound: windows of GLOBAL_ALERT_WINDOW seconds
    MaxCrashes,    \* bound: process crashes
    MaxFaults      \* bound: Redis calls that raise

ASSUME AlertBounds ==
    /\ Ips # {} /\ Sigs # {} /\ AlertMax \in Nat \ {0}
    /\ VelocityMax \in Nat /\ GlobalMax \in Nat
    /\ MaxSessions \in Nat /\ MaxWindows \in Nat
    /\ MaxCrashes \in Nat /\ MaxFaults \in Nat /\ Scores \subseteq Nat

Actions == {"alert", "summarize", "suppress"}
Types   == {"high_risk", "high_threat", "summarized", "session"}
Windows == 0..MaxWindows
Points  == {"idle", "velocity", "velocity_ttl", "record", "dedup", "dedup_ttl",
            "queue", "session"}

VARIABLES
    pc,         \* [Workers -> control point]
    job,        \* [Workers -> the session in hand: ip, sig, action]
    velocity,   \* crystal:alert_rate:{ip}: [n, ttl], n = 0 when absent
    dedup,      \* cowrie_alert_dedup:{sig}: [n, ttl]
    queue,      \* alert_queue
    window,     \* now_ts // GLOBAL_ALERT_WINDOW
    rate,       \* [Windows -> cowrie:alert_rate:global:{window}]
    hand,       \* the alert worker: <<>>, or <<type, window>>
    pending,    \* suppressed_count
    last,       \* last_window_key, or <<>> at first
    sessions, crashes, faults,                    \* bounded environment
    taken, sent, sentIn, summed, passed, let      \* history, see below

(***************************************************************************)
(* History: alerts the worker took, sent, sent per window and reported in  *)
(* summaries; per campaign, the alerts its dedup key let through, and per  *)
(* address, the alerts its velocity key let through, in the key's life.    *)
(***************************************************************************)
counters == <<velocity, dedup>>
sender   == <<rate, hand, pending, last>>
env      == <<sessions, crashes, faults>>
tally    == <<taken, sent, sentIn, summed>>
history  == <<tally, passed, let>>
vars     == <<pc, job, counters, queue, window, sender, env, history>>

Absent == [n |-> 0, ttl |-> FALSE]
NoJob  == [ip |-> CHOOSE i \in Ips : TRUE, sig |-> CHOOSE s \in Sigs : TRUE,
           action |-> "alert"]

Init ==
    /\ pc = [w \in Workers |-> "idle"] /\ job = [w \in Workers |-> NoJob]
    /\ velocity = [i \in Ips |-> Absent] /\ dedup = [s \in Sigs |-> Absent]
    /\ queue = <<>> /\ window = 0 /\ rate = [k \in Windows |-> 0]
    /\ hand = <<>> /\ pending = 0 /\ last = <<>>
    /\ sessions = 0 /\ crashes = 0 /\ faults = 0
    /\ taken = 0 /\ sent = 0 /\ sentIn = [k \in Windows |-> 0] /\ summed = 0
    /\ passed = [s \in Sigs |-> 0] /\ let = [i \in Ips |-> 0]

----------------------------------------------------------------------------
(* CRYSTAL: the gates of evaluate that look at the session only.           *)

Session == [commands : {1, 3}, logins : {0, 4}, attack : BOOLEAN,
            anonymized : BOOLEAN, aggregated : BOOLEAN, pairs : BOOLEAN,
            fidelity : {10, 50}, score : Scores]

Background(s) == s.commands = 0 /\ s.logins = 0 /\ ~s.anonymized
MassScanner(s) ==
    s.commands <= 2 /\ s.logins <= 3 /\ ~s.attack /\ ~s.anonymized /\ ~s.pairs
Benign(s) ==
    s.fidelity < 20 /\ ~s.anonymized /\ ~s.aggregated /\ ~s.pairs /\ s.score < 50

Triage(s) == IF Background(s) THEN "suppress"
             ELSE IF MassScanner(s) THEN "summarize"
             ELSE IF Benign(s) THEN "suppress" ELSE "alert"

ThreatDecisions == {Triage(s) : s \in {t \in Session : t.score >= 70}}

----------------------------------------------------------------------------
(* An event worker closes a session, _check_threshold_alerts.              *)

Goto(w, p) == pc' = [pc EXCEPT ![w] = p]

\* Mutant of Enqueue: the bound is compared after the put.
EnqueueOffByOne(type) ==
    queue' = IF Len(queue) <= AlertMax THEN Append(queue, type) ELSE queue

\* put_nowait: a full queue drops the alert.
Enqueue(type) ==
    queue' = IF Len(queue) < AlertMax THEN Append(queue, type) ELSE queue

\* A session with commands: below 70 nothing is evaluated.
Close(w) ==
    /\ pc[w] = "idle" /\ sessions < MaxSessions /\ sessions' = sessions + 1
    /\ \/ /\ \E n \in Scores : n < 70
          /\ Goto(w, "session") /\ UNCHANGED job
       \/ \E a \in ThreatDecisions, i \in Ips, g \in Sigs :
             /\ Goto(w, IF a = "alert" THEN "velocity" ELSE "record")
             /\ job' = [job EXCEPT ![w] = [ip |-> i, sig |-> g, action |-> a]]
    /\ UNCHANGED <<counters, queue, window, sender, crashes, faults, history>>

\* A command of a high-risk stage is alerted while its session is open.
HighRisk(w) ==
    /\ pc[w] = "idle" /\ sessions < MaxSessions /\ sessions' = sessions + 1
    /\ Enqueue("high_risk")
    /\ UNCHANGED <<pc, job, counters, window, sender, crashes, faults, history>>

\* Mutant of Velocity: the count is read first, and compared.
VelocityOffByOne(w) ==
    LET i == job[w].ip
        n == velocity[i].n + 1
    IN  /\ pc[w] = "velocity"
        /\ velocity' = [velocity EXCEPT ![i].n = n]
        /\ Goto(w, IF n = 1 THEN "velocity_ttl" ELSE "record")
        /\ IF velocity[i].n > VelocityMax
           THEN job' = [job EXCEPT ![w].action = "summarize"] /\ UNCHANGED let
           ELSE let' = [let EXCEPT ![i] = @ + 1] /\ UNCHANGED job
        /\ UNCHANGED <<dedup, queue, window, sender, env, tally, passed>>

\* The velocity gate, the INCR: the first hit goes on to set the life time.
Velocity(w) ==
    LET i == job[w].ip
        n == velocity[i].n + 1
    IN  /\ pc[w] = "velocity"
        /\ velocity' = [velocity EXCEPT ![i].n = n]
        /\ Goto(w, IF n = 1 THEN "velocity_ttl" ELSE "record")
        /\ IF n > VelocityMax
           THEN job' = [job EXCEPT ![w].action = "summarize"] /\ UNCHANGED let
           ELSE let' = [let EXCEPT ![i] = @ + 1] /\ UNCHANGED job
        /\ UNCHANGED <<dedup, queue, window, sender, env, tally, passed>>

VelocityTtl(w) ==
    /\ pc[w] = "velocity_ttl"
    /\ velocity' = [velocity EXCEPT ![job[w].ip].ttl = TRUE]
    /\ Goto(w, "record")
    /\ UNCHANGED <<job, dedup, queue, window, sender, env, history>>

\* The decision is stored with the session; a suppressed session ends here.
Record(w) ==
    /\ pc[w] = "record"
    /\ Goto(w, CASE job[w].action = "suppress" -> "session"
                 [] job[w].action = "alert"    -> "dedup"
                 [] OTHER                      -> "queue")
    /\ UNCHANGED <<job, counters, queue, window, sender, env, history>>

\* Mutant of Dedup: the count is not looked at.
DedupIgnored(w) ==
    LET g == job[w].sig IN
    /\ pc[w] = "dedup"
    /\ dedup' = [dedup EXCEPT ![g].n = @ + 1]
    /\ Goto(w, "dedup_ttl")
    /\ passed' = [passed EXCEPT ![g] = @ + 1]
    /\ UNCHANGED <<job, velocity, queue, window, sender, env, tally, let>>

\* The campaign dedup, the INCR: only the first hit is alerted.
Dedup(w) ==
    LET g == job[w].sig IN
    /\ pc[w] = "dedup"
    /\ dedup' = [dedup EXCEPT ![g].n = @ + 1]
    /\ IF dedup[g].n = 0
       THEN Goto(w, "dedup_ttl") /\ passed' = [passed EXCEPT ![g] = @ + 1]
       ELSE Goto(w, "session") /\ UNCHANGED passed
    /\ UNCHANGED <<job, velocity, queue, window, sender, env, tally, let>>

\* Mutant of DedupTtl: the life time is never set.
DedupTtlMissing(w) ==
    /\ pc[w] = "dedup_ttl"
    /\ Goto(w, "queue")
    /\ UNCHANGED <<job, counters, queue, window, sender, env, history>>

DedupTtl(w) ==
    /\ pc[w] = "dedup_ttl"
    /\ dedup' = [dedup EXCEPT ![job[w].sig].ttl = TRUE]
    /\ Goto(w, "queue")
    /\ UNCHANGED <<job, velocity, queue, window, sender, env, history>>

QueueThreat(w) ==
    /\ pc[w] = "queue"
    /\ Enqueue(IF job[w].action = "summarize" THEN "summarized" ELSE "high_threat")
    /\ Goto(w, "session")
    /\ UNCHANGED <<job, counters, window, sender, env, history>>

\* The alert of every closed session.
QueueSession(w) ==
    /\ pc[w] = "session"
    /\ Enqueue("session")
    /\ Goto(w, "idle")
    /\ UNCHANGED <<job, counters, window, sender, env, history>>

\* A Redis call raises, before or after it was carried out.  The counters fail
\* open: the alert goes on; the SETEX of the record ends the handler.
WorkerFault(w) ==
    /\ faults < MaxFaults /\ faults' = faults + 1
    /\ LET i == job[w].ip
           g == job[w].sig
       IN  \/ /\ pc[w] = "velocity" /\ Goto(w, "record") /\ UNCHANGED dedup
              /\ velocity' \in {velocity, [velocity EXCEPT ![i].n = @ + 1]}
           \/ /\ pc[w] = "velocity_ttl" /\ Goto(w, "record") /\ UNCHANGED dedup
              /\ velocity' \in {velocity, [velocity EXCEPT ![i].ttl = TRUE]}
           \/ /\ pc[w] = "dedup" /\ Goto(w, "queue") /\ UNCHANGED velocity
              /\ dedup' \in {dedup, [dedup EXCEPT ![g].n = @ + 1]}
           \/ /\ pc[w] = "dedup_ttl" /\ Goto(w, "queue") /\ UNCHANGED velocity
              /\ dedup' \in {dedup, [dedup EXCEPT ![g].ttl = TRUE]}
           \/ pc[w] = "record" /\ Goto(w, "idle") /\ UNCHANGED counters
    /\ UNCHANGED <<job, queue, window, sender, sessions, crashes, history>>

----------------------------------------------------------------------------
(* The alert worker, _alert_worker. *)

\* Mutant of Take: the count is cleared but the summary not sent.
TakeForgets ==
    /\ hand = <<>> /\ queue # <<>>
    /\ hand' = <<Head(queue), window>> /\ queue' = Tail(queue)
    /\ taken' = taken + 1
    /\ IF last # <<window>> /\ pending > 0 THEN pending' = 0 ELSE UNCHANGED pending
    /\ last' = <<window>>
    /\ UNCHANGED <<pc, job, counters, window, rate, env, summed, sent, sentIn, passed, let>>

\* It takes an alert and, in a new window, first reports what it suppressed.
Take ==
    /\ hand = <<>> /\ queue # <<>>
    /\ hand' = <<Head(queue), window>> /\ queue' = Tail(queue)
    /\ taken' = taken + 1
    /\ IF last # <<window>> /\ pending > 0
       THEN summed' = summed + pending /\ pending' = 0
       ELSE UNCHANGED <<summed, pending>>
    /\ last' = <<window>>
    /\ UNCHANGED <<pc, job, counters, window, rate, env, sent, sentIn, passed, let>>

\* Mutant of Send: the count before the INCR is compared.
SendOffByOne ==
    /\ hand # <<>>
    /\ LET k == hand[2] IN
       /\ rate' = [rate EXCEPT ![k] = @ + 1]
       /\ IF rate[k] > GlobalMax
          THEN pending' = pending + 1 /\ UNCHANGED <<sent, sentIn>>
          ELSE sent' = sent + 1 /\ sentIn' = [sentIn EXCEPT ![k] = @ + 1]
               /\ UNCHANGED pending
    /\ hand' = <<>>
    /\ UNCHANGED <<pc, job, counters, queue, window, last, env, taken, summed, passed, let>>

\* INCR of the window's count: above the cap the alert is only counted.
Send ==
    /\ hand # <<>>
    /\ LET k == hand[2] IN
       /\ rate' = [rate EXCEPT ![k] = @ + 1]
       /\ IF rate[k] + 1 > GlobalMax
          THEN pending' = pending + 1 /\ UNCHANGED <<sent, sentIn>>
          ELSE sent' = sent + 1 /\ sentIn' = [sentIn EXCEPT ![k] = @ + 1]
               /\ UNCHANGED pending
    /\ hand' = <<>>
    /\ UNCHANGED <<pc, job, counters, queue, window, last, env, taken, summed, passed, let>>

\* INCR or EXPIRE raises: the alert in hand is gone.
SenderFault ==
    /\ hand # <<>>
    /\ faults < MaxFaults /\ faults' = faults + 1
    /\ rate' \in {rate, [rate EXCEPT ![hand[2]] = @ + 1]}
    /\ hand' = <<>>
    /\ UNCHANGED <<pc, job, counters, queue, window, pending, last, sessions,
                   crashes, history>>

----------------------------------------------------------------------------
(* Time and the process. *)

Tick ==
    /\ window < MaxWindows /\ window' = window + 1
    /\ UNCHANGED <<pc, job, counters, queue, sender, env, history>>

VelocityExpires(i) ==
    /\ velocity[i].ttl
    /\ velocity' = [velocity EXCEPT ![i] = Absent]
    /\ let' = [let EXCEPT ![i] = 0]
    /\ UNCHANGED <<pc, job, dedup, queue, window, sender, env, tally, passed>>

DedupExpires(g) ==
    /\ dedup[g].ttl
    /\ dedup' = [dedup EXCEPT ![g] = Absent]
    /\ passed' = [passed EXCEPT ![g] = 0]
    /\ UNCHANGED <<pc, job, velocity, queue, window, sender, env, tally, let>>

Crash ==
    /\ crashes < MaxCrashes /\ crashes' = crashes + 1
    /\ pc' = [w \in Workers |-> "idle"]
    /\ queue' = <<>> /\ hand' = <<>> /\ pending' = 0 /\ last' = <<>>
    /\ UNCHANGED <<job, counters, window, rate, sessions, faults, history>>

Check(w) ==
    \/ Velocity(w) \/ VelocityTtl(w) \/ Record(w) \/ Dedup(w) \/ DedupTtl(w)
    \/ QueueThreat(w) \/ QueueSession(w)

Next ==
    \/ \E w \in Workers : Close(w) \/ HighRisk(w) \/ Check(w) \/ WorkerFault(w)
    \/ Take \/ Send \/ SenderFault
    \/ Tick \/ \E i \in Ips : VelocityExpires(i)
    \/ \E g \in Sigs : DedupExpires(g)
    \/ Crash

\* The threads run, time passes and keys with a life time expire.
Fairness ==
    /\ \A w \in Workers : WF_vars(Check(w))
    /\ WF_vars(Take \/ Send) /\ WF_vars(Tick)
    /\ \A i \in Ips : WF_vars(VelocityExpires(i))
    /\ \A g \in Sigs : WF_vars(DedupExpires(g))

Spec     == Init /\ [][Next]_vars
FairSpec == Spec /\ Fairness

----------------------------------------------------------------------------
(* What must hold. *)

Calm == crashes = 0 /\ faults = 0
Counter == [n : Nat, ttl : BOOLEAN]

TypeOK ==
    /\ pc \in [Workers -> Points]
    /\ job \in [Workers -> [ip : Ips, sig : Sigs, action : Actions]]
    /\ velocity \in [Ips -> Counter] /\ dedup \in [Sigs -> Counter]
    /\ queue \in Seq(Types) /\ Len(queue) <= AlertMax
    /\ window \in Windows /\ rate \in [Windows -> Nat]
    /\ hand \in {<<>>} \cup (Types \X Windows)
    /\ last \in {<<>>} \cup {<<k>> : k \in Windows}
    /\ pending \in Nat /\ sessions \in Nat /\ crashes \in Nat /\ faults \in Nat
    /\ taken \in Nat /\ sent \in Nat /\ summed \in Nat
    /\ sentIn \in [Windows -> Nat] /\ passed \in [Sigs -> Nat] /\ let \in [Ips -> Nat]

\* No window sees more alerts than the cap, across restarts: the count is
\* kept in Redis and not in the worker.
WindowCap == \A k \in Windows : sentIn[k] <= GlobalMax

\* Every alert the worker took was sent, reported in a summary, or is counted
\* for the next summary, unless a crash or a fault took it.
NothingVanishes ==
    Calm => taken = sent + summed + pending + (IF hand = <<>> THEN 0 ELSE 1)

\* The cap holds, and what it holds back is not lost.
CapIsKept == WindowCap /\ NothingVanishes

\* Two workers closing sessions of one campaign at a time alert it once while
\* its dedup key lives.
CampaignAlertedOnce == \A g \in Sigs : passed[g] <= 1

\* An address gets at most VelocityMax alerts through while its key lives.
VelocityCap == \A i \in Ips : let[i] <= VelocityMax

\* Without a crash or fault a campaign and an address are not muted for good.
KeysExpire ==
    /\ \A g \in Sigs : Calm /\ dedup[g].n > 0 ~> dedup[g].n = 0 \/ ~Calm
    /\ \A i \in Ips : Calm /\ velocity[i].n > 0 ~> velocity[i].n = 0 \/ ~Calm

=============================================================================
