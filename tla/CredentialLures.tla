--------------------------- MODULE CredentialLures ---------------------------
(***************************************************************************)
(* Credential lures (src/src/wraithwall/credential_propagation.py) over    *)
(* the deception bus they publish to: lures are planted and the oldest     *)
(* evicted, logins of the honeypot that use one trigger it, an             *)
(* administrator deletes it, and its record expires.                       *)
(*                                                                         *)
(* A lure is a record lure:<id>, a place in lures:active, which is ordered *)
(* by the time of planting, and a place in lures:triggered.  Every Redis   *)
(* call is a step.  record_trigger holds a lock of the process from the    *)
(* read of the record to the end of the publish; planting and deleting     *)
(* hold none.  Posting a lure to a platform, the credentials themselves    *)
(* and the statistics are data; the rotation thread, which nothing in the  *)
(* package starts, plants through plant_lure as well.                      *)
(***************************************************************************)
EXTENDS DeceptionBus

CONSTANTS
    Lures,       \* lures, each with credentials of its own
    MaxActive,   \* MAX_ACTIVE_LURES
    MaxCalls,    \* bound: events, logins and requests
    MaxCrashes,  \* bound: crashes of the process
    MaxFaults    \* bound: Redis calls that raise

ASSUME LureBounds ==
    /\ MaxActive \in Nat \ {0} /\ IsFiniteSet(Lures) /\ IsFiniteSet(Workers)
    /\ None \notin Lures
    /\ MaxCalls \in Nat /\ MaxCrashes \in Nat /\ MaxFaults \in Nat

NoRecord == -1

VARIABLES
    job,         \* [Workers -> the login or request in hand]
    lock,        \* the worker that holds the lock of record_trigger
    count,       \* lure:<id>: trigger_count, NoRecord when there is no record
    active,      \* lures:active
    stamp,       \* the score of a lure in it, the time of its ZADD; 0 before
    triggered,   \* lures:triggered
    calls, crashes, faults,
    made,        \* history: lures planted
    gone,        \* history: lures deleted or evicted
    hits         \* history: triggers counted, by lure

history  == <<made, gone, hits>>
store    == <<count, active, stamp, triggered>>
env      == <<calls, crashes, faults>>
vars     == <<busVars, job, lock, store, env, history>>

JobPoints == {"idle", "scan", "get", "lock", "read", "write", "mark", "tell",
              "set", "add", "card", "excess", "evict", "drop",
              "check", "delete", "unlist", "forget"}

\* For a login: the lure it uses, the count it read, whether the lure was gone
\* when the login began.  For a plant: how many to evict and which, oldest first.
Free(l) == [at |-> "idle", lure |-> l, ip |-> None, n |-> 0, old |-> {}, late |-> FALSE]
NoJob   == Free(None)

Init ==
    /\ BusInit
    /\ job = [w \in Workers |-> NoJob] /\ lock = {}
    /\ count = [l \in Lures |-> NoRecord] /\ triggered = {}
    /\ active = {} /\ stamp = [l \in Lures |-> 0]
    /\ calls = 0 /\ crashes = 0 /\ faults = 0
    /\ made = {} /\ gone = {} /\ hits = [l \in Lures |-> 0]

JobAt(w, p)   == job[w].at = p
JobTo(w, p)   == job' = [job EXCEPT ![w].at = p]
JobEnds(w)    == job' = [job EXCEPT ![w] = NoJob]

\* ZRANGE: the n members with the lowest scores; and the first of a set.
Lowest(n) == {l \in active : Cardinality({m \in active : stamp[m] < stamp[l]}) < n}
First(s)  == {l \in s : \A m \in s : stamp[l] <= stamp[m]}

Begin(w) ==
    /\ JobAt(w, "idle") /\ At(w, "idle")
    /\ calls < MaxCalls /\ calls' = calls + 1

\* An event of the pipeline, of a canary token or of the application.
Event(w, i, k) ==
    /\ Begin(w) /\ Publish(w, i, k)
    /\ UNCHANGED <<job, lock, store, crashes, faults, history>>

----------------------------------------------------------------------------
(* A login: check_cowrie_login_for_lure and record_trigger. *)

Login(w, l, i) ==
    /\ Begin(w)
    /\ job' = [job EXCEPT ![w] = [Free(l) EXCEPT !.at = "scan", !.ip = i, !.late = l \in gone]]
    /\ UNCHANGED <<busVars, lock, store, crashes, faults, history>>

\* Of the lures in lures:active only the one with these credentials matters.
Scan(w) ==
    /\ JobAt(w, "scan")
    /\ IF job[w].lure \in active THEN JobTo(w, "get") ELSE JobEnds(w)
    /\ UNCHANGED <<busVars, lock, store, env, history>>

Get(w) ==
    /\ JobAt(w, "get")
    /\ IF count[job[w].lure] # NoRecord THEN JobTo(w, "lock") ELSE JobEnds(w)
    /\ UNCHANGED <<busVars, lock, store, env, history>>

\* Mutant of Acquire: the lock is not taken.
AcquireNothing(w) ==
    /\ JobAt(w, "lock") /\ JobTo(w, "read")
    /\ UNCHANGED <<busVars, lock, store, env, history>>

Acquire(w) ==
    /\ JobAt(w, "lock") /\ lock = {}
    /\ lock' = {w} /\ JobTo(w, "read")
    /\ UNCHANGED <<busVars, store, env, history>>

Read(w) ==
    LET n == count[job[w].lure] IN
    /\ JobAt(w, "read")
    /\ IF n # NoRecord
       THEN job' = [job EXCEPT ![w].at = "write", ![w].n = n] /\ UNCHANGED lock
       ELSE JobEnds(w) /\ lock' = {}
    /\ UNCHANGED <<busVars, store, env, history>>

\* The record is written back, whatever became of it since.
Write(w) ==
    LET l == job[w].lure IN
    /\ JobAt(w, "write") /\ JobTo(w, "mark")
    /\ count' = [count EXCEPT ![l] = job[w].n + 1]
    /\ hits' = [hits EXCEPT ![l] = @ + 1]
    /\ UNCHANGED <<busVars, lock, active, stamp, triggered, env, made, gone>>

\* ZADD to lures:triggered, then the publish.
Mark(w) ==
    /\ JobAt(w, "mark") /\ JobTo(w, "tell")
    /\ triggered' = triggered \cup {job[w].lure}
    /\ Publish(w, job[w].ip, "lure")
    /\ UNCHANGED <<lock, count, active, stamp, env, history>>

Told(w) ==
    /\ JobAt(w, "tell") /\ At(w, "idle")
    /\ JobEnds(w) /\ lock' = {}
    /\ UNCHANGED <<busVars, store, env, history>>

----------------------------------------------------------------------------
(* Planting: plant_lure once it is posted, and _store_lure. *)

Plant(w, l) ==
    /\ Begin(w) /\ l \notin made
    /\ made' = made \cup {l}
    /\ job' = [job EXCEPT ![w] = [Free(l) EXCEPT !.at = "set"]]
    /\ UNCHANGED <<busVars, lock, store, crashes, faults, gone, hits>>

SetRecord(w) ==
    /\ JobAt(w, "set") /\ JobTo(w, "add")
    /\ count' = [count EXCEPT ![job[w].lure] = 0]
    /\ UNCHANGED <<busVars, lock, active, stamp, triggered, env, history>>

Add(w) ==
    /\ JobAt(w, "add") /\ JobTo(w, "card")
    /\ active' = active \cup {job[w].lure}
    /\ stamp' = [stamp EXCEPT ![job[w].lure] = 1 + Cardinality({l \in Lures : stamp[l] > 0})]
    /\ UNCHANGED <<busVars, lock, count, triggered, env, history>>

\* Mutant of Card: one lure more than the maximum stays.
CardOneMore(w) ==
    /\ JobAt(w, "card")
    /\ IF Cardinality(active) > MaxActive + 1
       THEN job' = [job EXCEPT ![w].at = "excess", ![w].n = Cardinality(active) - MaxActive]
       ELSE JobEnds(w)
    /\ UNCHANGED <<busVars, lock, store, env, history>>

Card(w) ==
    /\ JobAt(w, "card")
    /\ IF Cardinality(active) > MaxActive
       THEN job' = [job EXCEPT ![w].at = "excess", ![w].n = Cardinality(active) - MaxActive]
       ELSE JobEnds(w)
    /\ UNCHANGED <<busVars, lock, store, env, history>>

Excess(w) ==
    /\ JobAt(w, "excess")
    /\ job' = [job EXCEPT ![w].at = "evict", ![w].old = Lowest(job[w].n)]
    /\ UNCHANGED <<busVars, lock, store, env, history>>

\* The oldest: its record, then its place in lures:active.
Evict(w) ==
    /\ JobAt(w, "evict")
    /\ IF job[w].old = {}
       THEN JobEnds(w) /\ UNCHANGED count
       ELSE JobTo(w, "drop") /\ \E l \in First(job[w].old) : count' = [count EXCEPT ![l] = NoRecord]
    /\ UNCHANGED <<busVars, lock, active, stamp, triggered, env, history>>

Drop(w) ==
    /\ JobAt(w, "drop")
    /\ \E l \in First(job[w].old) :
          /\ job' = [job EXCEPT ![w].at = "evict", ![w].old = @ \ {l}]
          /\ active' = active \ {l} /\ gone' = gone \cup {l}
    /\ UNCHANGED <<busVars, lock, count, stamp, triggered, env, made, hits>>

----------------------------------------------------------------------------
(* Deletion: delete_lure, of a lure that a page has shown. *)

Delete(w, l) ==
    /\ Begin(w) /\ stamp[l] > 0
    /\ job' = [job EXCEPT ![w] = [Free(l) EXCEPT !.at = "check"]]
    /\ UNCHANGED <<busVars, lock, store, crashes, faults, history>>

Check(w) ==
    /\ JobAt(w, "check")
    /\ IF count[job[w].lure] # NoRecord THEN JobTo(w, "delete") ELSE JobEnds(w)
    /\ UNCHANGED <<busVars, lock, store, env, history>>

DeleteRecord(w) ==
    /\ JobAt(w, "delete") /\ JobTo(w, "unlist")
    /\ count' = [count EXCEPT ![job[w].lure] = NoRecord]
    /\ UNCHANGED <<busVars, lock, active, stamp, triggered, env, history>>

\* Mutant of Unlist: only the record is deleted.
UnlistNothing(w) ==
    /\ JobAt(w, "unlist") /\ JobTo(w, "forget")
    /\ gone' = gone \cup {job[w].lure}
    /\ UNCHANGED <<busVars, lock, store, env, made, hits>>

Unlist(w) ==
    /\ JobAt(w, "unlist") /\ JobTo(w, "forget")
    /\ active' = active \ {job[w].lure} /\ gone' = gone \cup {job[w].lure}
    /\ UNCHANGED <<busVars, lock, count, stamp, triggered, env, made, hits>>

Forget(w) ==
    /\ JobAt(w, "forget") /\ JobEnds(w)
    /\ triggered' = triggered \ {job[w].lure}
    /\ UNCHANGED <<busVars, lock, count, active, stamp, env, history>>

----------------------------------------------------------------------------
(* Redis, time and the process. *)

\* LURE_TRACKING_TTL ends: the place in lures:active stays.
Expire(l) ==
    /\ count[l] # NoRecord /\ count' = [count EXCEPT ![l] = NoRecord]
    /\ UNCHANGED <<busVars, job, lock, active, stamp, triggered, env, history>>

Fault == faults < MaxFaults /\ faults' = faults + 1

\* A call of a login or request raises: it ends, and the lock is released.
JobFails(w) ==
    /\ Fault /\ job[w].at \notin {"idle", "lock", "tell"}
    /\ JobEnds(w) /\ lock' = lock \ {w}
    /\ UNCHANGED <<busVars, store, calls, crashes, history>>

PublishFails(w) ==
    /\ Fault /\ (BusFails(w) \/ ReadChainFails(w))
    /\ UNCHANGED <<job, lock, store, calls, crashes, history>>

Crash ==
    /\ crashes < MaxCrashes /\ crashes' = crashes + 1
    /\ BusCrash
    /\ job' = [w \in Workers |-> NoJob] /\ lock' = {}
    /\ UNCHANGED <<store, calls, faults, history>>

Publishing(w) == BusStep(w) /\ UNCHANGED <<job, lock, store, env, history>>

Passing ==
    /\ BusTick \/ \E i \in Ips : PivotKeyExpires(i)
    /\ UNCHANGED <<job, lock, store, env, history>>

Trigger(w)  == Scan(w) \/ Get(w) \/ Acquire(w) \/ Read(w) \/ Write(w) \/ Mark(w) \/ Told(w)
Store(w)    == SetRecord(w) \/ Add(w) \/ Card(w) \/ Excess(w) \/ Evict(w) \/ Drop(w)
Deletion(w) == Check(w) \/ DeleteRecord(w) \/ Unlist(w) \/ Forget(w)

Next ==
    \/ \E w \in Workers :
        \/ \E i \in Ips : \E k \in Kinds : Event(w, i, k)
        \/ \E l \in Lures : Plant(w, l) \/ Delete(w, l) \/ \E i \in Ips : Login(w, l, i)
        \/ Publishing(w) \/ Trigger(w) \/ Store(w) \/ Deletion(w)
        \/ JobFails(w) \/ PublishFails(w)
    \/ \E l \in Lures : Expire(l)
    \/ Passing \/ Crash

Spec == Init /\ [][Next]_vars

----------------------------------------------------------------------------
(* What must hold. *)

Job == [at : JobPoints, lure : Lures \cup {None}, ip : Ips \cup {None}, n : Nat, old : SUBSET Lures, late : BOOLEAN]

TypeOK ==
    /\ BusTypeOK
    /\ job \in [Workers -> Job] /\ lock \subseteq Workers
    /\ count \in [Lures -> Nat \cup {NoRecord}]
    /\ active \subseteq Lures /\ stamp \in [Lures -> Nat] /\ triggered \subseteq Lures
    /\ calls \in Nat /\ crashes \in Nat /\ faults \in Nat
    /\ made \subseteq Lures /\ gone \subseteq made
    /\ hits \in [Lures -> Nat]

\* What the bus claims about an address is so, and nothing it should claim is
\* missed, unless a publish was cut short.
ClaimsAreTrue == ChainIsEarned /\ (crashes = 0 /\ faults = 0 => PivotIsClaimed)

\* The lock keeps the counts: a lure's record, as long as there is one, counts
\* each of its triggers, whoever else plants, evicts or deletes meanwhile.
TriggersCounted == \A l \in Lures : count[l] # NoRecord => count[l] = hits[l]

\* However plants overlap, the active lures exceed their maximum by no more
\* than the plants that are still storing, or were cut short.
ActiveBounded ==
    LET storing == {w \in Workers : job[w].at \in {"card", "excess", "evict", "drop"}}
    IN  Cardinality(active) <= MaxActive + Cardinality(storing) + faults
                           + crashes * Cardinality(Workers)

LuresAreTrue == TriggersCounted /\ ActiveBounded

\* A trigger may write the record of a lure back that was deleted or evicted
\* meanwhile; a login that begins after that never counts on it again.
QuietOnceGone ==
    [][\A l \in Lures : hits'[l] > hits[l] =>
            \E w \in Workers : job[w].lure = l /\ job[w].at = "write" /\ ~job[w].late]_vars

=============================================================================
