----------------------------- MODULE DeceptionBus -----------------------------
(***************************************************************************)
(* The deception event bus (src/src/wraithwall/deception_event_bus.py):    *)
(* publish_deception_event pushes an event on the list of its address,     *)
(* looks for a pivot (two sources or two types of bait) and for a full     *)
(* chain (honeypot, beacon and reverse canary), and claims a dedup key for *)
(* each.  Every Redis call is a step, and nothing locks an address.        *)
(*                                                                         *)
(* This package sends no message after a claim: send_telegram_alert_bg and *)
(* write_immutable_log have no definition in the module, and the NameError *)
(* is swallowed (158, 230, 266); the claims are what deception_stats       *)
(* counts as alerts.  The list of all events, which only the pages of the  *)
(* bus read, and the correlator, which turns every event without a tenant  *)
(* away, are left out.  A tick is at least an hour.                        *)
(***************************************************************************)
EXTENDS Integers, Sequences, FiniteSets

CONSTANTS
    Workers,     \* threads of the process that runs the pipeline
    Ips,         \* attacker addresses
    None,        \* no address, no lure
    Kinds,       \* kinds of events published, beside "lure"
    Day,         \* IP_WINDOW_TTL and CHAIN_TTL, in ticks
    IpMax,       \* events kept for an address (500)
    Look         \* of these, events looked at for a pivot (100)

Stages   == {"cowrie", "beacon", "reverse"}
NoStage  == "none"
AllKinds == {"session", "file", "log", "beacon", "reverse", "lure"}

ASSUME BusBounds ==
    /\ Kinds \subseteq AllKinds /\ None \notin Ips
    /\ Day \in Nat \ {0} /\ Look \in Nat \ {0} /\ IpMax \in Nat /\ Look <= IpMax

\* What the callers publish: a closed session and a read of a honeyfs bait by
\* cowrie_intelligence, a hit of a canary token, a trigger of a lure.  A
\* reverse canary is published by the application that mounts this package.
Source(k) == IF k = "log" THEN "file" ELSE k
Bait(k)   == IF k = "log" THEN "beacon" ELSE k
StageOf(k) == IF k \in {"session", "file", "log"} THEN "cowrie"
              ELSE IF k \in {"beacon", "reverse"} THEN k ELSE NoStage

Ages   == 0..(Day + 1)      \* a time ago; Day + 1 is more than a day
Unseen == Day + 2
Blank  == [s \in Stages |-> Unseen]

VARIABLES
    bus,        \* [Workers -> the publish in hand]
    seen,       \* deception:<ip>:events, newest first
    seenLife,   \* its time to live, 0 when there is no such key
    chain,      \* deception:chain:<ip>, the age of each stage's time
    chainLife,
    pivotKey,   \* addresses with a live deception:pivot:alert key
    chainKey,   \* addresses with a live deception:chain:alert key
    pivoted,    \* history: addresses claimed for a pivot since their list began
    hit         \* history: the age of each stage's last event

busVars == <<bus, seen, seenLife, chain, chainLife, pivotKey, chainKey, pivoted, hit>>
redis   == <<seen, seenLife, chain, chainLife>>
claims  == <<pivotKey, chainKey, pivoted>>

Points == {"idle", "push", "look", "pivot", "read", "write", "full"}
Rest   == [at |-> "idle", ip |-> None, kind |-> "session", chain |-> Blank]

BusInit ==
    /\ bus = [w \in Workers |-> Rest]
    /\ seen = [i \in Ips |-> <<>>] /\ seenLife = [i \in Ips |-> 0]
    /\ chain = [i \in Ips |-> Blank] /\ chainLife = [i \in Ips |-> 0]
    /\ pivotKey = {} /\ chainKey = {} /\ pivoted = {}
    /\ hit = [i \in Ips |-> Blank]

At(w, p)    == bus[w].at = p
GoTo(w, p)  == bus' = [bus EXCEPT ![w].at = p]
Done(w)     == bus' = [bus EXCEPT ![w] = Rest]

Publish(w, i, k) ==
    /\ At(w, "idle")
    /\ bus' = [bus EXCEPT ![w] = [at |-> "push", ip |-> i, kind |-> k, chain |-> Blank]]
    /\ hit' = IF StageOf(k) = NoStage THEN hit ELSE [hit EXCEPT ![i][StageOf(k)] = 0]
    /\ UNCHANGED <<redis, claims>>

Newest(q, n) == SubSeq(q, 1, IF Len(q) < n THEN Len(q) ELSE n)

\* Mutant of Push: LTRIM to IpMax instead of IpMax - 1.
PushOneMore(w) ==
    LET i == bus[w].ip IN
    /\ At(w, "push") /\ GoTo(w, "look")
    /\ seen' = [seen EXCEPT ![i] = Newest(<<bus[w].kind>> \o @, IpMax + 1)]
    /\ seenLife' = [seenLife EXCEPT ![i] = Day]
    /\ UNCHANGED <<chain, chainLife, claims, hit>>

\* One pipeline: LPUSH, LTRIM and EXPIRE.
Push(w) ==
    LET i == bus[w].ip IN
    /\ At(w, "push") /\ GoTo(w, "look")
    /\ seen' = [seen EXCEPT ![i] = Newest(<<bus[w].kind>> \o @, IpMax)]
    /\ seenLife' = [seenLife EXCEPT ![i] = Day]
    /\ UNCHANGED <<chain, chainLife, claims, hit>>

Looked(i)  == LET q == Newest(seen[i], Look) IN {q[n] : n \in 1..Len(q)}
IsPivot(i) == \E a, b \in Looked(i) : Source(a) # Source(b) \/ Bait(a) # Bait(b)

\* Mutant of LookBack: the sources are not compared.
LookBackBaits(w) ==
    /\ At(w, "look")
    /\ GoTo(w, IF \E a, b \in Looked(bus[w].ip) : Bait(a) # Bait(b) THEN "pivot" ELSE "read")
    /\ UNCHANGED <<redis, claims, hit>>

LookBack(w) ==
    /\ At(w, "look")
    /\ GoTo(w, IF IsPivot(bus[w].ip) THEN "pivot" ELSE "read")
    /\ UNCHANGED <<redis, claims, hit>>

\* SET NX with ALERT_DEDUP_TTL.
ClaimPivot(w) ==
    /\ At(w, "pivot") /\ GoTo(w, "read")
    /\ pivotKey' = pivotKey \cup {bus[w].ip} /\ pivoted' = pivoted \cup {bus[w].ip}
    /\ UNCHANGED <<redis, chainKey, hit>>

\* _check_chain: an event without a stage ends here.  A GET that raises counts
\* as an empty chain.
ReadChain(w) ==
    /\ At(w, "read")
    /\ IF StageOf(bus[w].kind) = NoStage THEN Done(w)
       ELSE bus' = [bus EXCEPT ![w].at = "write", ![w].chain = chain[bus[w].ip]]
    /\ UNCHANGED <<redis, claims, hit>>

ReadChainFails(w) ==
    /\ At(w, "read") /\ StageOf(bus[w].kind) # NoStage
    /\ GoTo(w, "write")
    /\ UNCHANGED <<redis, claims, hit>>

\* The event's own stage: the first time of it stays.
Extended(c, s) == IF c[s] = Unseen THEN [c EXCEPT ![s] = 0] ELSE c

IsFull(c) == \A s \in Stages : c[s] <= Day

WriteChain(w) ==
    LET c == Extended(bus[w].chain, StageOf(bus[w].kind)) IN
    /\ At(w, "write")
    /\ chain' = [chain EXCEPT ![bus[w].ip] = c]
    /\ chainLife' = [chainLife EXCEPT ![bus[w].ip] = Day]
    /\ IF IsFull(c) THEN GoTo(w, "full") ELSE Done(w)
    /\ UNCHANGED <<seen, seenLife, claims, hit>>

\* SET NX with CHAIN_ALERT_DEDUP_TTL.
ClaimChain(w) ==
    /\ At(w, "full") /\ Done(w)
    /\ chainKey' = chainKey \cup {bus[w].ip}
    /\ UNCHANGED <<redis, pivotKey, pivoted, hit>>

\* Any other Redis call raises: the rest of the block is skipped.
BusFails(w) ==
    /\ ~At(w, "idle") /\ Done(w)
    /\ UNCHANGED <<redis, claims, hit>>

BusStep(w) ==
    \/ Push(w) \/ LookBack(w) \/ ClaimPivot(w) \/ ReadChain(w)
    \/ WriteChain(w) \/ ClaimChain(w)

----------------------------------------------------------------------------
(* Time: five minutes for the pivot key, an hour for the chain key, a day     *)
(* for the list and the chain, each day counted anew from the last write.     *)

PivotKeyExpires(i) ==
    /\ i \in pivotKey /\ pivotKey' = pivotKey \ {i}
    /\ UNCHANGED <<bus, redis, chainKey, pivoted, hit>>

Less(n)  == IF n > 0 THEN n - 1 ELSE 0
Older(n) == IF n <= Day THEN n + 1 ELSE n
Aged(c)  == [s \in Stages |-> Older(c[s])]

\* A publish takes less than a tick.
BusTick ==
    /\ \A w \in Workers : At(w, "idle")
    /\ seenLife' = [i \in Ips |-> Less(seenLife[i])]
    /\ seen' = [i \in Ips |-> IF seenLife'[i] = 0 THEN <<>> ELSE seen[i]]
    /\ chainLife' = [i \in Ips |-> Less(chainLife[i])]
    /\ chain' = [i \in Ips |-> IF chainLife'[i] = 0 THEN Blank ELSE Aged(chain[i])]
    /\ pivotKey' = {} /\ chainKey' = {}
    /\ pivoted' = {i \in pivoted : seenLife'[i] > 0}
    /\ hit' = [i \in Ips |-> Aged(hit[i])]
    /\ UNCHANGED bus

BusCrash == bus' = [w \in Workers |-> Rest] /\ UNCHANGED <<redis, claims, hit>>

----------------------------------------------------------------------------
(* What must hold. *)

Pub == [at : Points, ip : Ips \cup {None}, kind : AllKinds, chain : [Stages -> Ages \cup {Unseen}]]

BusTypeOK ==
    /\ bus \in [Workers -> Pub]
    /\ seen \in [Ips -> Seq(AllKinds)] /\ \A i \in Ips : Len(seen[i]) <= IpMax
    /\ seenLife \in [Ips -> 0..Day] /\ chainLife \in [Ips -> 0..Day]
    /\ chain \in [Ips -> [Stages -> Ages \cup {Unseen}]]
    /\ pivotKey \subseteq Ips /\ chainKey \subseteq Ips /\ pivoted \subseteq Ips
    /\ hit \in [Ips -> [Stages -> Ages \cup {Unseen}]]

\* Two events of an address at once may each miss the other's stage of the
\* chain, but never the pivot: when their publishes are through, an address
\* whose last events show a pivot has been claimed for it.
PivotIsClaimed ==
    \A i \in Ips :
        IsPivot(i) => \/ i \in pivoted
                      \/ \E w \in Workers : bus[w].ip = i /\ bus[w].at \in {"look", "pivot"}

\* A full chain is claimed only for an address that hit each of the three
\* stages within a day, although the chain's key lives on from event to event.
ChainIsEarned ==
    \A i \in chainKey : \A s \in Stages : hit[i][s] <= Day

=============================================================================
