--------------------------- MODULE CowriePipeline ---------------------------
(***************************************************************************)
(* The Cowrie intelligence pipeline of wraithwall: the log watcher, the    *)
(* bounded in-memory event queue, the event workers and the session store  *)
(* in Redis they share (src/src/wraithwall/cowrie_intelligence.py).        *)
(*                                                                         *)
(* The honeypot appends JSON lines to a file.  One watcher thread tails    *)
(* it, remembers its byte position in Redis and puts each event in a       *)
(* queue; a pool of workers takes events and updates per-session records   *)
(* with GET / SETEX pairs.  On session close a worker turns the live       *)
(* record into a completed one.  The process may crash: the queue, the     *)
(* workers and the dedup map are lost, Redis survives.                     *)
(*                                                                         *)
(* A line is identified by its number in the file, and a session record    *)
(* holds, per field, the numbers of the lines that were stored in it.      *)
(***************************************************************************)
EXTENDS Naturals, Sequences, FiniteSets

CONSTANTS
    Sessions,      \* session ids the honeypot hands out
    Commands,      \* command texts
    NoCmd,         \* a blank command, and the payload of other events
    SrcIp,         \* [Sessions -> source address]
    Risky,         \* the commands classify_command puts in HIGH_RISK_STAGES
    Workers,       \* the event worker threads
    QueueMax,      \* event_queue maxsize (5000 in the code)
    AlertMax,      \* alert_queue maxsize (1000 in the code)
    RecentMax,     \* length kept of cowrie_sessions:recent (1000)
    NoRecord,      \* an absent Redis key
    MaxLog,        \* bound: lines the honeypot writes
    MaxCrashes,    \* bound: process crashes
    MaxFaults,     \* bound: Redis calls that raise, keys of a day that expire
    MaxExpiries,   \* bound: completed records that get 30 days old
    TornLines,     \* may the watcher see a half-written line?
    QuietDays,     \* may the saved position and a live record expire?
    LlmMayFail     \* may the LLM call behind cowrie_cache raise?

Fields == {"commands", "login_attempts", "downloads"}
Kinds  == {"connect", "command", "login", "download", "closed"}
Event  == [kind : Kinds, sid : Sessions, cmd : Commands \cup {NoCmd}]
Record == [Fields -> Seq(Nat)]
Addresses  == {SrcIp[s] : s \in Sessions}
AlertTypes == {"command", "threshold", "session"}

EmptyRecord == [f \in Fields |-> <<>>]

ASSUME WorkersAssumption  == Workers # {} /\ IsFiniteSet(Workers)
ASSUME SessionsAssumption == Sessions # {}
ASSUME BoundsAssumption ==
    /\ QueueMax \in Nat \ {0} /\ AlertMax \in Nat \ {0}
    /\ RecentMax \in Nat \ {0}
    /\ MaxLog \in Nat /\ MaxCrashes \in Nat /\ MaxFaults \in Nat
    /\ MaxExpiries \in Nat
    /\ {TornLines, QuietDays, LlmMayFail} \subseteq BOOLEAN
ASSUME DataAssumption ==
    /\ NoCmd \notin Commands /\ Risky \subseteq Commands
    /\ NoRecord \notin Record /\ DOMAIN SrcIp = Sessions

VARIABLES
    log,        \* the lines of the honeypot's file, the last may be torn
    half,       \* TRUE while the last line is only half written
    watcher,    \* "closed" | "read" | "save"
    cursor,     \* position of the watcher: 2k = after line k, 2k+1 inside it
    saved,      \* cowrie_intel:log_pos in Redis (0 when absent)
    queue,      \* event_queue, of line numbers
    pc,         \* [Workers -> control point]
    ev,         \* [Workers -> number of the line in hand, 0 if none]
    buf,        \* [Workers -> session record read from Redis]
    seen,       \* eidetic_dedup: <<address, command>> inside their window
    live,       \* cowrie_session:{sid}
    completed,  \* cowrie_completed:{sid}
    recent,     \* cowrie_sessions:recent, newest first
    total,      \* cowrie_sessions:total
    alerts,     \* alert_queue, of <<type, sid>>
    crashes, faults, expired,               \* bounded environment
    done, dropped, torn, collapsed, alerted \* history, see below

(***************************************************************************)
(* History: the lines whose handler returned, were dropped on a full queue *)
(* (events_dropped), were read half-written, or were collapsed by the      *)
(* dedup window (eidetic_collapsed), and the sessions whose 'session'      *)
(* alert entered the alert queue.  `expired` has the sessions of the       *)
(* completed records that Redis expired, one entry for each.               *)
(***************************************************************************)
file    == <<log, half>>
tail    == <<watcher, cursor, saved>>
thread  == <<pc, ev, buf>>
store   == <<live, completed, recent, total>>
env     == <<crashes, faults, expired>>
history == <<done, dropped, torn, collapsed, alerted>>
vars    == <<file, tail, queue, thread, seen, store, alerts, env, history>>

ControlPoints ==
    {"idle", "connect", "dedup", "get", "set", "risk",
     "load", "analyse", "store", "index", "count", "enrich", "threshold",
     "alert", "delete"}

FieldOf(kind) == CASE kind = "command"  -> "commands"
                   [] kind = "login"    -> "login_attempts"
                   [] kind = "download" -> "downloads"

LineOf(w) == log[ev[w]]
Sid(w)    == LineOf(w).sid
Complete(k) == k < Len(log) \/ (k = Len(log) /\ ~half)

Init ==
    /\ log = <<>> /\ half = FALSE
    /\ watcher = "closed" /\ cursor = 0 /\ saved = 0
    /\ queue = <<>>
    /\ pc = [w \in Workers |-> "idle"]
    /\ ev = [w \in Workers |-> 0]
    /\ buf = [w \in Workers |-> EmptyRecord]
    /\ seen = {}
    /\ live = [s \in Sessions |-> NoRecord]
    /\ completed = [s \in Sessions |-> NoRecord]
    /\ recent = <<>> /\ total = 0
    /\ alerts = <<>>
    /\ crashes = 0 /\ faults = 0 /\ expired = <<>>
    /\ done = {} /\ dropped = {} /\ torn = {} /\ collapsed = {} /\ alerted = {}

----------------------------------------------------------------------------
(* The honeypot (external): connect first, closed last, once per session. *)

Logged(s, kind) == \E k \in 1..Len(log) : log[k].sid = s /\ log[k].kind = kind

HoneypotWrite(e) ==
    /\ Len(log) < MaxLog /\ ~half
    /\ IF e.kind = "connect"
       THEN ~Logged(e.sid, "connect")
       ELSE Logged(e.sid, "connect") /\ ~Logged(e.sid, "closed")
    /\ e.kind # "command" => e.cmd = NoCmd
    /\ log' = Append(log, e)
    /\ half' \in IF TornLines THEN BOOLEAN ELSE {FALSE}
    /\ UNCHANGED <<tail, queue, thread, seen, store, alerts, env, history>>

HoneypotFinishLine ==
    /\ half
    /\ half' = FALSE
    /\ UNCHANGED <<log, tail, queue, thread, seen, store, alerts, env, history>>

----------------------------------------------------------------------------
(* The watcher thread, _watch_cowrie_log. *)

\* Mutant of WatchOpen: a restart skips what was written meanwhile.
WatchOpenAtEnd ==
    /\ watcher = "closed"
    /\ cursor' = 2 * Len(log)
    /\ watcher' = "read"
    /\ UNCHANGED <<file, saved, queue, thread, seen, store, alerts, env, history>>

\* Mutant of WatchOpen: the saved position is not used.
WatchOpenAtStart ==
    /\ watcher = "closed"
    /\ cursor' = 0
    /\ watcher' = "read"
    /\ UNCHANGED <<file, saved, queue, thread, seen, store, alerts, env, history>>

\* The file is opened at the saved position, at its start without one; when
\* the GET raises it stays at the start.
WatchOpen ==
    /\ watcher = "closed"
    /\ \/ cursor' = saved /\ UNCHANGED faults
       \/ cursor' = 0 /\ faults < MaxFaults /\ faults' = faults + 1
    /\ watcher' = "read"
    /\ UNCHANGED <<file, saved, queue, thread, seen, store, alerts, crashes,
                   expired, history>>

\* Mutant of WatchLine: the queue takes one line too many.
WatchLineOverfull ==
    /\ watcher = "read" /\ cursor % 2 = 0
    /\ LET k == cursor \div 2 + 1 IN
       /\ k <= Len(log) /\ Complete(k)
       /\ IF Len(queue) <= QueueMax
          THEN queue' = Append(queue, k) /\ UNCHANGED dropped
          ELSE dropped' = dropped \cup {k} /\ UNCHANGED queue
    /\ cursor' = cursor + 2
    /\ watcher' = "save"
    /\ UNCHANGED <<file, saved, thread, seen, store, alerts, env,
                   done, torn, collapsed, alerted>>

\* Mutant of WatchLine: the line number is off by one.
WatchLineOffByOne ==
    /\ watcher = "read" /\ cursor % 2 = 0
    /\ LET k == cursor \div 2 + 1 IN
       /\ k <= Len(log) /\ Complete(k) /\ Len(queue) < QueueMax
       /\ queue' = Append(queue, k + 1)
    /\ cursor' = cursor + 2
    /\ watcher' = "save"
    /\ UNCHANGED <<file, saved, thread, seen, store, alerts, env, history>>

\* A whole line is parsed and handed to process_event, which drops it when
\* the queue is full.
WatchLine ==
    /\ watcher = "read" /\ cursor % 2 = 0
    /\ LET k == cursor \div 2 + 1 IN
       /\ k <= Len(log) /\ Complete(k)
       /\ IF Len(queue) < QueueMax
          THEN queue' = Append(queue, k) /\ UNCHANGED dropped
          ELSE dropped' = dropped \cup {k} /\ UNCHANGED queue
    /\ cursor' = cursor + 2
    /\ watcher' = "save"
    /\ UNCHANGED <<file, saved, thread, seen, store, alerts, env,
                   done, torn, collapsed, alerted>>

\* readline returns the part of a line that is there, and later the rest:
\* neither parses, and the position moves over both.
WatchTorn ==
    /\ watcher = "read"
    /\ LET k == cursor \div 2 + 1 IN
       /\ k <= Len(log)
       /\ IF cursor % 2 = 0 THEN ~Complete(k) ELSE Complete(k)
       /\ torn' = torn \cup {k}
    /\ cursor' = cursor + 1
    /\ watcher' = "save"
    /\ UNCHANGED <<file, saved, queue, thread, seen, store, alerts, env,
                   done, dropped, collapsed, alerted>>

\* SETEX of the position; a Redis error is ignored.
WatchSave ==
    /\ watcher = "save"
    /\ watcher' = "read"
    /\ \/ saved' = cursor /\ UNCHANGED faults
       \/ faults < MaxFaults /\ faults' = faults + 1 /\ UNCHANGED saved
    /\ UNCHANGED <<file, cursor, queue, thread, seen, store, alerts, crashes,
                   expired, history>>

\* The key lives 24 hours past the last line read: a quiet day loses it, and
\* so does a day without the process.
SavedExpires ==
    /\ QuietDays /\ saved # 0
    /\ watcher = "closed" \/ (watcher = "read" /\ cursor = 2 * Len(log) /\ ~half)
    /\ saved' = 0
    /\ faults < MaxFaults /\ faults' = faults + 1
    /\ UNCHANGED <<file, watcher, cursor, queue, thread, seen, store, alerts,
                   crashes, expired, history>>

----------------------------------------------------------------------------
(* The event workers. *)

Goto(w, p) == pc' = [pc EXCEPT ![w] = p]

\* The handler returns (or its exception is logged): the line is done.
Finish(w) ==
    /\ Goto(w, "idle")
    /\ ev' = [ev EXCEPT ![w] = 0]
    /\ buf' = [buf EXCEPT ![w] = EmptyRecord]
    /\ done' = done \cup {ev[w]}

\* put_nowait on alert_queue: a full queue loses the alert without a trace.
QueueAlert(type, s) ==
    alerts' = IF Len(alerts) < AlertMax THEN Append(alerts, <<type, s>>)
              ELSE alerts

TakeEvent(w) ==
    /\ pc[w] = "idle" /\ queue # <<>>
    /\ ev' = [ev EXCEPT ![w] = Head(queue)]
    /\ queue' = Tail(queue)
    /\ LET kind == log[Head(queue)].kind IN
       Goto(w, CASE kind = "connect" -> "connect"
                 [] kind = "command" -> "dedup"
                 [] kind = "closed"  -> "load"
                 [] OTHER            -> "get")
    /\ UNCHANGED <<file, tail, buf, seen, store, alerts, env, history>>

\* _handle_connect: SETEX of a fresh record, whatever is under the key.
Connect(w) ==
    /\ pc[w] = "connect"
    /\ live' = [live EXCEPT ![Sid(w)] = EmptyRecord]
    /\ Finish(w)
    /\ UNCHANGED <<file, tail, queue, seen, completed, recent, total, alerts,
                   env, dropped, torn, collapsed, alerted>>

\* _handle_command up to the end of the eidetic_dedup_lock block.
Dedup(w) ==
    /\ pc[w] = "dedup"
    /\ LET key == <<SrcIp[Sid(w)], LineOf(w).cmd>> IN
       \/ /\ LineOf(w).cmd = NoCmd
          /\ Finish(w)
          /\ UNCHANGED <<seen, collapsed>>
       \/ /\ LineOf(w).cmd # NoCmd /\ key \in seen
          /\ collapsed' = collapsed \cup {ev[w]}
          /\ Finish(w)
          /\ UNCHANGED seen
       \/ /\ LineOf(w).cmd # NoCmd /\ key \notin seen
          /\ seen' = seen \cup {key}
          /\ Goto(w, "get")
          /\ UNCHANGED <<ev, buf, collapsed, done>>
    /\ UNCHANGED <<file, tail, queue, store, alerts, env, dropped, torn, alerted>>

\* After _session_append: a command goes on to its classification.
AfterAppend(w) ==
    IF LineOf(w).kind = "command"
    THEN Goto(w, "risk") /\ UNCHANGED <<ev, buf, done>>
    ELSE Finish(w)

\* _session_append, the GET: without a record nothing is written.
AppendGet(w) ==
    /\ pc[w] = "get"
    /\ IF live[Sid(w)] = NoRecord
       THEN AfterAppend(w)
       ELSE /\ buf' = [buf EXCEPT ![w] = live[Sid(w)]]
            /\ Goto(w, "set")
            /\ UNCHANGED <<ev, done>>
    /\ UNCHANGED <<file, tail, queue, seen, store, alerts, env,
                   dropped, torn, collapsed, alerted>>

\* Mutant of AppendSet: the session key is kept where every worker sees it.
AppendSetSharedKey(w) ==
    /\ pc[w] = "set"
    /\ LET f == FieldOf(LineOf(w).kind) IN
       \E v \in {v \in Workers : pc[v] = "set"} :
          live' = [live EXCEPT ![Sid(v)] = [buf[w] EXCEPT ![f] = Append(@, ev[w])]]
    /\ AfterAppend(w)
    /\ UNCHANGED <<file, tail, queue, seen, completed, recent, total, alerts,
                   env, dropped, torn, collapsed, alerted>>

\* Mutant of AppendSet: the new value replaces the field.
AppendSetReplaces(w) ==
    /\ pc[w] = "set"
    /\ LET f == FieldOf(LineOf(w).kind) IN
       live' = [live EXCEPT ![Sid(w)] = [buf[w] EXCEPT ![f] = <<ev[w]>>]]
    /\ AfterAppend(w)
    /\ UNCHANGED <<file, tail, queue, seen, completed, recent, total, alerts,
                   env, dropped, torn, collapsed, alerted>>

\* _session_append, the SETEX of what was read plus the new value.
AppendSet(w) ==
    /\ pc[w] = "set"
    /\ LET f == FieldOf(LineOf(w).kind) IN
       live' = [live EXCEPT ![Sid(w)] = [buf[w] EXCEPT ![f] = Append(@, ev[w])]]
    /\ AfterAppend(w)
    /\ UNCHANGED <<file, tail, queue, seen, completed, recent, total, alerts,
                   env, dropped, torn, collapsed, alerted>>

\* _handle_command, the high-risk alert.
RiskAlert(w) ==
    /\ pc[w] = "risk"
    /\ IF LineOf(w).cmd \in Risky THEN QueueAlert("command", Sid(w))
       ELSE UNCHANGED alerts
    /\ Finish(w)
    /\ UNCHANGED <<file, tail, queue, seen, store, env,
                   dropped, torn, collapsed, alerted>>

\* _handle_close reads the live record, or starts from an empty one.
CloseLoad(w) ==
    /\ pc[w] = "load"
    /\ buf' = [buf EXCEPT ![w] =
                 IF live[Sid(w)] = NoRecord THEN EmptyRecord ELSE live[Sid(w)]]
    /\ Goto(w, "analyse")
    /\ UNCHANGED <<file, tail, queue, ev, seen, store, alerts, env, history>>

\* Mutant of CloseAnalyse: a session without commands is not stored.
CloseAnalyseNeedsCommands(w) ==
    /\ pc[w] = "analyse"
    /\ IF buf[w]["commands"] = <<>> THEN Finish(w)
       ELSE Goto(w, "store") /\ UNCHANGED <<ev, buf, done>>
    /\ UNCHANGED <<file, tail, queue, seen, store, alerts, env,
                   dropped, torn, collapsed, alerted>>

\* The analysis.  With two commands or more it asks the LLM through
\* cowrie_cache, which turns an exception into None; the handler then fails
\* on None and its own except clause ends it.
CloseAnalyse(w) ==
    /\ pc[w] = "analyse"
    /\ \/ Goto(w, "store") /\ UNCHANGED <<ev, buf, done>>
       \/ LlmMayFail /\ Len(buf[w]["commands"]) >= 2 /\ Finish(w)
    /\ UNCHANGED <<file, tail, queue, seen, store, alerts, env,
                   dropped, torn, collapsed, alerted>>

\* Sessions with commands have intelligence and are enriched.
AfterStore(w) ==
    Goto(w, IF buf[w]["commands"] # <<>> THEN "enrich" ELSE "alert")

\* Mutant of CloseStore: the answer of SETNX is not looked at.
CloseStoreAlwaysNew(w) ==
    /\ pc[w] = "store"
    /\ Goto(w, "index")
    /\ completed' = [completed EXCEPT ![Sid(w)] = buf[w]]
    /\ UNCHANGED <<file, tail, queue, ev, buf, seen, live, recent, total, alerts,
                   env, history>>

\* Mutant of CloseStore: only sessions with commands are indexed.
CloseStoreIndexesSome(w) ==
    /\ pc[w] = "store"
    /\ IF completed[Sid(w)] = NoRecord /\ buf[w]["commands"] # <<>>
       THEN Goto(w, "index") ELSE AfterStore(w)
    /\ completed' = [completed EXCEPT ![Sid(w)] = buf[w]]
    /\ UNCHANGED <<file, tail, queue, ev, buf, seen, live, recent, total, alerts,
                   env, history>>

\* SETNX of the completed record, SETEX when it was there.
CloseStore(w) ==
    /\ pc[w] = "store"
    /\ IF completed[Sid(w)] = NoRecord THEN Goto(w, "index") ELSE AfterStore(w)
    /\ completed' = [completed EXCEPT ![Sid(w)] = buf[w]]
    /\ UNCHANGED <<file, tail, queue, ev, buf, seen, live, recent, total, alerts,
                   env, history>>

\* LPUSH and LTRIM of the recent list, for a new record only.
CloseIndex(w) ==
    /\ pc[w] = "index"
    /\ LET pushed == <<Sid(w)>> \o recent IN
       recent' = SubSeq(pushed, 1, IF Len(pushed) < RecentMax THEN Len(pushed)
                                   ELSE RecentMax)
    /\ Goto(w, "count")
    /\ UNCHANGED <<file, tail, queue, ev, buf, seen, live, completed, total,
                   alerts, env, history>>

\* INCR of the total, and the session_closed event of the deception bus.
CloseCount(w) ==
    /\ pc[w] = "count"
    /\ total' = total + 1
    /\ AfterStore(w)
    /\ UNCHANGED <<file, tail, queue, ev, buf, seen, live, completed, recent,
                   alerts, env, history>>

\* _cross_module_enrich: it writes the same session again, with its findings.
CloseEnrich(w) ==
    /\ pc[w] = "enrich"
    /\ completed' = [completed EXCEPT ![Sid(w)] = buf[w]]
    /\ Goto(w, "threshold")
    /\ UNCHANGED <<file, tail, queue, ev, buf, seen, live, recent, total,
                   alerts, env, history>>

\* _check_threshold_alerts: nothing below 70; above, a SETEX of the record
\* and, unless CRYSTAL or the campaign dedup holds it back, an alert.
CloseThreshold(w) ==
    /\ pc[w] = "threshold"
    /\ \/ UNCHANGED <<completed, alerts>>
       \/ /\ completed' = [completed EXCEPT ![Sid(w)] = buf[w]]
          /\ QueueAlert("threshold", Sid(w)) \/ UNCHANGED alerts
    /\ Goto(w, "alert")
    /\ UNCHANGED <<file, tail, queue, ev, buf, seen, live, recent, total,
                   env, history>>

\* The alert of every completed session.
CloseAlert(w) ==
    /\ pc[w] = "alert"
    /\ QueueAlert("session", Sid(w))
    /\ alerted' = IF Len(alerts) < AlertMax THEN alerted \cup {Sid(w)} ELSE alerted
    /\ Goto(w, "delete")
    /\ UNCHANGED <<file, tail, queue, ev, buf, seen, store, env,
                   done, dropped, torn, collapsed>>

\* DEL of the live record, the last step of _handle_close.
CloseDelete(w) ==
    /\ pc[w] = "delete"
    /\ live' = [live EXCEPT ![Sid(w)] = NoRecord]
    /\ Finish(w)
    /\ UNCHANGED <<file, tail, queue, seen, completed, recent, total, alerts, env,
                   dropped, torn, collapsed, alerted>>

\* A Redis call raises.  _session_append swallows it and the handler goes
\* on; every other handler ends there.
RedisFault(w) ==
    /\ faults < MaxFaults /\ faults' = faults + 1
    /\ \/ pc[w] \in {"get", "set"} /\ AfterAppend(w)
       \/ pc[w] \in {"connect", "load", "store", "index", "count", "enrich",
                     "threshold", "delete"} /\ Finish(w)
    /\ UNCHANGED <<file, tail, queue, seen, store, alerts, crashes, expired,
                   dropped, torn, collapsed, alerted>>

Work(w) ==
    \/ TakeEvent(w)  \/ Connect(w)      \/ Dedup(w)       \/ AppendGet(w)
    \/ AppendSet(w)  \/ RiskAlert(w)    \/ CloseLoad(w)   \/ CloseAnalyse(w)
    \/ CloseStore(w) \/ CloseIndex(w)   \/ CloseCount(w)  \/ CloseEnrich(w)
    \/ CloseThreshold(w) \/ CloseAlert(w) \/ CloseDelete(w)

----------------------------------------------------------------------------
(* The rest of the process. *)

\* The alert worker takes an alert; what it does with it is CowrieAlerts.
TakeAlert ==
    /\ alerts # <<>>
    /\ alerts' = Tail(alerts)
    /\ UNCHANGED <<file, tail, queue, thread, seen, store, env, history>>

\* A dedup key gets older than EIDETIC_DEDUP_WINDOW.
DedupExpires ==
    \E key \in seen :
        /\ seen' = seen \ {key}
        /\ UNCHANGED <<file, tail, queue, thread, store, alerts, env, history>>

\* A live record lives 24 hours past its last write.
LiveExpires(s) ==
    /\ QuietDays /\ live[s] # NoRecord
    /\ live' = [live EXCEPT ![s] = NoRecord]
    /\ faults < MaxFaults /\ faults' = faults + 1
    /\ UNCHANGED <<file, tail, queue, thread, seen, completed, recent, total,
                   alerts, crashes, expired, history>>

\* The handler of a close line has written the record and may write it again.
PastStore == {"index", "count", "enrich", "threshold"}

\* A completed record lives 30 days past its last write, longer than the
\* handler that writes it; the recent list and the total have no life.
CompletedExpires(s) ==
    /\ Len(expired) < MaxExpiries /\ completed[s] # NoRecord
    /\ \A w \in Workers : pc[w] \in PastStore => Sid(w) # s
    /\ completed' = [completed EXCEPT ![s] = NoRecord]
    /\ expired' = Append(expired, s)
    /\ UNCHANGED <<file, tail, queue, thread, seen, live, recent, total, alerts,
                   crashes, faults, history>>

\* The process dies and starts again: only the file and Redis are kept.
Crash ==
    /\ crashes < MaxCrashes /\ crashes' = crashes + 1
    /\ watcher' = "closed" /\ cursor' = 0
    /\ queue' = <<>> /\ alerts' = <<>> /\ seen' = {}
    /\ pc' = [w \in Workers |-> "idle"]
    /\ ev' = [w \in Workers |-> 0]
    /\ buf' = [w \in Workers |-> EmptyRecord]
    /\ UNCHANGED <<file, saved, store, faults, expired, history>>

Watch == WatchOpen \/ WatchLine \/ WatchTorn \/ WatchSave

Next ==
    \/ \E e \in Event : HoneypotWrite(e)
    \/ HoneypotFinishLine
    \/ Watch \/ SavedExpires
    \/ \E w \in Workers : Work(w) \/ RedisFault(w)
    \/ \E s \in Sessions : LiveExpires(s) \/ CompletedExpires(s)
    \/ TakeAlert \/ DedupExpires \/ Crash

\* Every thread of the process keeps running, and the honeypot finishes a
\* line it began; nothing else has to happen.
Fairness ==
    /\ WF_vars(HoneypotFinishLine)
    /\ WF_vars(Watch)
    /\ \A w \in Workers : WF_vars(Work(w))
    /\ WF_vars(TakeAlert)

Spec     == Init /\ [][Next]_vars
FairSpec == Spec /\ Fairness

----------------------------------------------------------------------------
(* What must hold. *)

InHand == {ev[w] : w \in Workers} \ {0}
Queued == {queue[i] : i \in 1..Len(queue)}
Idle   == \A w \in Workers : pc[w] = "idle"
Calm   == crashes = 0 /\ faults = 0

FileOK ==
    /\ log \in Seq(Event) /\ half \in BOOLEAN
    /\ watcher \in {"closed", "read", "save"}
    /\ cursor \in Nat /\ saved \in Nat
ThreadOK ==
    /\ queue \in Seq(1..Len(log))
    /\ pc \in [Workers -> ControlPoints]
    /\ ev \in [Workers -> 0..Len(log)]
    /\ buf \in [Workers -> Record]
StoreOK ==
    /\ live \in [Sessions -> Record \cup {NoRecord}]
    /\ completed \in [Sessions -> Record \cup {NoRecord}]
    /\ recent \in Seq(Sessions) /\ total \in Nat
OtherOK ==
    /\ seen \subseteq Addresses \X Commands
    /\ alerts \in Seq(AlertTypes \X Sessions)
    /\ crashes \in Nat /\ faults \in Nat /\ expired \in Seq(Sessions)
HistoryOK ==
    /\ done \subseteq 1..Len(log) /\ dropped \subseteq 1..Len(log)
    /\ torn \subseteq 1..Len(log) /\ collapsed \subseteq 1..Len(log)
    /\ alerted \subseteq Sessions

\* Every variable has its type; in particular every line number that
\* travels through the queue, the workers and the records is a line of the log.
TypeOK == FileOK /\ ThreadOK /\ StoreOK /\ OtherOK /\ HistoryOK

BelongsTo(k, s, f) ==
    /\ k \in 1..Len(log) /\ log[k].sid = s
    /\ log[k].kind \in {"command", "login", "download"}
    /\ FieldOf(log[k].kind) = f

OwnLines(rec, s) ==
    \A f \in Fields : \A i \in 1..Len(rec[f]) : BelongsTo(rec[f][i], s, f)

\* A stored record holds only lines of its own session, each in its own
\* field, whatever the workers, faults and crashes do: the GET / SETEX pairs
\* of two workers never mix two sessions.
RecordsHoldOwnLines ==
    \A s \in Sessions :
        /\ live[s] # NoRecord => OwnLines(live[s], s)
        /\ completed[s] # NoRecord => OwnLines(completed[s], s)

Times(q, s) == Cardinality({i \in 1..Len(q) : q[i] = s})

\* A session is in the recent list once for every completed record it has or
\* had before Redis expired it, and no more often: handling its close line
\* again, after a crash or in another worker, lists it again only when its
\* record had got 30 days old.
IndexedOnce ==
    \A s \in Sessions :
        Times(recent, s) <=
            Times(expired, s) + IF completed[s] = NoRecord THEN 0 ELSE 1

\* cowrie_sessions:total never exceeds the completed records, those that
\* expired included, and without a crash or a fault it counts exactly those
\* whose worker is past the INCR.
TotalCountsCompleted ==
    LET counting == {w \in Workers : pc[w] \in {"index", "count"}}
        stored   == {s \in Sessions : completed[s] # NoRecord}
        counted  == total + Cardinality(counting)
        made     == Cardinality(stored) + Len(expired)
    IN  /\ counted <= made
        /\ Calm => counted = made

\* The lines of s for field f whose handler went through to the append.
Kept(s, f) ==
    {k \in done \ collapsed :
        BelongsTo(k, s, f) /\ (f = "commands" => log[k].cmd # NoCmd)}

Ascending(q) == \A i, j \in 1..Len(q) : i < j => q[i] < q[j]

IsTheLog(rec, s) ==
    \A f \in Fields : /\ {rec[f][i] : i \in 1..Len(rec[f])} = Kept(s, f)
                      /\ Ascending(rec[f])

Handled(s, kind) == \E k \in done : log[k].sid = s /\ log[k].kind = kind

\* With one event worker (a host of up to three cores) a completed session
\* holds exactly the lines of its log that were handled, in log order, and no
\* live record is left once the close was handled.
CompletedIsTheLog ==
    Idle => \A s \in Sessions :
        /\ completed[s] # NoRecord /\ Handled(s, "connect")
              => IsTheLog(completed[s], s)
        /\ Handled(s, "closed") => live[s] = NoRecord

\* The watcher saves its position after the line is in the queue: a crash
\* loses at most the lines that were in the queue and in hand, and lets at most
\* one line that was already handled come round again, unless a save failed or
\* the saved position expired.
CrashIsBounded ==
    LET lost == {k \in 1..Len(log) : 2 * k <= saved}
                  \ (done \cup dropped \cup torn \cup Queued \cup InHand)
    IN  /\ Cardinality(lost) <= crashes * (QueueMax + Cardinality(Workers))
        /\ faults = 0 => Cardinality(done \cap (Queued \cup InHand)) <= 1

\* Every line the honeypot writes is in the end handled, or counted as
\* dropped, or was seen torn.
EveryLineSettles ==
    \A k \in 1..MaxLog :
        k <= Len(log) ~> k \in done \cup dropped \cup torn

\* A close line that got into the queue leads to the completed record.
QueuedCloseCompletes ==
    \A k \in 1..MaxLog : \A s \in Sessions :
        (k \in Queued /\ log[k].kind = "closed" /\ log[k].sid = s)
            ~> completed[s] # NoRecord

\* The comment at cowrie_intelligence.py:1166: "Always send basic Telegram
\* alert for every working/completed session".
EverySessionAlerted ==
    Idle => \A s \in Sessions : Handled(s, "closed") => s \in alerted

\* The abstract view of a line, for a process that does not crash.
StageOf(k) ==
    IF k \in done THEN "done"
    ELSE IF k \in InHand THEN "handling"
    ELSE IF k \in Queued THEN "queued"
    ELSE IF k \in dropped \cup torn THEN "given up"
    ELSE IF k <= Len(log) THEN "written" ELSE "unwritten"

Delivery == INSTANCE LineDelivery WITH
    status <- [k \in 1..MaxLog |-> StageOf(k)],
    Hands  <- Cardinality(Workers)
DeliverySpec == Delivery!Spec

=============================================================================
