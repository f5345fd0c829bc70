------------------------ MODULE CowriePipelineProofs ------------------------
(* Theorems about CowriePipeline, for every value of its constants. *)
EXTENDS CowriePipeline, TLAPS, SequenceTheorems, FiniteSetTheorems

(***************************************************************************)
(* Type correctness.  It is not inductive alone: a worker reads the line   *)
(* in its hand, so the line of a busy worker must be a line of the log.    *)
(***************************************************************************)
BusyHasLine == \A w \in Workers : pc[w] # "idle" => ev[w] \in 1..Len(log)
AppendKinds ==
    \A w \in Workers : pc[w] \in {"get", "set"} =>
        log[ev[w]].kind \in {"command", "login", "download"}
DedupKind == \A w \in Workers : pc[w] = "dedup" => log[ev[w]].kind = "command"
HandOK == BusyHasLine /\ AppendKinds /\ DedupKind
TInv == TypeOK /\ HandOK

LEMMA EmptyIsRecord == EmptyRecord \in Record
  BY DEF EmptyRecord, Record, Fields

LEMMA InitTInv == Init => TInv
  <1> SUFFICES ASSUME Init PROVE TInv
    OBVIOUS
  <1>1. FileOK
    BY EmptySeq DEF Init, FileOK
  <1>2. ThreadOK
    BY EmptyIsRecord, EmptySeq DEF Init, ThreadOK, ControlPoints
  <1>3. StoreOK
    BY DEF Init, StoreOK
  <1>4. OtherOK
    BY DEF Init, OtherOK
  <1>5. HistoryOK
    BY DEF Init, HistoryOK
  <1>6. HandOK
    BY DEF Init, HandOK, BusyHasLine, AppendKinds, DedupKind
  <1> QED BY <1>1, <1>2, <1>3, <1>4, <1>5, <1>6 DEF TInv, TypeOK

LEMMA WriteTInv ==
    ASSUME TInv, NEW e \in Event, HoneypotWrite(e) PROVE TInv'
  <1> USE DEF TInv, TypeOK
  <1>1. log' \in Seq(Event) /\ Len(log') = Len(log) + 1
        /\ \A k \in 1..Len(log) : log'[k] = log[k]
    BY DEF HoneypotWrite, FileOK
  <1>2. FileOK'
    BY <1>1 DEF HoneypotWrite, FileOK, tail
  <1>3. 1..Len(log) \subseteq 1..Len(log') /\ 0..Len(log) \subseteq 0..Len(log')
    BY <1>1, LenProperties DEF FileOK
  <1>4. ThreadOK'
    BY <1>3 DEF HoneypotWrite, ThreadOK, thread
  <1>5. StoreOK'
    BY DEF HoneypotWrite, StoreOK, store
  <1>6. OtherOK'
    BY DEF HoneypotWrite, OtherOK, env
  <1>7. HistoryOK'
    BY <1>3 DEF HoneypotWrite, HistoryOK, history
  <1>8. HandOK'
    BY <1>1, <1>3 DEF HoneypotWrite, HandOK, BusyHasLine, AppendKinds, DedupKind, thread
  <1> QED BY <1>2, <1>4, <1>5, <1>6, <1>7, <1>8

LEMMA WatchTInv == ASSUME TInv, Watch \/ SavedExpires \/ HoneypotFinishLine PROVE TInv'
  <1> USE DEF TInv, TypeOK
  <1>1. CASE WatchLine
    <2> DEFINE k == cursor \div 2 + 1
    <2>1. k \in 1..Len(log)
      BY <1>1 DEF WatchLine, FileOK
    <2>2. /\ queue' = Append(queue, k) \/ queue' = queue
          /\ dropped' = dropped \cup {k} \/ dropped' = dropped
      BY <1>1 DEF WatchLine
    <2> HIDE DEF k
    <2>3. queue' \in Seq(1..Len(log))
      <3> DEFINE S == 1..Len(log)
      <3>1. queue \in Seq(S) /\ k \in S
        BY <2>1 DEF ThreadOK
      <3> HIDE DEF S
      <3>2. Append(queue, k) \in Seq(S)
        BY <3>1, AppendProperties
      <3> QED BY <2>2, <3>1, <3>2 DEF S
    <2>4. log' = log /\ half' = half /\ pc' = pc /\ ev' = ev /\ buf' = buf
          /\ saved' = saved /\ watcher' = "save" /\ cursor' = cursor + 2
      BY <1>1 DEF WatchLine, file, thread
    <2>5. FileOK' /\ ThreadOK'
      BY <2>3, <2>4 DEF FileOK, ThreadOK
    <2>6. StoreOK' /\ OtherOK'
      BY <1>1 DEF WatchLine, StoreOK, OtherOK, store, env
    <2>7. HistoryOK'
      BY <1>1, <2>1, <2>2, <2>4 DEF WatchLine, HistoryOK
    <2>8. HandOK'
      BY <2>4 DEF HandOK, BusyHasLine, AppendKinds, DedupKind
    <2> QED BY <2>5, <2>6, <2>7, <2>8
  <1>2. CASE WatchTorn
    <2>1. cursor \div 2 + 1 \in 1..Len(log)
      BY <1>2 DEF WatchTorn, FileOK
    <2>2. FileOK' /\ ThreadOK' /\ StoreOK' /\ OtherOK'
      BY <1>2 DEF WatchTorn, FileOK, ThreadOK, StoreOK, OtherOK, file, thread, store, env
    <2>3. HistoryOK'
      BY <1>2, <2>1 DEF WatchTorn, HistoryOK, file
    <2>4. HandOK'
      BY <1>2 DEF WatchTorn, HandOK, BusyHasLine, AppendKinds, DedupKind, file, thread
    <2> QED BY <2>2, <2>3, <2>4
  <1>3. CASE WatchOpen \/ WatchSave \/ SavedExpires \/ HoneypotFinishLine
    <2>1. FileOK'
      <3>1. log' = log /\ half' \in BOOLEAN
        BY <1>3 DEF WatchOpen, WatchSave, SavedExpires, HoneypotFinishLine, FileOK, file
      <3>2. /\ watcher' \in {"closed", "read", "save"}
            /\ cursor' \in {cursor, saved, 0} /\ saved' \in {saved, cursor, 0}
        BY <1>3 DEF WatchOpen, WatchSave, SavedExpires, HoneypotFinishLine, FileOK, tail
      <3> QED BY <3>1, <3>2 DEF FileOK
    <2>2. /\ UNCHANGED <<log, queue, seen, alerts, crashes, expired>>
          /\ UNCHANGED <<thread, store, history>>
          /\ faults' = faults \/ faults' = faults + 1
      BY <1>3 DEF WatchOpen, WatchSave, SavedExpires, HoneypotFinishLine, file, env
    <2>3. ThreadOK' /\ StoreOK' /\ OtherOK' /\ HistoryOK' /\ HandOK'
      BY <2>2 DEF ThreadOK, StoreOK, OtherOK, HistoryOK, HandOK, BusyHasLine, AppendKinds, DedupKind,
                  thread, store, history
    <2> QED BY <2>1, <2>3
  <1> QED BY <1>1, <1>2, <1>3 DEF Watch

(* What a worker leaves behind when it moves on, and when it is done. *)
LEMMA GotoTInv ==
    ASSUME TInv, NEW w \in Workers, pc[w] # "idle", NEW p \in ControlPoints \ {"dedup"},
           Goto(w, p), UNCHANGED <<log, queue, ev>>, buf' \in [Workers -> Record],
           p \in {"get", "set"} => log[ev[w]].kind \in {"command", "login", "download"}
    PROVE  ThreadOK' /\ HandOK'
  BY DEF TInv, TypeOK, ThreadOK, HandOK, BusyHasLine, AppendKinds, DedupKind, Goto

LEMMA FinishTInv ==
    ASSUME TInv, NEW w \in Workers, pc[w] # "idle", Finish(w), UNCHANGED <<log, queue>>
    PROVE  ThreadOK' /\ HandOK' /\ done' \subseteq 1..Len(log)
  <1> USE DEF TInv, TypeOK, ThreadOK, Finish, Goto
  <1>1. ev[w] \in 1..Len(log)
    BY DEF HandOK, BusyHasLine
  <1>2. ThreadOK'
    BY EmptyIsRecord DEF ControlPoints
  <1>3. HandOK'
    BY DEF HandOK, BusyHasLine, AppendKinds, DedupKind
  <1>4. done' \subseteq 1..Len(log)
    BY <1>1 DEF HistoryOK
  <1> QED BY <1>2, <1>3, <1>4

LEMMA AfterAppendTInv ==
    ASSUME TInv, NEW w \in Workers, pc[w] # "idle", AfterAppend(w),
           UNCHANGED <<log, queue>>
    PROVE  ThreadOK' /\ HandOK' /\ done' \subseteq 1..Len(log)
  <1>1. CASE LineOf(w).kind = "command"
    <2>1. Goto(w, "risk") /\ UNCHANGED <<ev, buf, done>>
      BY <1>1 DEF AfterAppend
    <2>2. buf' \in [Workers -> Record] /\ "risk" \in ControlPoints \ {"dedup"}
      BY <2>1 DEF TInv, TypeOK, ThreadOK, ControlPoints
    <2>3. ThreadOK' /\ HandOK'
      BY <2>1, <2>2, GotoTInv
    <2> QED BY <2>1, <2>3 DEF TInv, TypeOK, HistoryOK
  <1>2. CASE LineOf(w).kind # "command"
    BY <1>2, FinishTInv DEF AfterAppend
  <1> QED BY <1>1, <1>2

LEMMA AlertTInv ==
    ASSUME OtherOK, NEW s \in Sessions, NEW t \in AlertTypes, QueueAlert(t, s)
    PROVE  alerts' \in Seq(AlertTypes \X Sessions)
  BY AppendProperties DEF OtherOK, QueueAlert

LEMMA SidInSessions ==
    ASSUME TInv, NEW w \in Workers, pc[w] # "idle"
    PROVE  Sid(w) \in Sessions /\ LineOf(w) \in Event /\ ev[w] \in Nat
  <1>1. ev[w] \in 1..Len(log)
    BY DEF TInv, HandOK, BusyHasLine
  <1>2. LineOf(w) \in Event
    BY <1>1, ElementOfSeq DEF TInv, TypeOK, FileOK, LineOf
  <1> QED BY <1>1, <1>2 DEF Sid, Event

LEMMA FieldsOfKinds ==
    ASSUME NEW kind \in {"command", "login", "download"}
    PROVE  FieldOf(kind) \in Fields
  BY DEF FieldOf, Fields

LEMMA AppendedIsRecord ==
    ASSUME NEW rec \in Record, NEW f \in Fields, NEW k \in Nat
    PROVE  [rec EXCEPT ![f] = Append(@, k)] \in Record
  <1>1. Append(rec[f], k) \in Seq(Nat)
    BY AppendProperties DEF Record
  <1> QED BY <1>1 DEF Record

(* The handlers of connect, command, login and download lines. *)
LEMMA AppendersTInv ==
    ASSUME TInv, NEW w \in Workers,
           \/ TakeEvent(w) \/ Connect(w) \/ Dedup(w)
           \/ AppendGet(w) \/ AppendSet(w) \/ RiskAlert(w)
    PROVE  TInv'
  <1> USE DEF TInv, TypeOK
  <1>1. CASE TakeEvent(w)
    <2> DEFINE h == Head(queue)
    <2>1. h \in 1..Len(log) /\ Tail(queue) \in Seq(1..Len(log))
      BY <1>1, HeadTailProperties DEF TakeEvent, ThreadOK
    <2>2. PICK p \in ControlPoints :
            /\ pc' = [pc EXCEPT ![w] = p] /\ p # "set"
            /\ p = "get" => log[h].kind \in {"command", "login", "download"}
            /\ p = "dedup" => log[h].kind = "command"
      <3>1. log[h] \in Event
        BY <2>1, ElementOfSeq DEF FileOK
      <3>2. log[h].kind \in Kinds
        BY <3>1 DEF Event
      <3> QED BY <1>1, <3>2 DEF TakeEvent, Goto, ControlPoints, Kinds
    <2>3. /\ ev' = [ev EXCEPT ![w] = h] /\ queue' = Tail(queue)
          /\ UNCHANGED <<log, half, tail, buf, seen, store, alerts, env, history>>
      BY <1>1 DEF TakeEvent, file
    <2> HIDE DEF h
    <2>4. FileOK' /\ StoreOK' /\ OtherOK' /\ HistoryOK'
      BY <2>3 DEF FileOK, StoreOK, OtherOK, HistoryOK, tail, store, env, history
    <2>5. ThreadOK'
      BY <2>1, <2>2, <2>3 DEF ThreadOK
    <2>6. HandOK'
      BY <2>1, <2>2, <2>3 DEF HandOK, BusyHasLine, AppendKinds, DedupKind, ThreadOK
    <2> QED BY <2>4, <2>5, <2>6
  <1>2. CASE Connect(w)
    <2>1. pc[w] # "idle" /\ Sid(w) \in Sessions
      BY <1>2, SidInSessions DEF Connect
    <2>2. ThreadOK' /\ HandOK' /\ done' \subseteq 1..Len(log)
      BY <1>2, <2>1, FinishTInv DEF Connect, file
    <2>3. FileOK' /\ OtherOK' /\ HistoryOK'
      BY <1>2, <2>2 DEF Connect, FileOK, OtherOK, HistoryOK, file, tail, env
    <2>4. StoreOK'
      BY <1>2, <2>1, EmptyIsRecord DEF Connect, StoreOK
    <2> QED BY <2>2, <2>3, <2>4
  <1>3. CASE Dedup(w)
    <2>1. /\ pc[w] # "idle" /\ Sid(w) \in Sessions
          /\ LineOf(w).cmd \in Commands \cup {NoCmd} /\ ev[w] \in 1..Len(log)
      BY <1>3, SidInSessions DEF Dedup, Event, HandOK, BusyHasLine
    <2>2. FileOK' /\ StoreOK' /\ log' = log /\ queue' = queue
      BY <1>3 DEF Dedup, FileOK, StoreOK, file, tail, store
    <2>3. collapsed' \subseteq 1..Len(log) /\ seen' \subseteq Addresses \X Commands
      <3> DEFINE key == <<SrcIp[Sid(w)], LineOf(w).cmd>>
      <3>1. LineOf(w).cmd # NoCmd => key \in Addresses \X Commands
        BY <2>1 DEF Addresses
      <3>2. seen' = seen \/ (LineOf(w).cmd # NoCmd /\ seen' = seen \cup {key})
        BY <1>3 DEF Dedup
      <3>3. collapsed' = collapsed \/ collapsed' = collapsed \cup {ev[w]}
        BY <1>3 DEF Dedup
      <3> HIDE DEF key
      <3> QED BY <2>1, <3>1, <3>2, <3>3 DEF HistoryOK, OtherOK
    <2>4. OtherOK' /\ dropped' = dropped /\ torn' = torn /\ alerted' = alerted
      BY <1>3, <2>3 DEF Dedup, OtherOK, env
    <2>5. CASE Finish(w)
      <3>1. ThreadOK' /\ HandOK' /\ done' \subseteq 1..Len(log)
        BY <2>1, <2>2, <2>5, FinishTInv
      <3> QED BY <2>2, <2>3, <2>4, <3>1 DEF HistoryOK
    <2>6. CASE Goto(w, "get") /\ UNCHANGED <<ev, buf, done>>
      <3>1. log[ev[w]].kind = "command"
        BY <1>3 DEF Dedup, HandOK, DedupKind
      <3>2. buf' \in [Workers -> Record] /\ "get" \in ControlPoints \ {"dedup"}
        BY <2>6 DEF ThreadOK, ControlPoints
      <3>3. ThreadOK' /\ HandOK'
        BY <2>1, <2>2, <2>6, <3>1, <3>2, GotoTInv
      <3> QED BY <2>2, <2>3, <2>4, <2>6, <3>3 DEF HistoryOK
    <2> QED BY <1>3, <2>5, <2>6 DEF Dedup
  <1>4. CASE AppendGet(w)
    <2>1. pc[w] # "idle" /\ Sid(w) \in Sessions
      BY <1>4, SidInSessions DEF AppendGet
    <2>2. FileOK' /\ StoreOK' /\ OtherOK' /\ UNCHANGED <<log, queue>>
      BY <1>4 DEF AppendGet, FileOK, StoreOK, OtherOK, file, tail, store, env
    <2>3. ThreadOK' /\ HandOK' /\ done' \subseteq 1..Len(log)
      <3>1. CASE live[Sid(w)] = NoRecord
        BY <1>4, <2>1, <2>2, <3>1, AfterAppendTInv DEF AppendGet
      <3>2. CASE live[Sid(w)] # NoRecord
        <4>1. live[Sid(w)] \in Record
          BY <2>1, <3>2 DEF StoreOK
        <4>2. buf' \in [Workers -> Record] /\ Goto(w, "set") /\ UNCHANGED <<ev, done>>
          BY <1>4, <3>2, <4>1 DEF AppendGet, ThreadOK
        <4>3. log[ev[w]].kind \in {"command", "login", "download"}
          BY <1>4 DEF AppendGet, HandOK, AppendKinds
        <4>4. ThreadOK' /\ HandOK'
          BY <2>1, <2>2, <4>2, <4>3, GotoTInv DEF ControlPoints
        <4> QED BY <4>2, <4>4 DEF HistoryOK
      <3> QED BY <3>1, <3>2
    <2>4. HistoryOK'
      BY <1>4, <2>2, <2>3 DEF AppendGet, HistoryOK
    <2> QED BY <2>2, <2>3, <2>4
  <1>5. CASE AppendSet(w)
    <2>1. pc[w] # "idle" /\ Sid(w) \in Sessions /\ ev[w] \in Nat
      BY <1>5, SidInSessions DEF AppendSet
    <2>2. FieldOf(LineOf(w).kind) \in Fields
      BY <1>5, FieldsOfKinds DEF AppendSet, HandOK, AppendKinds, LineOf
    <2>3. [buf[w] EXCEPT ![FieldOf(LineOf(w).kind)] = Append(@, ev[w])] \in Record
      BY <2>1, <2>2, AppendedIsRecord DEF ThreadOK
    <2>4. StoreOK'
      BY <1>5, <2>1, <2>3 DEF AppendSet, StoreOK
    <2>5. FileOK' /\ OtherOK' /\ UNCHANGED <<log, queue>>
      BY <1>5 DEF AppendSet, FileOK, OtherOK, file, tail, env
    <2>6. ThreadOK' /\ HandOK' /\ done' \subseteq 1..Len(log)
      BY <1>5, <2>1, <2>5, AfterAppendTInv DEF AppendSet
    <2>7. HistoryOK'
      BY <1>5, <2>5, <2>6 DEF AppendSet, HistoryOK
    <2> QED BY <2>4, <2>5, <2>6, <2>7
  <1>6. CASE RiskAlert(w)
    <2>1. pc[w] # "idle" /\ Sid(w) \in Sessions
      BY <1>6, SidInSessions DEF RiskAlert
    <2>2. alerts' \in Seq(AlertTypes \X Sessions)
      BY <1>6, <2>1, AlertTInv DEF RiskAlert, OtherOK, AlertTypes
    <2>3. FileOK' /\ StoreOK' /\ OtherOK' /\ UNCHANGED <<log, queue>>
      BY <1>6, <2>2 DEF RiskAlert, FileOK, StoreOK, OtherOK, file, tail, store, env
    <2>4. ThreadOK' /\ HandOK' /\ done' \subseteq 1..Len(log)
      BY <1>6, <2>1, <2>3, FinishTInv DEF RiskAlert
    <2>5. HistoryOK'
      BY <1>6, <2>3, <2>4 DEF RiskAlert, HistoryOK
    <2> QED BY <2>3, <2>4, <2>5
  <1> QED BY <1>1, <1>2, <1>3, <1>4, <1>5, <1>6

(* _handle_close. *)
LEMMA CloseTInv ==
    ASSUME TInv, NEW w \in Workers,
           \/ CloseLoad(w)  \/ CloseAnalyse(w) \/ CloseStore(w) \/ CloseIndex(w)
           \/ CloseCount(w) \/ CloseEnrich(w) \/ CloseThreshold(w)
           \/ CloseAlert(w) \/ CloseDelete(w)
    PROVE  TInv'
  <1> USE DEF TInv, TypeOK
  <1>0. pc[w] # "idle" /\ Sid(w) \in Sessions
    BY SidInSessions DEF CloseLoad, CloseAnalyse, CloseStore, CloseIndex,
           CloseCount, CloseEnrich, CloseThreshold, CloseAlert, CloseDelete
  <1>1. /\ FileOK' /\ UNCHANGED <<log, queue, seen, crashes, faults, expired>>
        /\ UNCHANGED <<dropped, torn, collapsed>>
    BY DEF CloseLoad, CloseAnalyse, CloseStore, CloseIndex,
           CloseCount, CloseEnrich, CloseThreshold, CloseAlert, CloseDelete,
           FileOK, file, tail, env, history
  <1>2. StoreOK'
    <2>1. CASE CloseStore(w) \/ CloseEnrich(w) \/ CloseThreshold(w)
      BY <1>0, <2>1 DEF CloseStore, CloseEnrich, CloseThreshold, StoreOK, ThreadOK
    <2>2. CASE CloseIndex(w)
      <3> DEFINE pushed == <<Sid(w)>> \o recent
                 n == IF Len(pushed) < RecentMax THEN Len(pushed) ELSE RecentMax
      <3>1. <<Sid(w)>> \in Seq(Sessions)
        BY <1>0
      <3>2. pushed \in Seq(Sessions)
        BY <3>1, ConcatProperties DEF StoreOK
      <3>3. n \in Nat /\ n <= Len(pushed)
        BY <3>2, BoundsAssumption, LenProperties
      <3>4. recent' = SubSeq(pushed, 1, n)
        BY <2>2 DEF CloseIndex
      <3>5. UNCHANGED <<live, completed, total>>
        BY <2>2 DEF CloseIndex
      <3> HIDE DEF pushed, n
      <3>6. \A i \in 1..n : pushed[i] \in Sessions
        BY <3>2, <3>3, ElementOfSeq, LenProperties
      <3>7. SubSeq(pushed, 1, n) \in Seq(Sessions)
        BY <3>3, <3>6, SubSeqProperties
      <3> QED BY <3>4, <3>5, <3>7 DEF StoreOK
    <2>3. CASE CloseCount(w) \/ CloseDelete(w)
      BY <1>0, <2>3 DEF CloseCount, CloseDelete, StoreOK
    <2>4. CASE CloseLoad(w) \/ CloseAnalyse(w) \/ CloseAlert(w)
      BY <2>4 DEF CloseLoad, CloseAnalyse, CloseAlert, StoreOK, store
    <2> QED BY <2>1, <2>2, <2>3, <2>4
  <1>3. alerts' \in Seq(AlertTypes \X Sessions) /\ alerted' \subseteq Sessions
    <2>1. CASE CloseThreshold(w) \/ CloseAlert(w)
      <3>1. \/ UNCHANGED alerts
            \/ \E t \in AlertTypes : QueueAlert(t, Sid(w))
        BY <2>1 DEF CloseThreshold, CloseAlert, AlertTypes
      <3>2. alerted' = alerted \/ alerted' = alerted \cup {Sid(w)}
        BY <2>1 DEF CloseThreshold, CloseAlert, history
      <3>3. alerted' \subseteq Sessions
        BY <1>0, <3>2 DEF HistoryOK
      <3>4. alerts' \in Seq(AlertTypes \X Sessions)
        BY <1>0, <3>1, AlertTInv DEF OtherOK
      <3> QED BY <3>3, <3>4
    <2>2. CASE ~(CloseThreshold(w) \/ CloseAlert(w))
      <3>1. alerts' = alerts /\ alerted' = alerted
        BY <2>2 DEF CloseLoad, CloseAnalyse, CloseStore, CloseIndex,
                    CloseCount, CloseEnrich, CloseDelete, history
      <3> QED BY <3>1 DEF OtherOK, HistoryOK
    <2> QED BY <2>1, <2>2
  <1>4. OtherOK'
    BY <1>1, <1>3 DEF OtherOK
  <1>5. ThreadOK' /\ HandOK' /\ done' \subseteq 1..Len(log)
    <2>1. CASE CloseDelete(w) \/ (CloseAnalyse(w) /\ Finish(w))
      BY <1>0, <1>1, <2>1, FinishTInv DEF CloseDelete
    <2>2. CASE ~(CloseDelete(w) \/ (CloseAnalyse(w) /\ Finish(w)))
      <3>1. \E p \in ControlPoints \ {"dedup", "get", "set"} : Goto(w, p)
        BY <2>2 DEF CloseLoad, CloseAnalyse, CloseStore, CloseIndex, AfterStore,
                    CloseCount, CloseEnrich, CloseThreshold, CloseAlert, ControlPoints
      <3>2. ev' = ev /\ done' = done
        BY <2>2 DEF CloseLoad, CloseAnalyse, CloseStore, CloseIndex,
                    CloseCount, CloseEnrich, CloseThreshold, CloseAlert, history
      <3>3. buf' \in [Workers -> Record]
        <4>1. CASE CloseLoad(w)
          <5>1. live[Sid(w)] # NoRecord => live[Sid(w)] \in Record
            BY <1>0 DEF StoreOK
          <5> QED BY <4>1, <5>1, EmptyIsRecord DEF CloseLoad, ThreadOK
        <4>2. CASE ~CloseLoad(w)
          BY <2>2, <4>2 DEF CloseAnalyse, CloseStore, CloseIndex, CloseCount,
                    CloseEnrich, CloseThreshold, CloseAlert, ThreadOK
        <4> QED BY <4>1, <4>2
      <3> QED BY <1>0, <1>1, <3>1, <3>2, <3>3, GotoTInv DEF HistoryOK
    <2> QED BY <2>1, <2>2
  <1>6. HistoryOK'
    BY <1>1, <1>3, <1>5 DEF HistoryOK
  <1> QED BY <1>1, <1>2, <1>4, <1>5, <1>6

(* Faults, the alert worker, time and crashes. *)
LEMMA FaultTInv == ASSUME TInv, NEW w \in Workers, RedisFault(w) PROVE TInv'
  <1> USE DEF TInv, TypeOK
  <1>1. pc[w] # "idle"
    BY DEF RedisFault
  <1>2. FileOK' /\ StoreOK' /\ OtherOK' /\ UNCHANGED <<log, queue>>
    BY DEF RedisFault, FileOK, StoreOK, OtherOK, file, tail, store
  <1>3. ThreadOK' /\ HandOK' /\ done' \subseteq 1..Len(log)
    BY <1>1, <1>2, FinishTInv, AfterAppendTInv DEF RedisFault
  <1>4. HistoryOK'
    BY <1>2, <1>3 DEF RedisFault, HistoryOK
  <1> QED BY <1>2, <1>3, <1>4

(* Redis drops a record whose life is over. *)
RecordExpires == \E s \in Sessions : LiveExpires(s) \/ CompletedExpires(s)

LEMMA ExpiryTInv == ASSUME TInv, RecordExpires PROVE TInv'
  <1> USE DEF TInv, TypeOK
  <1>0. PICK s \in Sessions : LiveExpires(s) \/ CompletedExpires(s)
    BY DEF RecordExpires
  <1>1. UNCHANGED <<file, tail, queue, thread, seen, recent, total, alerts, crashes, history>>
    BY <1>0 DEF LiveExpires, CompletedExpires
  <1>2. StoreOK'
    BY <1>0, <1>1 DEF LiveExpires, CompletedExpires, StoreOK
  <1>3. expired' \in Seq(Sessions) /\ faults' \in Nat
    <2>1. /\ expired' = expired \/ expired' = Append(expired, s)
          /\ faults' = faults \/ faults' = faults + 1
      BY <1>0 DEF LiveExpires, CompletedExpires
    <2>2. expired \in Seq(Sessions) /\ faults \in Nat
      BY DEF OtherOK
    <2>3. Append(expired, s) \in Seq(Sessions)
      BY <2>2, AppendProperties
    <2>4. expired' \in Seq(Sessions)
      BY <2>1, <2>2, <2>3
    <2>5. faults' \in Nat
      BY <2>1, <2>2
    <2> QED BY <2>4, <2>5
  <1>4. OtherOK'
    BY <1>1, <1>3 DEF OtherOK
  <1>5. FileOK' /\ ThreadOK' /\ HistoryOK' /\ HandOK'
    BY <1>1 DEF FileOK, ThreadOK, HistoryOK, HandOK, BusyHasLine, AppendKinds, DedupKind,
                file, tail, thread, history
  <1> QED BY <1>2, <1>4, <1>5

LEMMA RestTInv == ASSUME TInv, TakeAlert \/ DedupExpires \/ Crash PROVE TInv'
  <1> USE DEF TInv, TypeOK
  <1>1. CASE TakeAlert
    <2>1. alerts' \in Seq(AlertTypes \X Sessions)
      BY <1>1, HeadTailProperties DEF TakeAlert, OtherOK
    <2> QED BY <1>1, <2>1 DEF TakeAlert, FileOK, ThreadOK, StoreOK, OtherOK,
              HistoryOK, HandOK, BusyHasLine, AppendKinds, DedupKind, file, tail, thread,
              store, env, history
  <1>2. CASE DedupExpires
    <2>1. seen' \subseteq Addresses \X Commands
      BY <1>2 DEF DedupExpires, OtherOK
    <2> QED BY <1>2, <2>1 DEF DedupExpires, FileOK, ThreadOK, StoreOK, OtherOK,
              HistoryOK, HandOK, BusyHasLine, AppendKinds, DedupKind, file, tail, thread,
              store, env, history
  <1>3. CASE Crash
    <2>1. FileOK' /\ StoreOK' /\ HistoryOK' /\ log' = log
      BY <1>3 DEF Crash, FileOK, StoreOK, HistoryOK, file, store, history
    <2>2. queue' \in Seq(1..Len(log')) /\ alerts' \in Seq(AlertTypes \X Sessions)
      BY <1>3, EmptySeq DEF Crash
    <2>3. ThreadOK'
      BY <1>3, <2>1, <2>2, EmptyIsRecord, LenProperties DEF Crash, ThreadOK, ControlPoints, FileOK
    <2>4. OtherOK'
      BY <1>3, <2>2 DEF Crash, OtherOK
    <2>5. HandOK'
      BY <1>3 DEF Crash, HandOK, BusyHasLine, AppendKinds, DedupKind
    <2> QED BY <2>1, <2>3, <2>4, <2>5
  <1> QED BY <1>1, <1>2, <1>3

LEMMA StepTInv == TInv /\ [Next]_vars => TInv'
  <1> SUFFICES ASSUME TInv, [Next]_vars PROVE TInv'
    OBVIOUS
  <1>1. ASSUME NEW e \in Event, HoneypotWrite(e) PROVE TInv'
    BY <1>1, WriteTInv
  <1>2. CASE Watch \/ SavedExpires \/ HoneypotFinishLine
    BY <1>2, WatchTInv
  <1>3. ASSUME NEW w \in Workers, Work(w) PROVE TInv'
    BY <1>3, AppendersTInv, CloseTInv DEF Work
  <1>4. ASSUME NEW w \in Workers, RedisFault(w) PROVE TInv'
    BY <1>4, FaultTInv
  <1>5. CASE TakeAlert \/ DedupExpires \/ Crash
    BY <1>5, RestTInv
  <1>7. CASE RecordExpires
    BY <1>7, ExpiryTInv
  <1>6. CASE UNCHANGED vars
    BY <1>6 DEF vars, TInv, TypeOK, FileOK, ThreadOK, StoreOK, OtherOK, HistoryOK,
                HandOK, BusyHasLine, AppendKinds, DedupKind, file, tail, thread, store,
                env, history
  <1> QED BY <1>1, <1>2, <1>3, <1>4, <1>5, <1>6, <1>7 DEF Next, RecordExpires

\* Every variable of the pipeline has its type: a line number that travels
\* through the queue and the workers is always a line of the log.
THEOREM TypeCorrect == Spec => []TypeOK
  <1>1. TInv => TypeOK
    BY DEF TInv
  <1> QED BY <1>1, InitTInv, StepTInv, PTL DEF Spec

(***************************************************************************)
(* A session is listed once for every record it got.  The worker that has  *)
(* just created a completed record and not yet pushed it to the list will  *)
(* push it, so such workers are counted with the entries of the list.      *)
(***************************************************************************)
Indexers(s) == {w \in Workers : pc[w] = "index" /\ Sid(w) = s}
Has(s)      == IF completed[s] = NoRecord THEN 0 ELSE 1
ListedOnce  == \A s \in Sessions :
    Times(recent, s) + Cardinality(Indexers(s)) <= Times(expired, s) + Has(s)
XInv == TInv /\ ListedOnce

LEMMA TimesType ==
    ASSUME NEW S, NEW q \in Seq(S), NEW s
    PROVE  /\ IsFiniteSet({i \in 1..Len(q) : q[i] = s})
           /\ Times(q, s) \in Nat
  <1>1. IsFiniteSet(1..Len(q))
    BY LenProperties, FS_Interval
  <1>2. {i \in 1..Len(q) : q[i] = s} \in SUBSET (1..Len(q))
    OBVIOUS
  <1>3. IsFiniteSet({i \in 1..Len(q) : q[i] = s})
    BY <1>1, <1>2, FS_Subset
  <1> QED BY <1>3, FS_CardinalityType DEF Times

LEMMA TimesAppend ==
    ASSUME NEW S, NEW q \in Seq(S), NEW t \in S, NEW s
    PROVE  Times(Append(q, t), s) = Times(q, s) + IF t = s THEN 1 ELSE 0
  <1> DEFINE n == Len(q)
             r == Append(q, t)
             A == {i \in 1..n : q[i] = s}
             B == {i \in 1..Len(r) : r[i] = s}
  <1>1. /\ n \in Nat /\ Len(r) = n + 1 /\ r[n + 1] = t
        /\ \A i \in 1..n : r[i] = q[i]
    BY AppendProperties, LenProperties
  <1>2. IsFiniteSet(A) /\ Times(q, s) = Cardinality(A) /\ Cardinality(A) \in Nat
    BY TimesType DEF Times
  <1>3. Times(r, s) = Cardinality(B)
    BY DEF Times
  <1> HIDE DEF r, n
  <1>4. B = IF t = s THEN A \cup {n + 1} ELSE A
    BY <1>1
  <1>5. n + 1 \notin A
    BY <1>1
  <1> HIDE DEF A, B
  <1>6. Cardinality(A \cup {n + 1}) = Cardinality(A) + 1
    BY <1>2, <1>5, FS_AddElement
  <1>7. Times(r, s) = Times(q, s) + IF t = s THEN 1 ELSE 0
    BY <1>2, <1>3, <1>4, <1>6
  <1> QED BY <1>7 DEF r

\* LPUSH and LTRIM: one entry more of the session that is pushed, at most.
LEMMA TimesPushed ==
    ASSUME NEW S, NEW q \in Seq(S), NEW t \in S, NEW n \in Nat, n <= 1 + Len(q), NEW s
    PROVE  /\ SubSeq(<<t>> \o q, 1, n) \in Seq(S)
           /\ Times(SubSeq(<<t>> \o q, 1, n), s) <= Times(q, s) + IF t = s THEN 1 ELSE 0
  <1> DEFINE p == <<t>> \o q
             r == SubSeq(p, 1, n)
             A == {i \in 1..Len(q) : q[i] = s}
             B == {i \in 1..Len(r) : r[i] = s}
             C == B \ {1}
  <1>1. <<t>> \in Seq(S) /\ Len(<<t>>) = 1 /\ <<t>>[1] = t /\ Len(q) \in Nat
    BY LenProperties
  <1>2. /\ p \in Seq(S) /\ Len(p) = 1 + Len(q)
        /\ \A i \in 1..1 + Len(q) : p[i] = IF i <= 1 THEN t ELSE q[i - 1]
    BY <1>1, ConcatProperties
  <1> HIDE DEF p
  <1>3. \A i \in 1..n : p[i] \in S
    BY <1>1, <1>2, ElementOfSeq
  <1>4. r \in Seq(S) /\ Len(r) = n /\ \A i \in 1..n : r[i] = p[i]
    BY <1>3, SubSeqProperties
  <1> HIDE DEF r
  <1>5. /\ IsFiniteSet(A) /\ Times(q, s) = Cardinality(A) /\ Cardinality(A) \in Nat
        /\ IsFiniteSet(B) /\ Times(r, s) = Cardinality(B) /\ Cardinality(B) \in Nat
    BY <1>4, TimesType DEF Times
  <1>6. \A i \in C : i - 1 \in A /\ i \in Nat
    BY <1>1, <1>2, <1>4
  <1>7. 1 \in B => t = s
    BY <1>1, <1>2, <1>4
  <1> HIDE DEF A, B
  <1> DEFINE f == [i \in C |-> i - 1]
  <1>8. f \in Injection(C, A)
    <2>1. f \in [C -> A]
      BY <1>6
    <2>2. \A i, j \in C : f[i] = f[j] => i = j
      <3>1. \A i, j \in Nat : i - 1 = j - 1 => i = j
        OBVIOUS
      <3>2. \A i \in C : f[i] = i - 1
        OBVIOUS
      <3> HIDE DEF f, C
      <3> QED BY <1>6, <3>1, <3>2
    <2> HIDE DEF f, C
    <2> QED BY <2>1, <2>2 DEF Injection, IsInjective
  <1> HIDE DEF f
  <1>9. Cardinality(C) <= Cardinality(A) /\ IsFiniteSet(C) /\ Cardinality(C) \in Nat
    BY <1>5, <1>8, FS_Injection, FS_CardinalityType
  <1>10. Cardinality(C) = IF 1 \in B THEN Cardinality(B) - 1 ELSE Cardinality(B)
    BY <1>5, FS_RemoveElement
  <1> HIDE DEF C
  <1>11. Times(r, s) <= Times(q, s) + IF t = s THEN 1 ELSE 0
    BY <1>5, <1>7, <1>9, <1>10
  <1> QED BY <1>4, <1>11 DEF r, p

LEMMA IndexersFinite ==
    ASSUME NEW s
    PROVE  IsFiniteSet(Indexers(s)) /\ Cardinality(Indexers(s)) \in Nat
  <1>1. IsFiniteSet(Indexers(s))
    BY WorkersAssumption, FS_Subset DEF Indexers
  <1> QED BY <1>1, FS_CardinalityType

(* Steps that neither push an entry nor lose a record. *)
LEMMA QuietXInv ==
    ASSUME XInv, UNCHANGED <<recent, expired>>,
           \A s \in Sessions : completed[s] # NoRecord => completed'[s] # NoRecord,
           \A w \in Workers : pc'[w] = "index" => pc[w] = "index" /\ Sid(w)' = Sid(w)
    PROVE  ListedOnce'
  <1> SUFFICES ASSUME NEW s \in Sessions
               PROVE  Times(recent', s) + Cardinality(Indexers(s)')
                        <= Times(expired', s) + Has(s)'
    BY DEF ListedOnce
  <1>1. Times(recent, s) \in Nat /\ Times(expired, s) \in Nat
    BY TimesType DEF XInv, TInv, TypeOK, StoreOK, OtherOK
  <1>2. Indexers(s)' \in SUBSET Indexers(s)
    BY DEF Indexers
  <1>3. /\ Cardinality(Indexers(s)') <= Cardinality(Indexers(s))
        /\ Cardinality(Indexers(s)) \in Nat /\ Cardinality(Indexers(s)') \in Nat
    BY <1>2, IndexersFinite, FS_Subset, FS_CardinalityType
  <1>4. Has(s) <= Has(s)' /\ Has(s) \in Nat /\ Has(s)' \in Nat
    BY DEF Has
  <1>5. Times(recent, s) + Cardinality(Indexers(s)) <= Times(expired, s) + Has(s)
    BY DEF XInv, ListedOnce
  <1> QED BY <1>1, <1>3, <1>4, <1>5

\* SETNX: a new record gets the worker that will push it.
LEMMA StoreXInv ==
    ASSUME XInv, NEW w \in Workers, CloseStore(w)
    PROVE  ListedOnce'
  <1>t. TInv /\ TypeOK /\ Sid(w) \in Sessions
    BY SidInSessions DEF XInv, TInv, CloseStore
  <1>1. /\ UNCHANGED <<recent, expired>> /\ pc[w] = "store" /\ buf[w] # NoRecord
        /\ completed' = [completed EXCEPT ![Sid(w)] = buf[w]]
        /\ \A v \in Workers : Sid(v)' = Sid(v)
    BY <1>t, DataAssumption DEF CloseStore, env, file, Sid, LineOf, TypeOK, ThreadOK
  <1>2. /\ completed'[Sid(w)] # NoRecord
        /\ \A s \in Sessions \ {Sid(w)} : completed'[s] = completed[s]
    BY <1>t, <1>1 DEF TypeOK, StoreOK
  <1>3. CASE completed[Sid(w)] # NoRecord
    <2>1. \A v \in Workers : pc'[v] = "index" => pc[v] = "index"
      BY <1>t, <1>3 DEF CloseStore, AfterStore, Goto, TypeOK, ThreadOK
    <2> QED BY <1>1, <1>2, <1>3, <2>1, QuietXInv
  <1>4. CASE completed[Sid(w)] = NoRecord
    <2>1. \A v \in Workers : pc'[v] = "index" <=> pc[v] = "index" \/ v = w
      BY <1>t, <1>4 DEF CloseStore, Goto, TypeOK, ThreadOK
    <2> SUFFICES ASSUME NEW s \in Sessions
                 PROVE  Times(recent', s) + Cardinality(Indexers(s)')
                          <= Times(expired', s) + Has(s)'
      BY DEF ListedOnce
    <2>2. Indexers(s)' = IF s = Sid(w) THEN Indexers(s) \cup {w} ELSE Indexers(s)
      BY <1>1, <2>1 DEF Indexers
    <2>3. w \notin Indexers(s)
      BY <1>1 DEF Indexers
    <2>4. Cardinality(Indexers(s)')
            = Cardinality(Indexers(s)) + IF s = Sid(w) THEN 1 ELSE 0
      BY <2>2, <2>3, IndexersFinite, FS_AddElement
    <2>5. Has(s)' = Has(s) + IF s = Sid(w) THEN 1 ELSE 0
      BY <1>2, <1>4 DEF Has
    <2>6. Times(recent, s) \in Nat /\ Times(expired, s) \in Nat
      BY <1>t, TimesType DEF TypeOK, StoreOK, OtherOK
    <2>7. /\ Times(recent, s) + Cardinality(Indexers(s)) <= Times(expired, s) + Has(s)
          /\ Cardinality(Indexers(s)) \in Nat /\ Has(s) \in Nat
      BY IndexersFinite DEF XInv, ListedOnce, Has
    <2> QED BY <1>1, <2>4, <2>5, <2>6, <2>7
  <1> QED BY <1>3, <1>4

\* LPUSH: an entry more, and a worker less that will push one.
LEMMA IndexXInv ==
    ASSUME XInv, NEW w \in Workers, CloseIndex(w)
    PROVE  ListedOnce'
  <1>t. TInv /\ TypeOK /\ Sid(w) \in Sessions
    BY SidInSessions DEF XInv, TInv, CloseIndex
  <1> DEFINE n == IF Len(<<Sid(w)>> \o recent) < RecentMax
                  THEN Len(<<Sid(w)>> \o recent) ELSE RecentMax
  <1>1. /\ UNCHANGED <<completed, expired>> /\ pc[w] = "index"
        /\ recent' = SubSeq(<<Sid(w)>> \o recent, 1, n)
        /\ \A v \in Workers : Sid(v)' = Sid(v)
        /\ \A v \in Workers : pc'[v] = "index" <=> pc[v] = "index" /\ v # w
    BY <1>t DEF CloseIndex, Goto, env, file, Sid, LineOf, TypeOK, ThreadOK
  <1>2. recent \in Seq(Sessions) /\ <<Sid(w)>> \in Seq(Sessions)
        /\ Len(<<Sid(w)>> \o recent) = 1 + Len(recent) /\ Len(recent) \in Nat
    <2>1. recent \in Seq(Sessions) /\ <<Sid(w)>> \in Seq(Sessions) /\ Len(<<Sid(w)>>) = 1
      BY <1>t DEF TypeOK, StoreOK
    <2> QED BY <2>1, ConcatProperties, LenProperties
  <1>3. n \in Nat /\ n <= 1 + Len(recent)
    BY <1>2, BoundsAssumption
  <1> HIDE DEF n
  <1> SUFFICES ASSUME NEW s \in Sessions
               PROVE  Times(recent', s) + Cardinality(Indexers(s)')
                        <= Times(expired', s) + Has(s)'
    BY DEF ListedOnce
  <1>4. /\ recent' \in Seq(Sessions)
        /\ Times(recent', s) <= Times(recent, s) + IF Sid(w) = s THEN 1 ELSE 0
    BY <1>t, <1>1, <1>2, <1>3, TimesPushed
  <1>5. Times(recent, s) \in Nat /\ Times(recent', s) \in Nat /\ Times(expired, s) \in Nat
    BY <1>t, <1>4, TimesType DEF TypeOK, StoreOK, OtherOK
  <1>6. /\ Indexers(s)' = Indexers(s) \ {w}
        /\ Sid(w) = s => w \in Indexers(s)
    BY <1>1 DEF Indexers
  <1>7. Cardinality(Indexers(s)') <= Cardinality(Indexers(s)) - IF Sid(w) = s THEN 1 ELSE 0
    <2>1. /\ Cardinality(Indexers(s) \ {w}) = IF w \in Indexers(s)
                THEN Cardinality(Indexers(s)) - 1 ELSE Cardinality(Indexers(s))
          /\ Cardinality(Indexers(s)) \in Nat
      BY IndexersFinite, FS_RemoveElement
    <2> QED BY <1>6, <2>1
  <1>8. /\ Times(recent, s) + Cardinality(Indexers(s)) <= Times(expired, s) + Has(s)
        /\ Cardinality(Indexers(s)) \in Nat /\ Has(s) \in Nat /\ Has(s)' = Has(s)
    BY <1>1, IndexersFinite DEF XInv, ListedOnce, Has
  <1>9. Cardinality(Indexers(s)') \in Nat
    BY <1>6, IndexersFinite, FS_RemoveElement, FS_CardinalityType
  <1> QED BY <1>1, <1>4, <1>5, <1>7, <1>8, <1>9

\* A record that expires leaves its entry in the list.
LEMMA ExpiryXInv ==
    ASSUME XInv, NEW t \in Sessions, CompletedExpires(t)
    PROVE  ListedOnce'
  <1>t. TInv /\ TypeOK
    BY DEF XInv, TInv
  <1>1. /\ UNCHANGED <<recent, log, pc, ev>> /\ expired' = Append(expired, t)
        /\ completed[t] # NoRecord /\ completed'[t] = NoRecord
        /\ \A s \in Sessions \ {t} : completed'[s] = completed[s]
    BY <1>t DEF CompletedExpires, file, thread, TypeOK, StoreOK
  <1> SUFFICES ASSUME NEW s \in Sessions
               PROVE  Times(recent', s) + Cardinality(Indexers(s)')
                        <= Times(expired', s) + Has(s)'
    BY DEF ListedOnce
  <1>2. Times(expired', s) = Times(expired, s) + IF t = s THEN 1 ELSE 0
    BY <1>t, <1>1, TimesAppend DEF TypeOK, OtherOK
  <1>3. Has(s)' = Has(s) - IF t = s THEN 1 ELSE 0
    BY <1>1 DEF Has
  <1>4. Indexers(s)' = Indexers(s)
    BY <1>1 DEF Indexers, Sid, LineOf
  <1>5. Times(recent, s) \in Nat /\ Times(expired, s) \in Nat
    BY <1>t, TimesType DEF TypeOK, StoreOK, OtherOK
  <1>6. /\ Times(recent, s) + Cardinality(Indexers(s)) <= Times(expired, s) + Has(s)
        /\ Cardinality(Indexers(s)) \in Nat /\ Has(s) \in Nat
    BY IndexersFinite DEF XInv, ListedOnce, Has
  <1> QED BY <1>1, <1>2, <1>3, <1>4, <1>5, <1>6

LEMMA StepXInv == XInv /\ [Next]_vars => XInv'
  <1> SUFFICES ASSUME XInv, [Next]_vars PROVE XInv'
    OBVIOUS
  <1>0. TInv'
    BY StepTInv DEF XInv
  <1>1. ASSUME NEW w \in Workers, CloseStore(w) \/ CloseIndex(w) PROVE XInv'
    BY <1>0, <1>1, StoreXInv, IndexXInv DEF XInv
  <1>2. ASSUME NEW e \in Event, HoneypotWrite(e) PROVE XInv'
    <2>1. \A k \in 1..Len(log) : log'[k] = log[k]
      BY <1>2 DEF HoneypotWrite, XInv, TInv, TypeOK, FileOK
    <2>2. \A w \in Workers : pc'[w] = "index" => pc[w] = "index" /\ Sid(w)' = Sid(w)
      BY <1>2, <2>1 DEF HoneypotWrite, thread, Sid, LineOf, XInv, TInv, HandOK, BusyHasLine
    <2>3. UNCHANGED <<recent, completed, expired>>
      BY <1>2 DEF HoneypotWrite, store, env
    <2>4. ListedOnce'
      BY <2>2, <2>3, QuietXInv
    <2> QED BY <1>0, <2>4 DEF XInv
  <1>3. ASSUME NEW w \in Workers, CloseEnrich(w) \/ CloseThreshold(w) PROVE XInv'
    <2>1. buf[w] # NoRecord /\ UNCHANGED <<log, ev, recent, expired>>
      BY <1>3, DataAssumption DEF CloseEnrich, CloseThreshold, XInv, TInv, TypeOK,
                                  ThreadOK, file, env
    <2>2. \A s \in Sessions : completed[s] # NoRecord => completed'[s] # NoRecord
      BY <1>3, <2>1 DEF CloseEnrich, CloseThreshold, XInv, TInv, TypeOK, StoreOK
    <2>3. \A v \in Workers : pc'[v] = "index" => pc[v] = "index"
      BY <1>3 DEF CloseEnrich, CloseThreshold, Goto, XInv, TInv, TypeOK, ThreadOK
    <2>4. ListedOnce'
      BY <2>1, <2>2, <2>3, QuietXInv DEF Sid, LineOf
    <2> QED BY <1>0, <2>4 DEF XInv
  <1>4. ASSUME UNCHANGED <<recent, completed, expired, log>>,
               \A v \in Workers : pc'[v] = "index" => pc[v] = "index" /\ ev'[v] = ev[v]
        PROVE XInv'
    <2>1. ListedOnce'
      BY <1>4, QuietXInv DEF Sid, LineOf
    <2> QED BY <1>0, <2>1 DEF XInv
  <1>5. ASSUME NEW w \in Workers,
               \/ TakeEvent(w) \/ Connect(w) \/ Dedup(w) \/ AppendGet(w)
               \/ AppendSet(w) \/ RiskAlert(w) \/ CloseLoad(w) \/ CloseAnalyse(w)
               \/ CloseCount(w) \/ CloseAlert(w) \/ CloseDelete(w)
               \/ RedisFault(w)
        PROVE XInv'
    <2>1. UNCHANGED <<log, recent, completed, expired>>
      BY <1>5 DEF TakeEvent, Connect, Dedup, AppendGet, AppendSet, RiskAlert,
                  CloseLoad, CloseAnalyse, CloseCount, CloseAlert, CloseDelete,
                  RedisFault, file, store, env
    <2>2. \E p \in ControlPoints \ {"index"} : Goto(w, p)
      BY <1>5 DEF TakeEvent, Connect, Dedup, AppendGet, AppendSet, RiskAlert,
                  CloseLoad, CloseAnalyse, CloseCount, CloseAlert, CloseDelete,
                  RedisFault, Finish, AfterAppend, AfterStore, ControlPoints
    <2>3. \A v \in Workers : v # w => ev'[v] = ev[v]
      BY <1>5 DEF TakeEvent, Connect, Dedup, AppendGet, AppendSet, RiskAlert,
                  CloseLoad, CloseAnalyse, CloseCount, CloseAlert, CloseDelete,
                  RedisFault, Finish, AfterAppend, XInv, TInv, TypeOK, ThreadOK
    <2>4. \A v \in Workers : pc'[v] = "index" => pc[v] = "index" /\ v # w
      BY <2>2 DEF Goto, XInv, TInv, TypeOK, ThreadOK
    <2> QED BY <1>4, <2>1, <2>3, <2>4
  <1>6. CASE \/ Watch \/ SavedExpires \/ HoneypotFinishLine \/ TakeAlert
             \/ DedupExpires \/ UNCHANGED vars
    <2>1. UNCHANGED <<log, pc, ev, recent, completed, expired>>
      BY <1>6 DEF Watch, WatchOpen, WatchLine, WatchTorn, WatchSave, SavedExpires, env,
                  HoneypotFinishLine, TakeAlert, DedupExpires, vars, file, thread, store
    <2> QED BY <1>4, <2>1
  <1>7. CASE Crash
    <2>1. /\ \A v \in Workers : pc'[v] = "idle"
          /\ UNCHANGED <<log, recent, completed, expired>>
      BY <1>7 DEF Crash, file, store
    <2> QED BY <1>4, <2>1
  <1>8. CASE RecordExpires
    <2> PICK s \in Sessions : LiveExpires(s) \/ CompletedExpires(s)
      BY <1>8 DEF RecordExpires
    <2>1. CASE LiveExpires(s)
      BY <1>4, <2>1 DEF LiveExpires, file, thread
    <2>2. CASE CompletedExpires(s)
      BY <1>0, <2>2, ExpiryXInv DEF XInv
    <2> QED BY <2>1, <2>2
  <1> QED BY <1>1, <1>2, <1>3, <1>5, <1>6, <1>7, <1>8 DEF Next, Work, RecordExpires

\* However workers interleave, lines come round again, calls fail, records
\* expire and the process crashes, a session is in the recent list at most once
\* for each completed record it has or had before it got 30 days old.
THEOREM RecentIsRight == Spec => []IndexedOnce
  <1>1. Init => XInv
    <2> SUFFICES ASSUME Init PROVE XInv
      OBVIOUS
    <2>1. ASSUME NEW s \in Sessions
          PROVE  Times(recent, s) + Cardinality(Indexers(s)) <= Times(expired, s) + Has(s)
      <3>1. recent = expired /\ Times(recent, s) \in Nat /\ Has(s) = 0
        BY InitTInv, TimesType DEF Init, Has, TInv, TypeOK, StoreOK
      <3>2. Indexers(s) = {} /\ Cardinality({}) = 0
        BY FS_EmptySet DEF Init, Indexers
      <3>3. Cardinality(Indexers(s)) = 0
        BY <3>2
      <3> QED BY <3>1, <3>3
    <2> QED BY <2>1, InitTInv DEF XInv, ListedOnce
  <1>2. XInv => IndexedOnce
    <2> SUFFICES ASSUME XInv, NEW s \in Sessions
                 PROVE  Times(recent, s) <= Times(expired, s) + Has(s)
      BY DEF IndexedOnce, Has
    <2>1. Times(recent, s) \in Nat /\ Times(expired, s) \in Nat /\ Has(s) \in Nat
      BY TimesType DEF XInv, TInv, TypeOK, StoreOK, OtherOK, Has
    <2> QED BY <2>1, IndexersFinite DEF XInv, ListedOnce
  <1> QED BY <1>1, <1>2, StepXInv, PTL DEF Spec

(***************************************************************************)
(* Records hold lines of their own session.  The record a worker has read  *)
(* stays in its hand while other workers write the store, so the invariant *)
(* speaks of the records in hand as well.                                  *)
(***************************************************************************)
HandsOwn ==
    \A w \in Workers : IF pc[w] = "idle" THEN buf[w] = EmptyRecord
                       ELSE OwnLines(buf[w], Sid(w))
OInv == TInv /\ RecordsHoldOwnLines /\ HandsOwn

LEMMA EmptyOwns == \A s : OwnLines(EmptyRecord, s)
  BY EmptySeq DEF OwnLines, EmptyRecord, Fields

LEMMA AppendOwns ==
    ASSUME NEW rec \in Record, NEW s, NEW f \in Fields, NEW k \in Nat,
           OwnLines(rec, s), BelongsTo(k, s, f)
    PROVE  OwnLines([rec EXCEPT ![f] = Append(@, k)], s)
  <1> DEFINE new == [rec EXCEPT ![f] = Append(@, k)]
  <1>1. /\ rec[f] \in Seq(Nat) /\ Len(rec[f]) \in Nat
        /\ new[f] = Append(rec[f], k)
        /\ \A g \in Fields : g # f => new[g] = rec[g]
    BY LenProperties DEF Record
  <1>2. /\ Len(new[f]) = Len(rec[f]) + 1 /\ new[f][Len(rec[f]) + 1] = k
        /\ \A i \in 1..Len(rec[f]) : new[f][i] = rec[f][i]
    BY <1>1, AppendProperties
  <1> HIDE DEF new
  <1>3. \A i \in 1..Len(new[f]) : BelongsTo(new[f][i], s, f)
    BY <1>1, <1>2 DEF OwnLines
  <1>4. OwnLines(new, s)
    BY <1>1, <1>3 DEF OwnLines
  <1> QED BY <1>4 DEF new

\* The log only grows: a line that is in it stays where it is.
LEMMA LogGrows ==
    ASSUME TInv, UNCHANGED log \/ \E e \in Event : HoneypotWrite(e)
    PROVE  /\ 1..Len(log) \subseteq 1..Len(log')
           /\ \A k \in 1..Len(log) : log'[k] = log[k]
  <1>1. log \in Seq(Event) /\ Len(log) \in Nat
    BY LenProperties DEF TInv, TypeOK, FileOK
  <1>2. CASE UNCHANGED log
    BY <1>2
  <1>3. ASSUME NEW e \in Event, HoneypotWrite(e)
        PROVE  /\ Len(log') = Len(log) + 1
               /\ \A k \in 1..Len(log) : log'[k] = log[k]
    <2>1. log' = Append(log, e)
      BY <1>3 DEF HoneypotWrite
    <2> QED BY <1>1, <2>1, AppendProperties
  <1>4. CASE \E e \in Event : HoneypotWrite(e)
    BY <1>1, <1>3, <1>4
  <1> QED BY <1>2, <1>4

\* So what belongs to a session keeps belonging to it.
LEMMA OwnStays ==
    ASSUME TInv, UNCHANGED log \/ \E e \in Event : HoneypotWrite(e),
           NEW rec, NEW s, OwnLines(rec, s)
    PROVE  OwnLines(rec, s)'
  <1>1. /\ 1..Len(log) \subseteq 1..Len(log')
        /\ \A k \in 1..Len(log) : log'[k] = log[k]
    BY LogGrows
  <1>2. \A k, f : BelongsTo(k, s, f) => BelongsTo(k, s, f)'
    BY <1>1 DEF BelongsTo
  <1> QED BY <1>2 DEF OwnLines

LEMMA StepOInv == OInv /\ [Next]_vars => OInv'
  <1> SUFFICES ASSUME OInv, [Next]_vars PROVE OInv'
    OBVIOUS
  <1>0. TInv /\ TInv'
    BY StepTInv DEF OInv
  \* A step of worker w: what it stores for its session, and keeps, is its own.
  <1>1. ASSUME NEW w \in Workers, pc[w] # "idle", log' = log,
               \A v \in Workers \ {w} : UNCHANGED <<pc[v], ev[v], buf[v]>>,
               \/ pc'[w] = "idle" /\ buf'[w] = EmptyRecord
               \/ pc'[w] # "idle" /\ ev'[w] = ev[w] /\ OwnLines(buf'[w], Sid(w)),
               \A s \in Sessions \ {Sid(w)} : UNCHANGED <<live[s], completed[s]>>,
               live'[Sid(w)] # NoRecord =>
                   live'[Sid(w)] = live[Sid(w)] \/ OwnLines(live'[Sid(w)], Sid(w)),
               completed'[Sid(w)] # NoRecord =>
                   completed'[Sid(w)] = completed[Sid(w)]
                   \/ OwnLines(completed'[Sid(w)], Sid(w))
        PROVE  OInv'
    <2>1. \A rec, s : OwnLines(rec, s) => OwnLines(rec, s)'
      BY <1>0, <1>1, OwnStays
    <2>2. Sid(w) \in Sessions
      BY <1>0, <1>1, SidInSessions
    <2>3. \A s \in Sessions :
             /\ live'[s] # NoRecord => OwnLines(live'[s], s)
             /\ completed'[s] # NoRecord => OwnLines(completed'[s], s)
      BY <1>1, <2>2 DEF OInv, RecordsHoldOwnLines
    <2>4. RecordsHoldOwnLines'
      BY <2>1, <2>3 DEF RecordsHoldOwnLines
    <2>5. \A v \in Workers : Sid(v)' = log[ev'[v]].sid
      BY <1>1 DEF Sid, LineOf
    <2>6. \A v \in Workers : IF pc'[v] = "idle" THEN buf'[v] = EmptyRecord
                             ELSE OwnLines(buf'[v], log[ev'[v]].sid)
      BY <1>1 DEF OInv, HandsOwn, Sid, LineOf
    <2>7. HandsOwn'
      BY <1>1, <2>5, <2>6 DEF HandsOwn, OwnLines, BelongsTo, EmptyRecord
    <2> QED BY <1>0, <2>4, <2>7 DEF OInv
  \* A step that writes no record and gives no worker a new one.
  <1>2. ASSUME UNCHANGED <<live, completed>>,
               UNCHANGED log \/ \E e \in Event : HoneypotWrite(e),
               \A v \in Workers :
                  \/ pc'[v] = "idle" /\ buf'[v] = EmptyRecord
                  \/ pc[v] # "idle" /\ UNCHANGED <<pc[v], ev[v], buf[v]>>
                  \/ pc[v] = "idle" /\ buf'[v] = buf[v]
        PROVE  OInv'
    <2>1. \A rec, s : OwnLines(rec, s) => OwnLines(rec, s)'
      BY <1>0, <1>2, OwnStays
    <2>2. RecordsHoldOwnLines'
      BY <1>2, <2>1 DEF OInv, RecordsHoldOwnLines, OwnLines
    <2>3. \A k \in 1..Len(log) : log'[k] = log[k]
      BY <1>0, <1>2, LogGrows
    <2>4. \A v \in Workers : pc[v] # "idle" /\ ev'[v] = ev[v] => Sid(v)' = Sid(v)
      BY <1>0, <2>3 DEF Sid, LineOf, TInv, HandOK, BusyHasLine
    <2>5. \A s : OwnLines(EmptyRecord, s)'
      BY EmptySeq DEF OwnLines, EmptyRecord, Fields
    <2>6. ASSUME NEW v \in Workers
          PROVE  \/ buf'[v] = EmptyRecord
                 \/ pc'[v] # "idle" /\ OwnLines(buf[v], Sid(v))'
      <3>1. CASE pc[v] # "idle" /\ UNCHANGED <<pc[v], ev[v], buf[v]>>
        <4>1. OwnLines(buf[v], Sid(v))
          BY <3>1 DEF OInv, HandsOwn
        <4>2. OwnLines(buf[v], Sid(v))'
          BY <2>1, <2>4, <3>1, <4>1 DEF OwnLines
        <4> QED BY <3>1, <4>2
      <3>2. CASE ~(pc[v] # "idle" /\ UNCHANGED <<pc[v], ev[v], buf[v]>>)
        BY <1>2, <3>2 DEF OInv, HandsOwn
      <3> QED BY <3>1, <3>2
    <2>7. ASSUME NEW v \in Workers, buf'[v] = EmptyRecord
          PROVE  OwnLines(buf[v], Sid(v))'
      BY <2>5, <2>7 DEF OwnLines, EmptyRecord
    <2>8. HandsOwn'
      <3>1. \A v \in Workers : pc'[v] = "idle" => buf'[v] = EmptyRecord
        BY <2>6
      <3> QED BY <2>6, <2>7, <3>1 DEF HandsOwn, EmptyRecord
    <2> QED BY <1>0, <2>2, <2>8 DEF OInv
  <1>3. ASSUME NEW w \in Workers,
               \/ Connect(w) \/ Dedup(w) \/ AppendGet(w) \/ AppendSet(w) \/ RiskAlert(w)
               \/ CloseLoad(w) \/ CloseAnalyse(w) \/ CloseStore(w) \/ CloseIndex(w)
               \/ CloseCount(w) \/ CloseEnrich(w) \/ CloseThreshold(w)
               \/ CloseAlert(w) \/ CloseDelete(w) \/ RedisFault(w)
        PROVE  OInv'
    <2>1. pc[w] # "idle" /\ log' = log
      BY <1>3 DEF Connect, Dedup, AppendGet, AppendSet, RiskAlert, CloseLoad,
                  CloseAnalyse, CloseStore, CloseIndex, CloseCount, CloseEnrich,
                  CloseThreshold, CloseAlert, CloseDelete, RedisFault, file
    <2>2. Sid(w) \in Sessions /\ ev[w] \in Nat /\ OwnLines(buf[w], Sid(w))
      BY <1>0, <2>1, SidInSessions DEF OInv, HandsOwn
    <2>3. \A v \in Workers \ {w} : UNCHANGED <<pc[v], ev[v], buf[v]>>
      BY <1>0, <1>3 DEF Connect, Dedup, AppendGet, AppendSet, RiskAlert, CloseLoad,
                  CloseAnalyse, CloseStore, CloseIndex, CloseCount, CloseEnrich,
                  CloseThreshold, CloseAlert, CloseDelete, RedisFault,
                  Finish, AfterAppend, AfterStore, Goto, TInv, TypeOK, ThreadOK
    <2>4. \/ pc'[w] = "idle" /\ buf'[w] = EmptyRecord
          \/ pc'[w] # "idle" /\ ev'[w] = ev[w] /\ OwnLines(buf'[w], Sid(w))
      <3>1. CASE Finish(w)
        BY <1>0, <3>1 DEF Finish, Goto, TInv, TypeOK, ThreadOK
      <3>2. CASE AppendGet(w) \/ CloseLoad(w)
        <4>1. CASE buf' = buf /\ ev' = ev /\ \E p \in ControlPoints \ {"idle"} : Goto(w, p)
          BY <1>0, <2>2, <4>1 DEF Goto, TInv, TypeOK, ThreadOK
        <4>2. CASE /\ ev' = ev /\ \E p \in ControlPoints \ {"idle"} : Goto(w, p)
                   /\ \E rec \in {EmptyRecord, live[Sid(w)]} :
                         OwnLines(rec, Sid(w)) /\ buf' = [buf EXCEPT ![w] = rec]
          BY <1>0, <4>2 DEF Goto, TInv, TypeOK, ThreadOK
        <4>3. live[Sid(w)] # NoRecord => OwnLines(live[Sid(w)], Sid(w))
          BY <2>2 DEF OInv, RecordsHoldOwnLines
        <4> QED BY <3>1, <3>2, <4>1, <4>2, <4>3, EmptyOwns
                DEF AppendGet, CloseLoad, AfterAppend, ControlPoints
      <3>3. CASE ~Finish(w) /\ ~AppendGet(w) /\ ~CloseLoad(w)
        <4>1. buf' = buf /\ ev' = ev
          BY <1>3, <3>3 DEF Connect, Dedup, AppendSet, RiskAlert,
                  CloseAnalyse, CloseStore, CloseIndex, CloseCount, CloseEnrich,
                  CloseThreshold, CloseAlert, CloseDelete, RedisFault, AfterAppend
        <4>2. \E p \in ControlPoints \ {"idle"} : Goto(w, p)
          BY <1>3, <3>3 DEF Connect, Dedup, AppendSet, RiskAlert,
                  CloseAnalyse, CloseStore, CloseIndex, CloseCount, CloseEnrich,
                  CloseThreshold, CloseAlert, CloseDelete, RedisFault, AfterAppend,
                  AfterStore, ControlPoints
        <4> QED BY <1>0, <2>2, <4>1, <4>2 DEF Goto, TInv, TypeOK, ThreadOK
      <3> QED BY <3>1, <3>2, <3>3
    <2>5. CASE AppendSet(w)
      <3> DEFINE f == FieldOf(LineOf(w).kind)
                 new == [buf[w] EXCEPT ![f] = Append(@, ev[w])]
      <3>1. f \in Fields /\ BelongsTo(ev[w], Sid(w), f)
        BY <1>0, <2>5, FieldsOfKinds
           DEF AppendSet, TInv, HandOK, BusyHasLine, AppendKinds, LineOf, BelongsTo, Sid
      <3>2. buf[w] \in Record
        BY <1>0 DEF TInv, TypeOK, ThreadOK
      <3> HIDE DEF f
      <3>3. OwnLines(new, Sid(w))
        BY <2>2, <3>1, <3>2, AppendOwns
      <3>4. /\ live' = [live EXCEPT ![Sid(w)] = new] /\ completed' = completed
        BY <2>5 DEF AppendSet, f
      <3> HIDE DEF new
      <3>5. live'[Sid(w)] = new /\ \A s \in Sessions \ {Sid(w)} : live'[s] = live[s]
        BY <1>0, <2>2, <3>4 DEF TInv, TypeOK, StoreOK
      <3> QED BY <1>1, <2>1, <2>3, <2>4, <3>3, <3>4, <3>5
    <2>6. CASE CloseStore(w) \/ CloseEnrich(w) \/ CloseThreshold(w)
      <3>1. /\ live' = live
            /\ completed' = completed \/ completed' = [completed EXCEPT ![Sid(w)] = buf[w]]
        BY <2>6 DEF CloseStore, CloseEnrich, CloseThreshold
      <3>2. completed'[Sid(w)] \in {completed[Sid(w)], buf[w]}
            /\ \A s \in Sessions \ {Sid(w)} : completed'[s] = completed[s]
        BY <1>0, <2>2, <3>1 DEF TInv, TypeOK, StoreOK
      <3> QED BY <1>1, <2>1, <2>2, <2>3, <2>4, <3>1, <3>2
    <2>7. CASE Connect(w) \/ CloseDelete(w)
      <3>1. /\ completed' = completed
            /\ live'[Sid(w)] \in {EmptyRecord, NoRecord}
            /\ \A s \in Sessions \ {Sid(w)} : live'[s] = live[s]
        BY <1>0, <2>2, <2>7 DEF Connect, CloseDelete, TInv, TypeOK, StoreOK
      <3> QED BY <1>1, <2>1, <2>3, <2>4, <3>1, EmptyOwns
    <2>8. CASE UNCHANGED <<live, completed>>
      BY <1>1, <2>1, <2>3, <2>4, <2>8
    <2> QED BY <1>3, <2>5, <2>6, <2>7, <2>8
            DEF Dedup, AppendGet, RiskAlert, CloseLoad, CloseAnalyse, CloseIndex,
                CloseCount, CloseAlert, RedisFault, store
  <1>4. ASSUME NEW w \in Workers, TakeEvent(w) PROVE OInv'
    <2>1. /\ UNCHANGED <<log, live, completed, buf>> /\ pc[w] = "idle"
          /\ \A v \in Workers \ {w} : UNCHANGED <<pc[v], ev[v]>>
      BY <1>0, <1>4 DEF TakeEvent, Goto, file, store, TInv, TypeOK, ThreadOK
    <2>2. \A v \in Workers : pc[v] = "idle" => buf[v] = EmptyRecord
      BY DEF OInv, HandsOwn
    <2> QED BY <1>2, <2>1, <2>2
  <1>5. ASSUME UNCHANGED <<pc, ev, buf, live, completed>>,
               UNCHANGED log \/ \E e \in Event : HoneypotWrite(e)
        PROVE  OInv'
    BY <1>2, <1>5
  <1>6. ASSUME NEW e \in Event, HoneypotWrite(e) PROVE OInv'
    BY <1>5, <1>6 DEF HoneypotWrite, thread, store
  <1>7. CASE \/ Watch \/ SavedExpires \/ HoneypotFinishLine \/ TakeAlert
             \/ DedupExpires \/ UNCHANGED vars
    <2>1. UNCHANGED <<log, pc, ev, buf, live, completed>>
      BY <1>7 DEF Watch, WatchOpen, WatchLine, WatchTorn, WatchSave, SavedExpires,
                  HoneypotFinishLine, TakeAlert, DedupExpires, vars, file, thread, store
    <2> QED BY <1>5, <2>1
  <1>8. CASE Crash
    <2>1. /\ UNCHANGED <<log, live, completed>>
          /\ \A v \in Workers : pc'[v] = "idle" /\ buf'[v] = EmptyRecord
      BY <1>8 DEF Crash, file, store
    <2> QED BY <1>2, <2>1
  <1>9. CASE RecordExpires
    <2> PICK s \in Sessions : LiveExpires(s) \/ CompletedExpires(s)
      BY <1>9 DEF RecordExpires
    <2>1. /\ UNCHANGED <<log, pc, ev, buf>>
          /\ \A t \in Sessions : live'[t] \in {live[t], NoRecord}
          /\ \A t \in Sessions : completed'[t] \in {completed[t], NoRecord}
      BY <1>0 DEF LiveExpires, CompletedExpires, file, thread, TInv, TypeOK, StoreOK
    <2>2. \A rec, t : OwnLines(rec, t) => OwnLines(rec, t)'
      BY <1>0, <2>1, OwnStays
    <2>3. \A t \in Sessions :
             /\ live'[t] # NoRecord => OwnLines(live'[t], t)
             /\ completed'[t] # NoRecord => OwnLines(completed'[t], t)
      BY <2>1 DEF OInv, RecordsHoldOwnLines
    <2>4. RecordsHoldOwnLines'
      BY <2>2, <2>3 DEF RecordsHoldOwnLines
    <2>5. HandsOwn'
      BY <2>1 DEF OInv, HandsOwn, OwnLines, BelongsTo, EmptyRecord, Sid, LineOf
    <2> QED BY <1>0, <2>4, <2>5 DEF OInv
  <1> QED BY <1>3, <1>4, <1>6, <1>7, <1>8, <1>9 DEF Next, Work, RecordExpires

\* For any number of workers, sessions, crashes and faults, a live or a
\* completed record holds only lines of its own session, in their field.
THEOREM RecordsAreOwn == Spec => []RecordsHoldOwnLines
  <1>1. Init => OInv
    <2> SUFFICES ASSUME Init PROVE OInv
      OBVIOUS
    <2>1. RecordsHoldOwnLines /\ HandsOwn
      BY DEF Init, RecordsHoldOwnLines, HandsOwn
    <2> QED BY <2>1, InitTInv DEF OInv
  <1>2. OInv => RecordsHoldOwnLines
    BY DEF OInv
  <1> QED BY <1>1, <1>2, StepOInv, PTL DEF Spec

(***************************************************************************)
(* The total.  A completed record is counted by the one worker that made   *)
(* it, between its SETNX and its INCR; past the SETNX the record is there, *)
(* so that no later write of the handler makes a new one.  A record that   *)
(* expires stays in the total.                                             *)
(***************************************************************************)
Counting == {w \in Workers : pc[w] \in {"index", "count"}}
Stored   == {s \in Sessions : completed[s] # NoRecord}
MadeRecord == \A w \in Workers : pc[w] \in PastStore => Sid(w) \in Stored
CountingFinite == IsFiniteSet(Counting) /\ IsFiniteSet(Stored)
NInv == TInv /\ CountingFinite /\ MadeRecord /\ TotalCountsCompleted

\* Steps that count nothing: a worker may give up, but only with a fault or a crash.
LEMMA CountsNothing ==
    ASSUME NInv, UNCHANGED <<total, expired>>, Stored' = Stored, Counting' \subseteq Counting,
           Calm' => Calm /\ Counting' = Counting
    PROVE  CountingFinite' /\ TotalCountsCompleted'
  <1>1. IsFiniteSet(Counting) /\ IsFiniteSet(Stored) /\ total \in Nat
    BY DEF NInv, CountingFinite, TInv, TypeOK, StoreOK
  <1>2. /\ IsFiniteSet(Counting') /\ Cardinality(Counting') <= Cardinality(Counting)
        /\ Cardinality(Counting') \in Nat /\ Cardinality(Counting) \in Nat
        /\ Cardinality(Stored) \in Nat
    BY <1>1, FS_Subset, FS_CardinalityType
  <1>3. /\ total + Cardinality(Counting) <= Cardinality(Stored) + Len(expired)
        /\ Calm => total + Cardinality(Counting) = Cardinality(Stored) + Len(expired)
        /\ Len(expired) \in Nat
    BY LenProperties DEF NInv, TotalCountsCompleted, Counting, Stored, TInv, TypeOK, OtherOK
  <1>4. /\ total' + Cardinality(Counting') <= Cardinality(Stored') + Len(expired')
        /\ Calm' => total' + Cardinality(Counting') = Cardinality(Stored') + Len(expired')
    BY <1>1, <1>2, <1>3
  <1>5. TotalCountsCompleted'
    BY <1>4 DEF TotalCountsCompleted, Counting, Stored
  <1> QED BY <1>1, <1>2, <1>5 DEF CountingFinite

\* Records stay, and a worker comes past the SETNX only with its record.
LEMMA RecordsStay ==
    ASSUME NInv, Stored \subseteq Stored',
           \A w \in Workers : pc'[w] \in PastStore =>
               Sid(w)' = Sid(w) /\ (pc[w] \in PastStore \/ Sid(w) \in Stored')
    PROVE  MadeRecord'
  BY DEF NInv, MadeRecord

\* SETNX: a new record gets a worker that will count it.
LEMMA StoreCounts ==
    ASSUME NInv, NEW w \in Workers, CloseStore(w)
    PROVE  CountingFinite' /\ TotalCountsCompleted' /\ MadeRecord'
  <1>t. TypeOK /\ Sid(w) \in Sessions
    BY SidInSessions DEF NInv, TInv, CloseStore
  <1>1. /\ UNCHANGED <<total, expired>> /\ Calm' = Calm /\ pc[w] = "store"
        /\ completed' = [completed EXCEPT ![Sid(w)] = buf[w]]
        /\ \A v \in Workers : Sid(v)' = Sid(v)
    BY DEF CloseStore, Calm, env, file, Sid, LineOf
  <1>2. buf[w] # NoRecord
    BY <1>t, DataAssumption DEF TypeOK, ThreadOK
  <1>3. Stored' = Stored \cup {Sid(w)}
    BY <1>t, <1>1, <1>2 DEF Stored, TypeOK, StoreOK
  <1>4. \A v \in Workers \ {w} : pc'[v] = pc[v]
    BY <1>t DEF CloseStore, AfterStore, Goto, TypeOK, ThreadOK
  <1>5. MadeRecord'
    BY <1>1, <1>3, <1>4, RecordsStay
  <1>6. CASE Sid(w) \in Stored
    <2>1. pc'[w] \in {"enrich", "alert"}
      BY <1>t, <1>6 DEF CloseStore, AfterStore, Goto, TypeOK, ThreadOK, Stored
    <2>2. Counting' = Counting
      BY <1>1, <1>4, <2>1 DEF Counting
    <2>3. Stored' = Stored
      BY <1>3, <1>6
    <2> QED BY <1>1, <1>5, <2>2, <2>3, CountsNothing
  <1>7. CASE Sid(w) \notin Stored
    <2>1. pc'[w] = "index"
      BY <1>t, <1>7 DEF CloseStore, Goto, TypeOK, ThreadOK, Stored
    <2>2. Counting' = Counting \cup {w} /\ w \notin Counting
      BY <1>1, <1>4, <2>1 DEF Counting
    <2>3. IsFiniteSet(Counting) /\ IsFiniteSet(Stored) /\ total \in Nat
      BY <1>t DEF NInv, CountingFinite, TypeOK, StoreOK
    <2>4. /\ IsFiniteSet(Counting') /\ Cardinality(Counting') = Cardinality(Counting) + 1
          /\ IsFiniteSet(Stored') /\ Cardinality(Stored') = Cardinality(Stored) + 1
          /\ Cardinality(Counting) \in Nat /\ Cardinality(Stored) \in Nat
      BY <1>3, <1>7, <2>2, <2>3, FS_AddElement, FS_CardinalityType
    <2>5. /\ total + Cardinality(Counting) <= Cardinality(Stored) + Len(expired)
          /\ Calm => total + Cardinality(Counting) = Cardinality(Stored) + Len(expired)
          /\ Len(expired) \in Nat
      BY <1>t, LenProperties DEF NInv, TotalCountsCompleted, Counting, Stored, TypeOK, OtherOK
    <2>6. /\ total' + Cardinality(Counting') <= Cardinality(Stored') + Len(expired')
          /\ Calm' => total' + Cardinality(Counting') = Cardinality(Stored') + Len(expired')
      BY <1>1, <2>3, <2>4, <2>5
    <2>7. TotalCountsCompleted'
      BY <2>6 DEF TotalCountsCompleted, Counting, Stored
    <2> QED BY <1>5, <2>4, <2>7 DEF CountingFinite
  <1> QED BY <1>6, <1>7

\* INCR: one more in the total, one less that counts.
LEMMA CountCounts ==
    ASSUME NInv, NEW w \in Workers, CloseCount(w)
    PROVE  CountingFinite' /\ TotalCountsCompleted' /\ MadeRecord'
  <1>t. TypeOK
    BY DEF NInv, TInv
  <1>1. /\ total' = total + 1 /\ Calm' = Calm /\ pc[w] = "count"
        /\ UNCHANGED <<completed, expired>>
        /\ \A v \in Workers : Sid(v)' = Sid(v)
    BY DEF CloseCount, Calm, env, file, Sid, LineOf
  <1>2. pc'[w] \in {"enrich", "alert"} /\ \A v \in Workers \ {w} : pc'[v] = pc[v]
    BY <1>t DEF CloseCount, AfterStore, Goto, TypeOK, ThreadOK
  <1>3. Stored' = Stored /\ Counting' = Counting \ {w} /\ w \in Counting
    BY <1>1, <1>2 DEF Stored, Counting
  <1>4. MadeRecord'
    BY <1>1, <1>2, <1>3, RecordsStay DEF PastStore
  <1>5. IsFiniteSet(Counting) /\ IsFiniteSet(Stored) /\ total \in Nat
    BY <1>t DEF NInv, CountingFinite, TypeOK, StoreOK
  <1>6. /\ IsFiniteSet(Counting') /\ Cardinality(Counting') = Cardinality(Counting) - 1
        /\ Cardinality(Counting) \in Nat /\ Cardinality(Stored) \in Nat
    BY <1>3, <1>5, FS_RemoveElement, FS_CardinalityType
  <1>7. /\ total + Cardinality(Counting) <= Cardinality(Stored) + Len(expired)
        /\ Calm => total + Cardinality(Counting) = Cardinality(Stored) + Len(expired)
        /\ Len(expired) \in Nat
    BY <1>t, LenProperties DEF NInv, TotalCountsCompleted, Counting, Stored, TypeOK, OtherOK
  <1>8. /\ total' + Cardinality(Counting') <= Cardinality(Stored') + Len(expired')
        /\ Calm' => total' + Cardinality(Counting') = Cardinality(Stored') + Len(expired')
    BY <1>1, <1>3, <1>5, <1>6, <1>7
  <1>9. TotalCountsCompleted'
    BY <1>8 DEF TotalCountsCompleted, Counting, Stored
  <1> QED BY <1>3, <1>4, <1>5, <1>6, <1>9 DEF CountingFinite

\* A record expires: it leaves the store, and the total remembers it.
LEMMA ExpiryCounts ==
    ASSUME NInv, NEW s \in Sessions, CompletedExpires(s)
    PROVE  CountingFinite' /\ TotalCountsCompleted' /\ MadeRecord'
  <1>t. TypeOK
    BY DEF NInv, TInv
  <1>1. /\ UNCHANGED <<log, pc, ev, total, crashes, faults>> /\ expired' = Append(expired, s)
        /\ completed[s] # NoRecord /\ completed' = [completed EXCEPT ![s] = NoRecord]
        /\ \A w \in Workers : pc[w] \in PastStore => Sid(w) # s
    BY DEF CompletedExpires, file, thread
  <1>2. Stored' = Stored \ {s} /\ s \in Stored /\ Counting' = Counting /\ Calm' = Calm
    BY <1>t, <1>1 DEF Stored, Counting, Calm, TypeOK, StoreOK
  <1>3. \A w \in Workers : Sid(w)' = Sid(w)
    BY <1>1 DEF Sid, LineOf
  <1>4. MadeRecord'
    BY <1>1, <1>2, <1>3 DEF NInv, MadeRecord
  <1>5. IsFiniteSet(Counting) /\ IsFiniteSet(Stored) /\ total \in Nat
    BY <1>t DEF NInv, CountingFinite, TypeOK, StoreOK
  <1>6. /\ IsFiniteSet(Stored') /\ Cardinality(Stored') = Cardinality(Stored) - 1
        /\ Cardinality(Counting) \in Nat /\ Cardinality(Stored) \in Nat
    BY <1>2, <1>5, FS_RemoveElement, FS_CardinalityType
  <1>7. Len(expired') = Len(expired) + 1 /\ Len(expired) \in Nat
    BY <1>t, <1>1, AppendProperties, LenProperties DEF TypeOK, OtherOK
  <1>8. /\ total + Cardinality(Counting) <= Cardinality(Stored) + Len(expired)
        /\ Calm => total + Cardinality(Counting) = Cardinality(Stored) + Len(expired)
    BY DEF NInv, TotalCountsCompleted, Counting, Stored
  <1>9. /\ total' + Cardinality(Counting') <= Cardinality(Stored') + Len(expired')
        /\ Calm' => total' + Cardinality(Counting') = Cardinality(Stored') + Len(expired')
    BY <1>1, <1>2, <1>5, <1>6, <1>7, <1>8
  <1>10. TotalCountsCompleted'
    BY <1>9 DEF TotalCountsCompleted, Counting, Stored
  <1> QED BY <1>2, <1>4, <1>5, <1>6, <1>10 DEF CountingFinite

LEMMA StepNInv == NInv /\ [Next]_vars => NInv'
  <1> SUFFICES ASSUME NInv, [Next]_vars PROVE NInv'
    OBVIOUS
  <1>t. TInv' /\ TypeOK
    BY StepTInv DEF NInv, TInv
  <1>1. ASSUME NEW w \in Workers, CloseStore(w) \/ CloseCount(w) PROVE NInv'
    BY <1>t, <1>1, StoreCounts, CountCounts DEF NInv
  <1>2. ASSUME UNCHANGED <<total, expired>>, Stored' = Stored, Counting' \subseteq Counting,
               Calm' => Calm /\ Counting' = Counting,
               \A w \in Workers : pc'[w] \in PastStore =>
                   Sid(w)' = Sid(w) /\ pc[w] \in PastStore
        PROVE NInv'
    BY <1>t, <1>2, CountsNothing, RecordsStay DEF NInv
  <1>3. ASSUME NEW w \in Workers,
               \/ TakeEvent(w) \/ Connect(w) \/ Dedup(w) \/ AppendGet(w)
               \/ AppendSet(w) \/ RiskAlert(w) \/ CloseLoad(w) \/ CloseAnalyse(w)
               \/ CloseAlert(w) \/ CloseDelete(w)
        PROVE NInv'
    <2>1. /\ UNCHANGED <<log, total, completed, crashes, faults, expired>>
          /\ pc[w] \notin PastStore
      BY <1>3 DEF TakeEvent, Connect, Dedup, AppendGet, AppendSet, RiskAlert,
                  CloseLoad, CloseAnalyse, CloseAlert, CloseDelete, PastStore,
                  file, store, env
    <2>2. \E p \in ControlPoints \ PastStore : Goto(w, p)
      BY <1>3 DEF TakeEvent, Connect, Dedup, AppendGet, AppendSet, RiskAlert,
                  CloseLoad, CloseAnalyse, CloseAlert, CloseDelete, PastStore,
                  Finish, AfterAppend, ControlPoints
    <2>3. \A v \in Workers : v # w => ev'[v] = ev[v]
      BY <1>3, <1>t DEF TakeEvent, Connect, Dedup, AppendGet, AppendSet, RiskAlert,
                  CloseLoad, CloseAnalyse, CloseAlert, CloseDelete,
                  Finish, AfterAppend, TypeOK, ThreadOK
    <2>4. pc'[w] \notin PastStore /\ \A v \in Workers \ {w} : pc'[v] = pc[v]
      BY <1>t, <2>2 DEF Goto, TypeOK, ThreadOK
    <2>5. Stored' = Stored /\ Counting' = Counting /\ Calm' = Calm
      BY <2>1, <2>4 DEF Stored, Counting, Calm, PastStore
    <2>6. \A v \in Workers : pc'[v] \in PastStore => Sid(v)' = Sid(v) /\ pc[v] \in PastStore
      BY <2>1, <2>3, <2>4 DEF Sid, LineOf
    <2> QED BY <1>2, <2>1, <2>5, <2>6
  <1>4. ASSUME NEW w \in Workers, CloseIndex(w) \/ CloseEnrich(w) \/ CloseThreshold(w)
        PROVE NInv'
    <2>1. /\ UNCHANGED <<log, ev, total, crashes, faults, expired>> /\ pc[w] \in PastStore
          /\ pc'[w] \in {"count", "threshold", "alert"}
          /\ pc'[w] = "count" <=> pc[w] = "index" /\ pc[w] # "count"
          /\ \A v \in Workers \ {w} : pc'[v] = pc[v]
      BY <1>t, <1>4 DEF CloseIndex, CloseEnrich, CloseThreshold, PastStore, Goto,
                  TypeOK, ThreadOK, file, env
    <2>2. pc[w] # "count"
      BY <1>4 DEF CloseIndex, CloseEnrich, CloseThreshold
    <2>3. Counting' = Counting /\ Calm' = Calm
      BY <2>1, <2>2 DEF Counting, Calm
    <2>4. Sid(w) \in Stored /\ buf[w] # NoRecord
      BY <1>t, <2>1, DataAssumption DEF NInv, MadeRecord, TypeOK, ThreadOK
    <2>5. completed' = completed \/ completed' = [completed EXCEPT ![Sid(w)] = buf[w]]
      BY <1>4 DEF CloseIndex, CloseEnrich, CloseThreshold
    <2>6. Stored' = Stored
      BY <1>t, <2>4, <2>5 DEF Stored, TypeOK, StoreOK
    <2>7. \A v \in Workers : pc'[v] \in PastStore => Sid(v)' = Sid(v) /\ pc[v] \in PastStore
      BY <2>1 DEF Sid, LineOf
    <2> QED BY <1>2, <2>1, <2>3, <2>6, <2>7
  <1>5. ASSUME NEW w \in Workers, RedisFault(w) PROVE NInv'
    <2>1. /\ UNCHANGED <<log, total, completed, expired>> /\ faults' = faults + 1 /\ faults \in Nat
          /\ pc'[w] \in {"risk", "idle"}
          /\ \A v \in Workers \ {w} : pc'[v] = pc[v] /\ ev'[v] = ev[v]
      BY <1>t, <1>5 DEF RedisFault, AfterAppend, Finish, Goto, TypeOK, ThreadOK, OtherOK,
                  file, store
    <2>2. Stored' = Stored /\ Counting' \subseteq Counting /\ ~Calm'
      BY <2>1 DEF Stored, Counting, Calm
    <2>3. \A v \in Workers : pc'[v] \in PastStore => Sid(v)' = Sid(v) /\ pc[v] \in PastStore
      BY <2>1 DEF Sid, LineOf, PastStore
    <2> QED BY <1>2, <2>1, <2>2, <2>3
  <1>6. ASSUME UNCHANGED <<pc, ev, total, completed, expired>>,
               UNCHANGED log \/ \E e \in Event : HoneypotWrite(e),
               Calm' => Calm
        PROVE NInv'
    <2>1. Stored' = Stored /\ Counting' = Counting
      BY <1>6 DEF Stored, Counting
    <2>2. \A k \in 1..Len(log) : log'[k] = log[k]
      BY <1>6, LogGrows DEF NInv
    <2>3. \A v \in Workers : pc'[v] \in PastStore => Sid(v)' = Sid(v) /\ pc[v] \in PastStore
      BY <1>6, <2>2 DEF Sid, LineOf, PastStore, NInv, TInv, HandOK, BusyHasLine
    <2> QED BY <1>2, <1>6, <2>1, <2>3
  <1>7. ASSUME NEW e \in Event, HoneypotWrite(e) PROVE NInv'
    BY <1>6, <1>7 DEF HoneypotWrite, thread, store, env, Calm
  <1>8. CASE \/ Watch \/ SavedExpires \/ HoneypotFinishLine \/ TakeAlert
             \/ DedupExpires \/ UNCHANGED vars
    <2>1. /\ UNCHANGED <<log, pc, ev, total, completed, crashes, expired>>
          /\ faults' = faults \/ faults' = faults + 1
      BY <1>8 DEF Watch, WatchOpen, WatchLine, WatchTorn, WatchSave, SavedExpires, env,
                  HoneypotFinishLine, TakeAlert, DedupExpires, vars, file, thread, store
    <2>2. Calm' => Calm
      BY <1>t, <2>1 DEF Calm, TypeOK, OtherOK
    <2> QED BY <1>6, <2>1, <2>2
  <1>9. CASE Crash
    <2>1. /\ UNCHANGED <<total, completed, expired>> /\ crashes' = crashes + 1 /\ crashes \in Nat
          /\ \A v \in Workers : pc'[v] = "idle"
      BY <1>9, <1>t DEF Crash, store, TypeOK, OtherOK
    <2>2. Stored' = Stored /\ Counting' \subseteq Counting /\ ~Calm'
      BY <2>1 DEF Stored, Counting, Calm
    <2>3. \A v \in Workers : pc'[v] \notin PastStore
      BY <2>1 DEF PastStore
    <2> QED BY <1>2, <2>1, <2>2, <2>3
  <1>10. ASSUME NEW s \in Sessions, LiveExpires(s) PROVE NInv'
    <2>1. /\ UNCHANGED <<log, pc, ev, total, completed, crashes, expired>>
          /\ faults' = faults + 1 /\ faults \in Nat
      BY <1>t, <1>10 DEF LiveExpires, file, thread, TypeOK, OtherOK
    <2> QED BY <1>6, <2>1 DEF Calm
  <1>11. ASSUME NEW s \in Sessions, CompletedExpires(s) PROVE NInv'
    BY <1>t, <1>11, ExpiryCounts DEF NInv
  <1> QED BY <1>1, <1>3, <1>4, <1>5, <1>7, <1>8, <1>9, <1>10, <1>11 DEF Next, Work

\* cowrie_sessions:total never exceeds the completed records, those that expired
\* included, and as long as nothing fails it lags behind them by exactly the workers
\* that are about to count one.
THEOREM TotalIsRight == Spec => []TotalCountsCompleted
  <1>1. Init => NInv
    <2> SUFFICES ASSUME Init PROVE NInv
      OBVIOUS
    <2>1. Counting = {} /\ Stored = {} /\ total = 0 /\ Len(expired) = 0
      BY DEF Init, Counting, Stored
    <2>2. total + Cardinality(Counting) = Cardinality(Stored) + Len(expired)
      BY <2>1, FS_EmptySet
    <2>3. total + Cardinality(Counting) <= Cardinality(Stored) + Len(expired)
      BY <2>1, FS_EmptySet
    <2>4. TotalCountsCompleted
      BY <2>2, <2>3 DEF TotalCountsCompleted, Counting, Stored
    <2>5. CountingFinite /\ MadeRecord
      BY <2>1, FS_EmptySet DEF CountingFinite, MadeRecord, Init, PastStore
    <2> QED BY <2>4, <2>5, InitTInv DEF NInv
  <1>2. NInv => TotalCountsCompleted
    BY DEF NInv
  <1> QED BY <1>1, <1>2, StepNInv, PTL DEF Spec

(***************************************************************************)
(* The way of a line.  While the process runs, the watcher takes the lines *)
(* up in order, and a line it took up is in one place: in the queue, which *)
(* stays in file order, or in the hand of one worker.                      *)
(***************************************************************************)
IdleHands  == \A w \in Workers : pc[w] = "idle" <=> ev[w] = 0
HandsApart == \A v, w \in Workers : ev[v] = ev[w] /\ ev[v] # 0 => v = w
TakenUp    == Queued \cup InHand
RunOK ==
    /\ IdleHands /\ HandsApart /\ Ascending(queue) /\ Queued \cap InHand = {}
    /\ \A k \in TakenUp : 2 * k <= cursor
    /\ watcher = "closed" => cursor = 0
RInv == TInv /\ RunOK

LEMMA Halves ==
    ASSUME NEW x \in Nat
    PROVE  /\ x \div 2 \in Nat
           /\ \/ (x % 2) = 0 /\ x = 2 * (x \div 2)
              \/ (x % 2) = 1 /\ x = 2 * (x \div 2) + 1
  <1>1. x \div 2 \in Nat /\ (x % 2) \in {0, 1}
    OBVIOUS
  <1>2. x = 2 * (x \div 2) + (x % 2)
    OBVIOUS
  <1> QED BY <1>1, <1>2

LEMMA PlacesOfLines ==
    ASSUME TInv
    PROVE  /\ Queued \subseteq 1..Len(log) /\ InHand \subseteq 1..Len(log)
           /\ TakenUp \subseteq 1..Len(log) /\ TakenUp \subseteq Nat \ {0}
           /\ Len(log) \in Nat /\ Len(queue) \in Nat /\ queue \in Seq(1..Len(log))
  <1>1. queue \in Seq(1..Len(log)) /\ log \in Seq(Event)
    BY DEF TInv, TypeOK, ThreadOK, FileOK
  <1>2. \A i \in 1..Len(queue) : queue[i] \in 1..Len(log)
    BY <1>1, ElementOfSeq
  <1>3. \A w \in Workers : ev[w] \in 0..Len(log)
    BY DEF TInv, TypeOK, ThreadOK
  <1>4. Len(log) \in Nat /\ Len(queue) \in Nat
    BY <1>1, LenProperties
  <1>5. \A k \in 0..Len(log) : k # 0 => k \in 1..Len(log)
    BY <1>4
  <1>6. Queued \subseteq 1..Len(log) /\ InHand \subseteq 1..Len(log)
    BY <1>2, <1>3, <1>5 DEF Queued, InHand
  <1>7. 1..Len(log) \subseteq Nat \ {0}
    BY <1>4
  <1> QED BY <1>1, <1>4, <1>6, <1>7 DEF TakenUp

\* What a worker's step does to the lines: it ends the one in hand or keeps it.
Elsewhere == <<log, half, watcher, cursor, saved, queue, dropped, torn, crashes>>
MoreFaults == faults' = faults \/ faults' = faults + 1
Ends(w) ==
    /\ pc[w] # "idle" /\ pc' = [pc EXCEPT ![w] = "idle"]
    /\ ev' = [ev EXCEPT ![w] = 0] /\ done' = done \cup {ev[w]}
    /\ UNCHANGED Elsewhere /\ MoreFaults
Goes(w) ==
    /\ pc[w] # "idle"
    /\ \E p \in ControlPoints \ {"idle"} : pc' = [pc EXCEPT ![w] = p]
    /\ UNCHANGED <<ev, done>> /\ UNCHANGED Elsewhere /\ MoreFaults

LEMMA WorkerMoves ==
    ASSUME NEW w \in Workers, Work(w) \/ RedisFault(w), ~TakeEvent(w)
    PROVE  Ends(w) \/ Goes(w)
  <1>1. ASSUME Finish(w) PROVE /\ pc' = [pc EXCEPT ![w] = "idle"]
                               /\ ev' = [ev EXCEPT ![w] = 0] /\ done' = done \cup {ev[w]}
    BY <1>1 DEF Finish, Goto
  <1>2. /\ pc[w] # "idle" /\ UNCHANGED Elsewhere /\ MoreFaults
    BY DEF Work, Connect, Dedup, AppendGet, AppendSet, RiskAlert, CloseLoad, CloseAnalyse,
           CloseStore, CloseIndex, CloseCount, CloseEnrich, CloseThreshold, CloseAlert,
           CloseDelete, RedisFault, Elsewhere, MoreFaults, file, tail, env, history
  <1>3. \/ Finish(w)
        \/ /\ \E p \in ControlPoints \ {"idle"} : Goto(w, p)
           /\ UNCHANGED <<ev, done>>
    BY DEF Work, Connect, Dedup, AppendGet, AppendSet, RiskAlert, CloseLoad, CloseAnalyse,
           CloseStore, CloseIndex, CloseCount, CloseEnrich, CloseThreshold, CloseAlert,
           CloseDelete, RedisFault, AfterAppend, AfterStore, ControlPoints, history
  <1> QED BY <1>1, <1>2, <1>3 DEF Ends, Goes, Goto

\* Every step is one of these, as far as the lines go.
Taking == \E w \in Workers : TakeEvent(w)
Ending == \E w \in Workers : Ends(w)
Going  == \E w \in Workers : Goes(w)
Positioning == WatchOpen \/ WatchSave \/ SavedExpires
Lines == <<watcher, cursor, saved, queue, pc, ev, done, dropped, torn, crashes>>
Writing == (\E e \in Event : HoneypotWrite(e)) /\ UNCHANGED Lines /\ UNCHANGED faults
Aside   == UNCHANGED log /\ (UNCHANGED half \/ half' = FALSE) /\ UNCHANGED Lines /\ MoreFaults

LEMMA StepMoves ==
    ASSUME [Next]_vars
    PROVE  \/ Writing \/ WatchLine \/ WatchTorn \/ Positioning
           \/ Taking \/ Ending \/ Going \/ Aside \/ Crash
  <1>1. ASSUME NEW e \in Event, HoneypotWrite(e) PROVE Writing
    BY <1>1 DEF HoneypotWrite, Writing, Lines, tail, thread, env, history
  <1>2. CASE HoneypotFinishLine \/ TakeAlert \/ DedupExpires \/ UNCHANGED vars
    BY <1>2 DEF HoneypotFinishLine, TakeAlert, DedupExpires, vars, Aside, Lines, MoreFaults,
                file, tail, thread, env, history
  <1>4. CASE RecordExpires
    BY <1>4 DEF RecordExpires, LiveExpires, CompletedExpires, Aside, Lines, MoreFaults,
                file, tail, thread, history
  <1>3. ASSUME NEW w \in Workers, Work(w) \/ RedisFault(w) PROVE Taking \/ Ending \/ Going
    BY <1>3, WorkerMoves DEF Taking, Ending, Going
  <1> QED BY <1>1, <1>2, <1>3, <1>4 DEF Next, Watch, Positioning, RecordExpires

\* The queue gets a line after all it holds, and gives up its first.
LEMMA QueueTakes ==
    ASSUME TInv, NEW k \in Nat, queue' = Append(queue, k), Ascending(queue),
           \A j \in Queued : j < k
    PROVE  Queued' = Queued \cup {k} /\ Ascending(queue') /\ Len(queue') = Len(queue) + 1
  <1>1. queue \in Seq(Nat) /\ Len(queue) \in Nat
    <2>1. 1..Len(log) \subseteq Nat
      BY PlacesOfLines
    <2>2. queue \in Seq(1..Len(log)) /\ Len(queue) \in Nat
      BY PlacesOfLines
    <2> QED BY <2>1, <2>2, SeqMonotonic
  <1>2. /\ Len(queue') = Len(queue) + 1 /\ queue'[Len(queue) + 1] = k
        /\ \A i \in 1..Len(queue) : queue'[i] = queue[i]
    BY <1>1, AppendProperties
  <1>3. \A i \in 1..Len(queue') : i \in 1..Len(queue) \/ i = Len(queue) + 1
    BY <1>1, <1>2
  <1>4. Queued' = Queued \cup {k}
    <2>1. \A i \in 1..Len(queue) : i \in 1..Len(queue') /\ queue'[i] = queue[i]
      BY <1>1, <1>2
    <2>2. Len(queue) + 1 \in 1..Len(queue')
      BY <1>1, <1>2
    <2> QED BY <1>2, <1>3, <2>1, <2>2 DEF Queued
  <1>5. ASSUME NEW i \in 1..Len(queue'), NEW j \in 1..Len(queue'), i < j
        PROVE  queue'[i] < queue'[j]
    <2>1. i \in 1..Len(queue)
      BY <1>1, <1>2, <1>5
    <2>2. CASE j \in 1..Len(queue)
      BY <1>2, <1>5, <2>1, <2>2 DEF Ascending
    <2>3. CASE j = Len(queue) + 1
      BY <1>2, <2>1, <2>3 DEF Queued
    <2> QED BY <1>3, <2>2, <2>3
  <1> QED BY <1>2, <1>4, <1>5 DEF Ascending

LEMMA QueueGives ==
    ASSUME TInv, queue # <<>>, queue' = Tail(queue), Ascending(queue)
    PROVE  /\ Head(queue) \in Queued /\ \A j \in Queued : Head(queue) <= j
           /\ Queued' = Queued \ {Head(queue)} /\ Ascending(queue')
           /\ Len(queue') = Len(queue) - 1
  <1>1. /\ queue \in Seq(1..Len(log)) /\ Len(queue) \in Nat /\ Len(log) \in Nat
        /\ \A i \in 1..Len(queue) : queue[i] \in Nat
    BY PlacesOfLines, ElementOfSeq
  <1>2. /\ Head(queue) = queue[1] /\ 1 \in 1..Len(queue) /\ Len(queue') = Len(queue) - 1
        /\ \A i \in 1..Len(queue) - 1 : queue'[i] = queue[i + 1]
    <2>1. Len(queue) # 0
      BY <1>1, EmptySeq
    <2> QED BY <1>1, <2>1, HeadTailProperties
  <1>3. \A i \in 1..Len(queue) : i = 1 \/ queue[1] < queue[i]
    BY <1>1, <1>2 DEF Ascending
  <1>4. Head(queue) \in Queued /\ \A j \in Queued : Head(queue) <= j
    BY <1>1, <1>2, <1>3 DEF Queued
  <1>5. \A i \in 1..Len(queue') : i + 1 \in 1..Len(queue) /\ queue'[i] = queue[i + 1]
    BY <1>1, <1>2
  <1>6. \A i \in 1..Len(queue) : i # 1 => i - 1 \in 1..Len(queue') /\ queue'[i - 1] = queue[i]
    BY <1>1, <1>2
  <1>7. Queued' \subseteq Queued \ {Head(queue)}
    <2>1. \A i \in 1..Len(queue') : queue'[i] \in Queued /\ queue'[i] # queue[1]
      <3>1. \A i \in 1..Len(queue') : i + 1 # 1 /\ queue[i + 1] # queue[1]
        BY <1>1, <1>2, <1>3, <1>5
      <3> QED BY <1>5, <3>1 DEF Queued
    <2> QED BY <1>2, <2>1 DEF Queued
  <1>8. Queued \ {Head(queue)} \subseteq Queued'
    <2>1. \A i \in 1..Len(queue) : i # 1 => queue[i] \in Queued'
      BY <1>6 DEF Queued
    <2> QED BY <1>2, <2>1 DEF Queued
  <1>9. Ascending(queue')
    <2> SUFFICES ASSUME NEW i \in 1..Len(queue'), NEW j \in 1..Len(queue'), i < j
                 PROVE  queue'[i] < queue'[j]
      BY DEF Ascending
    <2>1. i + 1 < j + 1
      OBVIOUS
    <2> QED BY <1>5, <2>1 DEF Ascending
  <1> QED BY <1>2, <1>4, <1>7, <1>8, <1>9

\* A hand gets a line, and gives it up.
LEMMA HandTakes ==
    ASSUME TInv, IdleHands, HandsApart, NEW w \in Workers, pc[w] = "idle",
           NEW h \in Nat \ {0}, h \notin InHand, ev' = [ev EXCEPT ![w] = h],
           NEW p \in ControlPoints \ {"idle"}, pc' = [pc EXCEPT ![w] = p]
    PROVE  InHand' = InHand \cup {h} /\ IdleHands' /\ HandsApart'
  <1>1. ev[w] = 0 /\ ev'[w] = h /\ pc'[w] = p
    BY DEF IdleHands, TInv, TypeOK, ThreadOK
  <1>2. \A v \in Workers \ {w} : ev'[v] = ev[v] /\ pc'[v] = pc[v]
    BY DEF TInv, TypeOK, ThreadOK
  <1>3. InHand' = InHand \cup {h}
    BY <1>1, <1>2 DEF InHand
  <1>4. IdleHands'
    BY <1>1, <1>2 DEF IdleHands
  <1>5. \A v \in Workers : ev[v] # h
    BY DEF InHand
  <1>6. HandsApart'
    BY <1>1, <1>2, <1>5 DEF HandsApart
  <1> QED BY <1>3, <1>4, <1>6

LEMMA HandEnds ==
    ASSUME TInv, IdleHands, HandsApart, NEW w \in Workers, Ends(w)
    PROVE  /\ ev[w] \in InHand /\ InHand' = InHand \ {ev[w]}
           /\ IdleHands' /\ HandsApart'
  <1>1. ev[w] # 0 /\ ev'[w] = 0 /\ pc'[w] = "idle"
    BY DEF IdleHands, TInv, TypeOK, ThreadOK, Ends
  <1>2. \A v \in Workers \ {w} : ev'[v] = ev[v] /\ pc'[v] = pc[v]
    BY DEF TInv, TypeOK, ThreadOK, Ends
  <1>3. \A v \in Workers \ {w} : ev[v] # ev[w]
    BY <1>1 DEF HandsApart
  <1>4. InHand' = InHand \ {ev[w]} /\ ev[w] \in InHand
    BY <1>1, <1>2, <1>3 DEF InHand
  <1>5. IdleHands' /\ HandsApart'
    BY <1>1, <1>2 DEF IdleHands, HandsApart
  <1> QED BY <1>4, <1>5

\* The watcher takes up the line after all that is taken up: the queue gets it,
\* or it is dropped.
LEMMA LineTakenUp ==
    ASSUME RInv, WatchLine, NEW k, k = cursor \div 2 + 1
    PROVE  /\ k \in 1..Len(log) /\ Complete(k) /\ 2 * k = cursor + 2 /\ k \notin TakenUp
           /\ cursor' = cursor + 2 /\ watcher = "read" /\ watcher' = "save"
           /\ UNCHANGED <<log, half, saved, pc, ev, done, torn, crashes, faults>>
           /\ InHand' = InHand
           /\ \/ /\ Len(queue) < QueueMax /\ Len(queue') = Len(queue) + 1
                 /\ Queued' = Queued \cup {k} /\ Ascending(queue') /\ dropped' = dropped
              \/ Queued' = Queued /\ queue' = queue /\ dropped' = dropped \cup {k}
  <1>1. TInv /\ RunOK /\ cursor \in Nat /\ Len(log) \in Nat
    BY PlacesOfLines DEF RInv, TInv, TypeOK, FileOK
  <1>2. /\ k <= Len(log) /\ Complete(k) /\ cursor % 2 = 0
        /\ cursor' = cursor + 2 /\ watcher = "read" /\ watcher' = "save"
        /\ UNCHANGED <<log, half, saved, pc, ev, done, torn, crashes, faults>>
    BY DEF WatchLine, file, thread, env
  <1>3. k \in Nat /\ 2 * k = cursor + 2 /\ k >= 1
    BY <1>1, <1>2, Halves
  <1>4. \A j \in TakenUp : j \in Nat /\ j < k
    <2>1. TakenUp \subseteq Nat /\ \A j \in TakenUp : 2 * j <= cursor
      BY <1>1, PlacesOfLines DEF RunOK
    <2> QED BY <1>1, <1>3, <2>1
  <1>5. InHand' = InHand
    BY <1>2 DEF InHand
  <1>6. CASE Len(queue) < QueueMax
    <2>1. queue' = Append(queue, k) /\ dropped' = dropped
      BY <1>6 DEF WatchLine
    <2>2. Queued' = Queued \cup {k} /\ Ascending(queue') /\ Len(queue') = Len(queue) + 1
      BY <1>1, <1>3, <1>4, <2>1, QueueTakes DEF RunOK, TakenUp
    <2> QED BY <1>1, <1>2, <1>3, <1>4, <1>5, <1>6, <2>1, <2>2
  <1>7. CASE ~(Len(queue) < QueueMax)
    <2>1. queue' = queue /\ dropped' = dropped \cup {k}
      BY <1>7 DEF WatchLine
    <2>2. Queued' = Queued
      BY <2>1 DEF Queued
    <2> QED BY <1>1, <1>2, <1>3, <1>4, <1>5, <2>1, <2>2
  <1> QED BY <1>6, <1>7

\* A worker takes the first line of the queue into an empty hand.
LEMMA EventTaken ==
    ASSUME RInv, NEW w \in Workers, TakeEvent(w), NEW h, h = Head(queue)
    PROVE  /\ h \in Queued /\ h \notin InHand /\ \A j \in Queued : h <= j
           /\ Queued' = Queued \ {h} /\ InHand' = InHand \cup {h} /\ TakenUp' = TakenUp
           /\ ev[w] = 0 /\ Len(queue') <= Len(queue)
           /\ Ascending(queue') /\ IdleHands' /\ HandsApart'
           /\ UNCHANGED <<log, half, watcher, cursor, saved, done, dropped, torn, crashes, faults>>
  <1>1. TInv /\ RunOK
    BY DEF RInv
  <1>2. /\ queue # <<>> /\ queue' = Tail(queue) /\ ev' = [ev EXCEPT ![w] = h] /\ pc[w] = "idle"
        /\ UNCHANGED <<log, half, watcher, cursor, saved, done, dropped, torn, crashes, faults>>
    BY DEF TakeEvent, file, tail, env, history
  <1>3. \E p \in ControlPoints \ {"idle"} : pc' = [pc EXCEPT ![w] = p]
    BY DEF TakeEvent, Goto, ControlPoints
  <1>4. /\ h \in Queued /\ \A j \in Queued : h <= j
        /\ Queued' = Queued \ {h} /\ Ascending(queue') /\ Len(queue') = Len(queue) - 1
    BY <1>1, <1>2, QueueGives DEF RunOK
  <1>5. h \in Nat \ {0} /\ h \notin InHand
    BY <1>1, <1>4, PlacesOfLines DEF RunOK, TakenUp
  <1>6. InHand' = InHand \cup {h} /\ IdleHands' /\ HandsApart'
    <2>1. IdleHands /\ HandsApart
      BY <1>1 DEF RunOK
    <2> QED BY <1>1, <1>2, <1>3, <1>5, <2>1, HandTakes
  <1>7. TakenUp' = TakenUp
    BY <1>4, <1>6 DEF TakenUp
  <1>8. ev[w] = 0 /\ Len(queue) - 1 <= Len(queue)
    BY <1>1, <1>2, PlacesOfLines DEF RunOK, IdleHands
  <1> QED BY <1>2, <1>4, <1>5, <1>6, <1>7, <1>8

\* A worker is through with the line in its hand.
LEMMA EventEnded ==
    ASSUME RInv, NEW w \in Workers, Ends(w), NEW e, e = ev[w]
    PROVE  /\ e \in InHand /\ InHand' = InHand \ {e} /\ Queued' = Queued
           /\ TakenUp' = TakenUp \ {e} /\ done' = done \cup {e}
           /\ IdleHands' /\ HandsApart' /\ UNCHANGED Elsewhere /\ MoreFaults
  <1>1. TInv /\ IdleHands /\ HandsApart /\ Queued \cap InHand = {}
    BY DEF RInv, RunOK
  <1>2. /\ e \in InHand /\ InHand' = InHand \ {e} /\ IdleHands' /\ HandsApart'
    BY <1>1, HandEnds
  <1>3. done' = done \cup {e} /\ UNCHANGED Elsewhere /\ MoreFaults
    BY DEF Ends
  <1>4. Queued' = Queued
    BY <1>3 DEF Elsewhere, Queued
  <1> QED BY <1>1, <1>2, <1>3, <1>4 DEF TakenUp

\* After a crash nothing is taken up.
LEMMA NothingTakenUp ==
    ASSUME Crash
    PROVE  /\ Queued' = {} /\ InHand' = {} /\ TakenUp' = {}
           /\ IdleHands' /\ HandsApart' /\ Ascending(queue')
           /\ watcher' = "closed" /\ cursor' = 0 /\ crashes' = crashes + 1 /\ Len(queue') = 0
           /\ UNCHANGED <<log, half, saved, done, dropped, torn, faults>>
  <1>1. queue' = <<>> /\ Len(queue') = 0 /\ Queued' = {} /\ Ascending(queue')
    BY EmptySeq DEF Crash, Queued, Ascending
  <1>2. InHand' = {} /\ IdleHands' /\ HandsApart'
    BY DEF Crash, InHand, IdleHands, HandsApart
  <1> QED BY <1>1, <1>2 DEF Crash, TakenUp, file, history

LEMMA InitRInv == Init => RInv
  <1> SUFFICES ASSUME Init PROVE RInv
    OBVIOUS
  <1>1. IdleHands /\ HandsApart /\ InHand = {}
    BY DEF Init, IdleHands, HandsApart, InHand
  <1>2. Queued = {} /\ Ascending(queue)
    BY EmptySeq DEF Init, Queued, Ascending
  <1> QED BY <1>1, <1>2, InitTInv DEF RInv, RunOK, TakenUp, Init

LEMMA StepRInv == RInv /\ [Next]_vars => RInv'
  <1> SUFFICES ASSUME RInv, [Next]_vars PROVE RInv'
    OBVIOUS
  <1>t. TInv /\ TInv' /\ RunOK /\ TakenUp \subseteq Nat \ {0} /\ cursor \in Nat /\ saved \in Nat
    BY StepTInv, PlacesOfLines DEF RInv, TInv, TypeOK, FileOK
  <1>1. CASE WatchLine
    <2> DEFINE k == cursor \div 2 + 1
    <2>1. k = cursor \div 2 + 1
      OBVIOUS
    <2> HIDE DEF k
    <2>2. /\ k \in Nat /\ 2 * k = cursor + 2 /\ k \notin TakenUp
          /\ cursor' = cursor + 2 /\ watcher' = "save" /\ UNCHANGED <<pc, ev>>
          /\ InHand' = InHand /\ Ascending(queue')
          /\ Queued' = Queued \/ Queued' = Queued \cup {k}
      BY <1>t, <1>1, <2>1, LineTakenUp, PlacesOfLines DEF RunOK
    <2>3. IdleHands' /\ HandsApart' /\ Queued' \cap InHand' = {}
      BY <1>t, <2>2 DEF RunOK, IdleHands, HandsApart, TakenUp
    <2>4. \A j \in TakenUp' : 2 * j <= cursor'
      <3>1. \A j \in TakenUp : j \in Nat /\ 2 * j <= cursor
        BY <1>t DEF RunOK
      <3>2. TakenUp' \subseteq TakenUp \cup {k}
        BY <2>2 DEF TakenUp
      <3> QED BY <1>t, <2>2, <3>1, <3>2
    <2> QED BY <1>t, <2>2, <2>3, <2>4 DEF RInv, RunOK
  <1>2. ASSUME UNCHANGED <<queue, pc, ev>>, cursor' \in Nat, cursor <= cursor' \/ TakenUp = {},
               watcher' = "closed" => cursor' = 0
        PROVE  RInv'
    <2>1. Queued' = Queued /\ InHand' = InHand /\ TakenUp' = TakenUp
      BY <1>2 DEF Queued, InHand, TakenUp
    <2>2. \A k \in TakenUp' : 2 * k <= cursor'
      <3>1. \A k \in TakenUp : k \in Nat /\ 2 * k <= cursor
        BY <1>t DEF RunOK
      <3> QED BY <1>t, <1>2, <2>1, <3>1
    <2>3. IdleHands' /\ HandsApart' /\ Ascending(queue')
      BY <1>t, <1>2 DEF RunOK, IdleHands, HandsApart
    <2> QED BY <1>t, <1>2, <2>1, <2>2, <2>3 DEF RInv, RunOK
  <1>3. CASE Writing \/ Aside \/ WatchTorn \/ WatchSave \/ SavedExpires
    <2>1. UNCHANGED <<queue, pc, ev>>
      BY <1>3 DEF Writing, Aside, Lines, WatchTorn, WatchSave, SavedExpires, thread
    <2>2. \/ cursor' = cursor /\ (watcher' = watcher \/ watcher' = "read")
          \/ cursor' = cursor + 1 /\ watcher' = "save"
      BY <1>3 DEF Writing, Aside, Lines, WatchTorn, WatchSave, SavedExpires
    <2> QED BY <1>t, <1>2, <2>1, <2>2 DEF RunOK
  <1>4. CASE WatchOpen
    <2>1. /\ UNCHANGED <<queue, pc, ev>> /\ cursor' \in {saved, 0} /\ watcher = "closed"
          /\ watcher' = "read"
      BY <1>4 DEF WatchOpen, thread
    <2>2. cursor = 0
      BY <1>t, <2>1 DEF RunOK
    <2> QED BY <1>t, <1>2, <2>1, <2>2
  <1>5. CASE Taking
    <2> PICK w \in Workers : TakeEvent(w)
      BY <1>5 DEF Taking
    <2>1. /\ Queued' \subseteq Queued /\ TakenUp' = TakenUp /\ Queued' \cap InHand' = {}
          /\ Ascending(queue') /\ IdleHands' /\ HandsApart'
          /\ UNCHANGED <<watcher, cursor>>
      BY <1>t, EventTaken DEF RunOK
    <2> QED BY <1>t, <2>1 DEF RInv, RunOK
  <1>6. CASE Ending
    <2> PICK w \in Workers : Ends(w)
      BY <1>6 DEF Ending
    <2>1. /\ TakenUp' \subseteq TakenUp /\ Queued' \cap InHand' = {}
          /\ IdleHands' /\ HandsApart' /\ UNCHANGED <<watcher, cursor, queue>>
      BY <1>t, EventEnded DEF RunOK, Elsewhere
    <2> QED BY <1>t, <2>1 DEF RInv, RunOK
  <1>7. CASE Going
    <2> PICK w \in Workers : Goes(w)
      BY <1>7 DEF Going
    <2>1. /\ UNCHANGED <<watcher, cursor, queue, ev>> /\ pc[w] # "idle" /\ pc'[w] # "idle"
          /\ \A v \in Workers \ {w} : pc'[v] = pc[v]
      BY <1>t DEF Goes, Elsewhere, TInv, TypeOK, ThreadOK
    <2>2. IdleHands' /\ HandsApart' /\ Ascending(queue')
      BY <1>t, <2>1 DEF RunOK, IdleHands, HandsApart
    <2>3. Queued' = Queued /\ InHand' = InHand /\ TakenUp' = TakenUp
      BY <2>1 DEF Queued, InHand, TakenUp
    <2> QED BY <1>t, <2>1, <2>2, <2>3 DEF RInv, RunOK
  <1>8. CASE Crash
    BY <1>8, <1>t, NothingTakenUp DEF RInv, RunOK
  <1> QED BY <1>1, <1>3, <1>4, <1>5, <1>6, <1>7, <1>8, StepMoves DEF Positioning

\* The queue holds no more lines than it is long, and the hands no more than they are.
LEMMA QueuedSize ==
    ASSUME TInv
    PROVE  /\ IsFiniteSet(Queued) /\ Cardinality(Queued) \in Nat
           /\ Cardinality(Queued) <= Len(queue)
  <1> DEFINE f == [i \in 1..Len(queue) |-> queue[i]]
  <1>1. Len(queue) \in Nat
    BY PlacesOfLines
  <1>2. f \in Surjection(1..Len(queue), Queued)
    BY DEF Surjection, Queued
  <1>3. IsFiniteSet(1..Len(queue)) /\ Cardinality(1..Len(queue)) = Len(queue)
    <2>1. 1 \in Int /\ Len(queue) \in Int
      BY <1>1
    <2>2. /\ IsFiniteSet(1..Len(queue))
          /\ Cardinality(1..Len(queue)) = IF 1 > Len(queue) THEN 0 ELSE Len(queue) - 1 + 1
      BY <2>1, FS_Interval
    <2> QED BY <1>1, <2>2
  <1> HIDE DEF f
  <1> QED BY <1>2, <1>3, FS_Surjection, FS_CardinalityType

LEMMA InHandSize ==
    ASSUME NEW T \in SUBSET Workers, \A w \in Workers : ev[w] # 0 => w \in T
    PROVE  /\ IsFiniteSet(InHand) /\ Cardinality(InHand) \in Nat
           /\ Cardinality(InHand) <= Cardinality(T) /\ Cardinality(T) \in Nat
  <1> DEFINE B == {w \in T : ev[w] # 0}
             f == [w \in B |-> ev[w]]
  <1>1. f \in Surjection(B, InHand)
    BY DEF Surjection, InHand
  <1>2. IsFiniteSet(T) /\ Cardinality(T) \in Nat
    BY WorkersAssumption, FS_Subset, FS_CardinalityType
  <1>3. IsFiniteSet(B) /\ Cardinality(B) <= Cardinality(T) /\ Cardinality(B) \in Nat
    BY <1>2, FS_Subset, FS_CardinalityType
  <1> HIDE DEF f, B
  <1>4. IsFiniteSet(InHand) /\ Cardinality(InHand) <= Cardinality(B)
    BY <1>1, <1>3, FS_Surjection
  <1>5. Cardinality(InHand) \in Nat
    BY <1>4, FS_CardinalityType
  <1> QED BY <1>2, <1>3, <1>4, <1>5

(***************************************************************************)
(* What a crash may lose.  A line before the watcher's position is settled *)
(* or taken up, unless a crash lost it, and so is one before the saved     *)
(* position, which is ahead of the watcher while lines come round again:   *)
(* each crash loses at most what was taken up.                             *)
(***************************************************************************)
Position == IF saved <= cursor THEN cursor ELSE saved
Settled  == done \cup dropped \cup torn \cup TakenUp
LostAt(x) == {k \in 1..Len(log) : 2 * k <= x} \ Settled
Holds    == QueueMax + Cardinality(Workers)
LostOK ==
    /\ saved <= 2 * Len(log) /\ cursor <= 2 * Len(log)
    /\ Len(queue) <= QueueMax
    /\ Cardinality(LostAt(Position)) <= crashes * Holds
LInv == RInv /\ LostOK

LEMMA LostFinite ==
    ASSUME TInv, NEW x
    PROVE  IsFiniteSet(LostAt(x)) /\ Cardinality(LostAt(x)) \in Nat
  <1>1. IsFiniteSet(1..Len(log))
    BY PlacesOfLines, FS_Interval
  <1>2. LostAt(x) \subseteq 1..Len(log)
    BY DEF LostAt
  <1>3. IsFiniteSet(LostAt(x))
    BY <1>1, <1>2, FS_Subset
  <1> QED BY <1>3, FS_CardinalityType

LEMMA HoldsType == Holds \in Nat /\ QueueMax \in Nat /\ Cardinality(Workers) \in Nat
  <1>1. QueueMax \in Nat /\ Cardinality(Workers) \in Nat
    BY BoundsAssumption, WorkersAssumption, FS_CardinalityType
  <1> QED BY <1>1 DEF Holds

\* A step that passes no line without settling it or taking it up loses none.
LEMMA NothingLost ==
    ASSUME LInv, TInv', crashes' = crashes, Settled \subseteq Settled',
           \A k \in 1..Len(log') : 2 * k <= Position' =>
               k \in Settled' \/ (k \in 1..Len(log) /\ 2 * k <= Position)
    PROVE  Cardinality(LostAt(Position)') <= crashes' * Holds
  <1>1. LostAt(Position)' \subseteq LostAt(Position)
    BY DEF LostAt
  <1>2. IsFiniteSet(LostAt(Position)) /\ Cardinality(LostAt(Position)) \in Nat
    BY LostFinite DEF LInv, RInv
  <1>3. /\ Cardinality(LostAt(Position)') <= Cardinality(LostAt(Position))
        /\ Cardinality(LostAt(Position)') \in Nat
    BY <1>1, <1>2, FS_Subset, FS_CardinalityType
  <1>4. Cardinality(LostAt(Position)) <= crashes * Holds
    BY DEF LInv, LostOK
  <1>5. crashes * Holds \in Nat
    <2>1. \A a, b \in Nat : a * b \in Nat
      OBVIOUS
    <2>2. crashes \in Nat
      BY DEF LInv, RInv, TInv, TypeOK, OtherOK
    <2> QED BY <2>1, <2>2, HoldsType
  <1>6. Cardinality(LostAt(Position)') <= crashes * Holds
    BY <1>2, <1>3, <1>4, <1>5
  <1> QED BY <1>6

LEMMA CrashLosesTakenUp ==
    ASSUME LInv, Crash, TInv'
    PROVE  Cardinality(LostAt(Position)') <= crashes' * Holds
  <1>t. TInv /\ RunOK /\ LostOK
    BY DEF LInv, RInv
  <1>1. /\ TakenUp' = {} /\ cursor' = 0 /\ crashes' = crashes + 1
        /\ UNCHANGED <<log, saved, done, dropped, torn>>
    BY NothingTakenUp
  <1>2. saved \in Nat /\ cursor \in Nat /\ Len(log) \in Nat /\ crashes \in Nat
    BY <1>t, PlacesOfLines DEF TInv, TypeOK, FileOK, OtherOK
  <1>3. Position' = saved /\ saved <= Position /\ Position \in Nat
    BY <1>t, <1>1, <1>2 DEF Position, LostOK
  <1>4. LostAt(Position)' \subseteq LostAt(Position) \cup TakenUp
    <2>1. \A k \in 1..Len(log) : 2 * k <= saved => 2 * k <= Position
      BY <1>2, <1>3
    <2>2. LostAt(Position)' = {k \in 1..Len(log) : 2 * k <= saved} \ (done \cup dropped \cup torn)
      BY <1>1, <1>3 DEF LostAt, Settled
    <2> QED BY <2>1, <2>2 DEF LostAt, Settled
  <1>5. /\ IsFiniteSet(TakenUp) /\ Cardinality(TakenUp) \in Nat
        /\ Cardinality(TakenUp) <= Holds
    <2>1. /\ IsFiniteSet(Queued) /\ Cardinality(Queued) \in Nat
          /\ Cardinality(Queued) <= Len(queue) /\ Len(queue) \in Nat
      BY <1>t, QueuedSize, PlacesOfLines
    <2>2. /\ IsFiniteSet(InHand) /\ Cardinality(InHand) \in Nat
          /\ Cardinality(InHand) <= Cardinality(Workers)
      BY InHandSize
    <2>3. Queued \cap InHand = {} /\ Len(queue) <= QueueMax
      BY <1>t DEF RunOK, LostOK
    <2>4. Cardinality(Queued \cap InHand) = 0
      BY <2>3, FS_EmptySet
    <2>5. IsFiniteSet(TakenUp) /\ Cardinality(TakenUp) = Cardinality(Queued) + Cardinality(InHand)
      <3>1. /\ IsFiniteSet(Queued \cup InHand)
            /\ Cardinality(Queued \cup InHand)
                 = Cardinality(Queued) + Cardinality(InHand) - Cardinality(Queued \cap InHand)
        BY <2>1, <2>2, FS_Union
      <3>2. Queued \cup InHand = TakenUp
        BY DEF TakenUp
      <3>3. /\ IsFiniteSet(TakenUp)
            /\ Cardinality(TakenUp) = Cardinality(Queued) + Cardinality(InHand) - 0
        BY <2>4, <3>1, <3>2
      <3> HIDE DEF TakenUp, Queued, InHand
      <3> QED BY <2>1, <2>2, <3>3
    <2> QED BY <2>1, <2>2, <2>3, <2>5, HoldsType DEF Holds
  <1>6. /\ IsFiniteSet(LostAt(Position)) /\ Cardinality(LostAt(Position)) \in Nat
        /\ Cardinality(LostAt(Position)) <= crashes * Holds
    BY <1>t, LostFinite DEF LostOK
  <1>7. /\ IsFiniteSet(LostAt(Position) \cup TakenUp)
        /\ Cardinality(LostAt(Position) \cup TakenUp)
             <= Cardinality(LostAt(Position)) + Cardinality(TakenUp)
        /\ Cardinality(LostAt(Position) \cup TakenUp) \in Nat
    <2>1. LostAt(Position) \cap TakenUp = {}
      BY DEF LostAt, Settled
    <2>2. Cardinality(LostAt(Position) \cap TakenUp) = 0
      BY <2>1, FS_EmptySet
    <2>3. /\ IsFiniteSet(LostAt(Position) \cup TakenUp)
          /\ Cardinality(LostAt(Position) \cup TakenUp)
               = Cardinality(LostAt(Position)) + Cardinality(TakenUp)
                 - Cardinality(LostAt(Position) \cap TakenUp)
      BY <1>5, <1>6, FS_Union
    <2> QED BY <1>5, <1>6, <2>1, <2>2, <2>3
  <1>8. /\ Cardinality(LostAt(Position)') <= Cardinality(LostAt(Position) \cup TakenUp)
        /\ Cardinality(LostAt(Position)') \in Nat
    BY <1>4, <1>7, FS_Subset, FS_CardinalityType
  <1>9. crashes * Holds \in Nat /\ (crashes + 1) * Holds = crashes * Holds + Holds
    <2>1. \A a, b \in Nat : a * b \in Nat /\ (a + 1) * b = a * b + b
      OBVIOUS
    <2> QED BY <1>2, <2>1, HoldsType
  <1>10. Cardinality(LostAt(Position)') <= (crashes + 1) * Holds
    BY <1>5, <1>6, <1>7, <1>8, <1>9, HoldsType
  <1> QED BY <1>1, <1>10

\* The watcher's part of LostOK, which no other step touches.
LEMMA StepLInv == LInv /\ [Next]_vars => LInv'
  <1> SUFFICES ASSUME LInv, [Next]_vars PROVE LInv'
    OBVIOUS
  <1>t. /\ RInv /\ RInv' /\ TInv /\ TInv' /\ RunOK /\ LostOK
        /\ cursor \in Nat /\ saved \in Nat /\ Len(log) \in Nat /\ Len(queue) \in Nat
    BY StepRInv, PlacesOfLines DEF LInv, RInv, TInv, TypeOK, FileOK
  \* What is left to show of a step that is not a crash.
  <1>1. ASSUME crashes' = crashes, Settled \subseteq Settled',
               saved' <= 2 * Len(log') /\ cursor' <= 2 * Len(log'),
               Len(queue') <= QueueMax,
               \A k \in 1..Len(log') : 2 * k <= Position' =>
                   k \in Settled' \/ (k \in 1..Len(log) /\ 2 * k <= Position)
        PROVE  LInv'
    <2>1. Cardinality(LostAt(Position)') <= crashes' * Holds
      BY <1>1, <1>t, NothingLost
    <2> QED BY <1>1, <1>t, <2>1 DEF LInv, LostOK, Holds
  <1>2. CASE WatchLine
    <2> DEFINE k == cursor \div 2 + 1
    <2>1. k = cursor \div 2 + 1
      OBVIOUS
    <2> HIDE DEF k
    <2>2. /\ k \in 1..Len(log) /\ 2 * k = cursor + 2
          /\ cursor' = cursor + 2 /\ watcher = "read" /\ watcher' = "save"
          /\ UNCHANGED <<log, saved, done, torn, crashes>> /\ InHand' = InHand
          /\ \/ /\ Len(queue) < QueueMax /\ Len(queue') = Len(queue) + 1
                /\ Queued' = Queued \cup {k} /\ dropped' = dropped
             \/ Queued' = Queued /\ queue' = queue /\ dropped' = dropped \cup {k}
      BY <1>2, <1>t, <2>1, LineTakenUp
    <2>3. Settled' = Settled \cup {k}
      BY <2>2 DEF Settled, TakenUp
    <2>4. Len(queue') <= QueueMax
      BY <1>t, <2>2, HoldsType DEF LostOK
    <2>5. \A j \in 1..Len(log) : 2 * j <= cursor + 2 => j = k \/ 2 * j <= cursor
      BY <1>t, <2>2
    <2>6. \A j \in 1..Len(log) : 2 * j <= Position' => j = k \/ 2 * j <= Position
      BY <1>t, <2>2, <2>5 DEF Position
    <2>7. saved' <= 2 * Len(log') /\ cursor' <= 2 * Len(log')
      BY <1>t, <2>2 DEF LostOK
    <2> QED BY <1>1, <2>2, <2>3, <2>4, <2>5, <2>6, <2>7
  <1>3. CASE WatchTorn
    <2> DEFINE k == cursor \div 2 + 1
    <2>1. /\ k \in 1..Len(log) /\ cursor + 1 <= 2 * k /\ 2 * k <= cursor + 2
          /\ UNCHANGED <<log, saved, queue, done, dropped, ev, crashes>> /\ torn' = torn \cup {k}
          /\ cursor' = cursor + 1 /\ watcher = "read" /\ watcher' = "save"
      <3>1. /\ k <= Len(log)
            /\ UNCHANGED <<log, saved, queue, done, dropped, ev, crashes>> /\ torn' = torn \cup {k}
            /\ cursor' = cursor + 1 /\ watcher = "read" /\ watcher' = "save"
        BY <1>3 DEF WatchTorn, file, thread, env
      <3>2. cursor + 1 <= 2 * k /\ 2 * k <= cursor + 2 /\ k \in Nat /\ k >= 1
        BY <1>t, Halves
      <3> HIDE DEF k
      <3> QED BY <1>t, <3>1, <3>2
    <2> HIDE DEF k
    <2>2. Settled' = Settled \cup {k} /\ Len(queue') <= QueueMax
      BY <1>t, <2>1 DEF Settled, TakenUp, Queued, InHand, LostOK
    <2>3. \A j \in 1..Len(log) : 2 * j <= cursor + 1 => j = k \/ 2 * j <= cursor
      BY <1>t, <2>1
    <2>4. \A j \in 1..Len(log) : 2 * j <= Position' => j = k \/ 2 * j <= Position
      BY <1>t, <2>1, <2>3 DEF Position
    <2>5. saved' <= 2 * Len(log') /\ cursor' <= 2 * Len(log')
      BY <1>t, <2>1 DEF LostOK
    <2> QED BY <1>1, <2>1, <2>2, <2>3, <2>4, <2>5
  <1>4. CASE Positioning
    <2>1. /\ UNCHANGED <<log, queue, done, dropped, torn, ev, crashes>>
          /\ cursor' \in {cursor, saved, 0} /\ saved' \in {saved, cursor, 0}
      BY <1>4 DEF Positioning, WatchOpen, WatchSave, SavedExpires, file, thread, history
    <2>2. Settled' = Settled /\ Len(queue') <= QueueMax
      BY <1>t, <2>1 DEF Settled, TakenUp, Queued, InHand, LostOK
    <2>3. Position' <= Position /\ Position \in Nat /\ Position' \in Nat
      BY <1>t, <2>1 DEF Position
    <2>4. saved' <= 2 * Len(log') /\ cursor' <= 2 * Len(log')
      BY <1>t, <2>1 DEF LostOK
    <2>5. \A k \in 1..Len(log) : 2 * k <= Position' => 2 * k <= Position
      BY <1>t, <2>3
    <2> QED BY <1>1, <2>1, <2>2, <2>4, <2>5
  <1>5. CASE Writing
    <2>1. /\ UNCHANGED Lines /\ Len(log') = Len(log) + 1
      BY <1>t, <1>5 DEF Writing, HoneypotWrite, TInv, TypeOK, FileOK
    <2>2. Settled' = Settled /\ Position' = Position /\ crashes' = crashes
      BY <2>1 DEF Lines, Settled, TakenUp, Queued, InHand, Position
    <2>3. Position \in Nat /\ Position <= 2 * Len(log)
      BY <1>t DEF Position, LostOK
    <2>4. \A k \in 1..Len(log') : 2 * k <= Position => k \in 1..Len(log)
      BY <1>t, <2>1, <2>3
    <2>5. /\ saved' <= 2 * Len(log') /\ cursor' <= 2 * Len(log') /\ Len(queue') <= QueueMax
      BY <1>t, <2>1 DEF Lines, LostOK
    <2> QED BY <1>1, <2>2, <2>4, <2>5
  <1>6. ASSUME UNCHANGED <<log, watcher, cursor, saved, crashes>>, Settled \subseteq Settled',
               Len(queue') <= QueueMax
        PROVE  LInv'
    <2>1. Position' = Position
      BY <1>6 DEF Position
    <2> QED BY <1>1, <1>6, <1>t, <2>1 DEF LostOK
  <1>7. CASE Aside \/ Going
    <2>1. UNCHANGED <<log, watcher, cursor, saved, queue, ev, done, dropped, torn, crashes>>
      BY <1>7 DEF Aside, Going, Goes, Lines, Elsewhere
    <2>2. Settled' = Settled
      BY <2>1 DEF Settled, TakenUp, Queued, InHand
    <2> QED BY <1>6, <1>t, <2>1, <2>2 DEF LostOK
  <1>8. CASE Taking
    <2> PICK w \in Workers : TakeEvent(w)
      BY <1>8 DEF Taking
    <2>1. /\ UNCHANGED <<log, watcher, cursor, saved, done, dropped, torn, crashes>>
          /\ TakenUp' = TakenUp /\ Len(queue') <= Len(queue)
      BY <1>t, EventTaken
    <2>2. Len(queue') <= QueueMax
      BY <1>t, <2>1, PlacesOfLines, HoldsType DEF LostOK
    <2> QED BY <1>6, <2>1, <2>2 DEF Settled
  <1>9. CASE Ending
    <2> PICK w \in Workers : Ends(w)
      BY <1>9 DEF Ending
    <2>1. /\ UNCHANGED Elsewhere /\ TakenUp' = TakenUp \ {ev[w]} /\ done' = done \cup {ev[w]}
      BY <1>t, EventEnded
    <2>2. Settled \subseteq Settled' /\ Len(queue') <= QueueMax
      BY <1>t, <2>1 DEF Settled, Elsewhere, LostOK
    <2> QED BY <1>6, <2>1, <2>2 DEF Elsewhere
  <1>10. CASE Crash
    <2>1. /\ watcher' = "closed" /\ cursor' = 0 /\ Len(queue') = 0
          /\ UNCHANGED <<log, saved>>
      BY <1>10, NothingTakenUp
    <2>2. Cardinality(LostAt(Position)') <= crashes' * Holds
      BY <1>10, <1>t, CrashLosesTakenUp
    <2>3. LostOK'
      BY <1>t, <2>1, <2>2, HoldsType DEF LostOK, Holds
    <2> QED BY <1>t, <2>3 DEF LInv
  <1> QED BY <1>2, <1>3, <1>4, <1>5, <1>7, <1>8, <1>9, <1>10, StepMoves

(***************************************************************************)
(* What may come round again.  With no save failed, at most one line that  *)
(* was handled lies behind the saved position, the one right behind it,    *)
(* and the watcher gets to it only when nothing else is taken up.          *)
(***************************************************************************)
Again     == {k \in done : 2 * k > saved}
Inside(x) == (x % 2) = 1   \* the position x is in the middle of a line
Here(x)   == x \div 2 + 1  \* the line that begins at, or is cut by, position x
Touched   == done \cup TakenUp
BehindSave ==
    /\ watcher = "read" => saved = cursor /\ (Again # {} => TakenUp = {})
    /\ watcher = "save" => cursor = saved + 1 \/ cursor = saved + 2
    /\ \A k \in TakenUp : 2 * k <= saved \/ (watcher = "save" /\ 2 * k = cursor)
CutLines ==
    /\ \A k \in Touched : Complete(k)
    /\ Inside(saved) => Here(saved) \notin Touched
    /\ Inside(cursor) => Here(cursor) \notin Touched
OneAgain ==
    /\ \A k \in Again : k = Here(saved)
    /\ \A j, k \in done \cap TakenUp : j = k
AgainOK == BehindSave /\ CutLines /\ OneAgain
AInv == RInv /\ (faults = 0 => AgainOK)

LEMMA Positions ==
    ASSUME NEW x \in Nat
    PROVE  /\ Here(x) \in Nat
           /\ Inside(x) => x = 2 * Here(x) - 1
           /\ ~Inside(x) => x = 2 * Here(x) - 2
           /\ ~Inside(x) => Inside(x + 1) /\ Here(x + 1) = Here(x)
           /\ Inside(x) => ~Inside(x + 1)
           /\ ~Inside(x) => ~Inside(x + 2)
  BY Halves DEF Inside, Here

LEMMA LineAgain ==
    ASSUME RInv, AgainOK, WatchLine PROVE AgainOK'
  <1> DEFINE k == cursor \div 2 + 1
  <1>0. k = cursor \div 2 + 1
    OBVIOUS
  <1> HIDE DEF k
  <1>1. /\ Complete(k) /\ 2 * k = cursor + 2 /\ k \in Nat /\ cursor \in Nat
        /\ cursor' = cursor + 2 /\ watcher = "read" /\ watcher' = "save"
        /\ UNCHANGED <<log, half, saved, done>> /\ InHand' = InHand
        /\ Queued' = Queued \/ Queued' = Queued \cup {k}
    BY <1>0, LineTakenUp, PlacesOfLines DEF RInv, TInv, TypeOK, FileOK
  <1>2. TakenUp' \subseteq TakenUp \cup {k} /\ TakenUp \subseteq TakenUp' /\ TakenUp \subseteq Nat
    BY <1>1, PlacesOfLines DEF TakenUp, RInv
  <1>3. saved = cursor /\ (Again # {} => TakenUp = {}) /\ Again' = Again
    BY <1>1 DEF AgainOK, BehindSave, Again
  <1>4. ~Inside(cursor) /\ ~Inside(cursor')
    <2>1. ~Inside(cursor)
      BY DEF WatchLine, Inside
    <2> QED BY <1>1, <2>1, Positions
  <1>5. \A j \in TakenUp : 2 * j <= saved
    BY <1>1 DEF AgainOK, BehindSave
  <1>6. BehindSave'
    BY <1>1, <1>2, <1>3, <1>5 DEF BehindSave
  <1>7. CutLines'
    BY <1>1, <1>2, <1>3, <1>4 DEF AgainOK, CutLines, Touched, Complete
  <1>8. ASSUME NEW i, NEW j, i \in (done \cap TakenUp)', j \in (done \cap TakenUp)' PROVE i = j
    <2>1. CASE k \in done
      <3>1. k \in Again
        BY <1>1, <1>3, <2>1 DEF Again
      <3> QED BY <1>2, <1>3, <1>8, <3>1
    <2>2. CASE k \notin done
      BY <1>1, <1>2, <1>8, <2>2 DEF AgainOK, OneAgain
    <2> QED BY <2>1, <2>2
  <1>9. \A j \in Again' : j = Here(saved)'
    BY <1>1, <1>3 DEF AgainOK, OneAgain
  <1>10. OneAgain'
    BY <1>8, <1>9 DEF OneAgain
  <1> QED BY <1>6, <1>7, <1>10 DEF AgainOK

LEMMA TornAgain ==
    ASSUME RInv, AgainOK, WatchTorn PROVE AgainOK'
  <1>1. /\ cursor' = cursor + 1 /\ watcher = "read" /\ watcher' = "save" /\ cursor \in Nat
        /\ UNCHANGED <<log, half, saved, done, queue, ev>>
    BY DEF WatchTorn, RInv, TInv, TypeOK, FileOK, file, thread
  <1>2. TakenUp' = TakenUp /\ Again' = Again /\ Touched' = Touched
    BY <1>1 DEF TakenUp, Queued, InHand, Again, Touched
  <1>3. BehindSave'
    BY <1>1, <1>2 DEF AgainOK, BehindSave
  <1>4. Inside(cursor') => Here(cursor') \notin Touched
    <2> SUFFICES ASSUME Inside(cursor') PROVE Here(cursor') \notin Touched
      OBVIOUS
    <2>1. ~Inside(cursor) /\ Here(cursor') = Here(cursor)
      BY <1>1, Positions
    <2>2. cursor % 2 = 0
      BY <1>1, <2>1, Halves DEF Inside
    <2>3. ~Complete(Here(cursor))
      BY <2>2 DEF WatchTorn, Here
    <2> QED BY <2>1, <2>3 DEF AgainOK, CutLines
  <1>5. CutLines' /\ OneAgain'
    BY <1>1, <1>2, <1>4 DEF AgainOK, CutLines, OneAgain, Complete, Inside, Here
  <1> QED BY <1>3, <1>5 DEF AgainOK

\* A saved position leaves no handled line behind it.
LEMMA SaveAgain ==
    ASSUME RInv, AgainOK, WatchSave, saved' = cursor PROVE AgainOK'
  <1>1. /\ watcher = "save" /\ watcher' = "read" /\ cursor \in Nat /\ saved \in Nat
        /\ UNCHANGED <<log, half, cursor, done, queue, ev>>
    BY DEF WatchSave, RInv, TInv, TypeOK, FileOK, file, thread, history
  <1>2. TakenUp' = TakenUp /\ Touched' = Touched
    BY <1>1 DEF TakenUp, Queued, InHand, Touched
  <1>3. Again' = {}
    <2> SUFFICES ASSUME NEW k \in done, 2 * k > cursor PROVE FALSE
      BY <1>1 DEF Again
    <2>0. k \in Nat
      BY DEF RInv, TInv, TypeOK, HistoryOK
    <2>1. cursor = saved + 1 \/ cursor = saved + 2
      BY <1>1 DEF AgainOK, BehindSave
    <2>2. k \in Again
      BY <1>1, <2>0, <2>1 DEF Again
    <2>3. k = Here(saved) /\ k \in Touched
      BY <2>2 DEF AgainOK, OneAgain, Touched
    <2>4. ~Inside(saved)
      BY <2>3 DEF AgainOK, CutLines
    <2>5. saved = 2 * k - 2
      BY <1>1, <2>3, <2>4, Positions
    <2>6. cursor = saved + 1
      BY <1>1, <2>0, <2>1, <2>5
    <2>7. Inside(cursor) /\ Here(cursor) = k
      BY <1>1, <2>3, <2>4, <2>6, Positions
    <2> QED BY <2>3, <2>7 DEF AgainOK, CutLines
  <1>4. \A k \in TakenUp : 2 * k <= cursor
    BY DEF RInv, RunOK
  <1>5. BehindSave'
    BY <1>1, <1>2, <1>3, <1>4 DEF BehindSave
  <1>6. CutLines'
    BY <1>1, <1>2 DEF AgainOK, CutLines, Complete, Inside, Here
  <1>7. OneAgain'
    BY <1>1, <1>2, <1>3 DEF AgainOK, OneAgain
  <1> QED BY <1>5, <1>6, <1>7 DEF AgainOK

LEMMA OpenAgain ==
    ASSUME RInv, AgainOK, WatchOpen, cursor' = saved PROVE AgainOK'
  <1>1. /\ watcher = "closed" /\ watcher' = "read" /\ cursor' = saved
        /\ UNCHANGED <<log, half, saved, done, queue, ev>>
    BY DEF WatchOpen, file, thread, history
  <1>2. TakenUp' = TakenUp /\ Again' = Again /\ Touched' = Touched
    BY <1>1 DEF TakenUp, Queued, InHand, Again, Touched
  <1>3. TakenUp = {}
    <2>1. TakenUp \subseteq Nat \ {0} /\ cursor = 0 /\ \A k \in TakenUp : 2 * k <= cursor
      BY <1>1, PlacesOfLines DEF RInv, RunOK
    <2> QED BY <2>1
  <1>4. BehindSave'
    BY <1>1, <1>2, <1>3 DEF BehindSave
  <1>5. CutLines' /\ OneAgain'
    BY <1>1, <1>2, <1>3 DEF AgainOK, CutLines, OneAgain, Complete, Inside, Here
  <1> QED BY <1>4, <1>5 DEF AgainOK

\* The handled line is behind the saved position only if it is the last one taken up.
LEMMA EndAgain ==
    ASSUME RInv, AgainOK, NEW w \in Workers, Ends(w) PROVE AgainOK'
  <1> DEFINE e == ev[w]
  <1>1. /\ e \in TakenUp /\ TakenUp' = TakenUp \ {e} /\ done' = done \cup {e} /\ e \in Nat
        /\ UNCHANGED <<log, half, watcher, cursor, saved>> /\ cursor \in Nat /\ saved \in Nat
    BY EventEnded, PlacesOfLines DEF RInv, Elsewhere, TakenUp, TInv, TypeOK, FileOK
  <1> HIDE DEF e
  <1>2. Touched' = Touched /\ e \in Touched
    BY <1>1 DEF Touched
  <1>3. 2 * e <= saved \/ (watcher = "save" /\ 2 * e = cursor)
    BY <1>1 DEF AgainOK, BehindSave
  <1>4. 2 * e <= saved => Again' = Again
    BY <1>1 DEF Again
  <1>5. 2 * e > saved => e = Here(saved)
    <2> SUFFICES ASSUME 2 * e > saved PROVE e = Here(saved)
      OBVIOUS
    <2>1. watcher = "save" /\ 2 * e = cursor
      BY <1>1, <1>3
    <2>2. cursor = saved + 1 \/ cursor = saved + 2
      BY <2>1 DEF AgainOK, BehindSave
    <2>3. CASE Inside(saved)
      <3>1. saved = 2 * Here(saved) - 1 /\ Here(saved) \in Nat /\ Here(saved) \notin Touched
        BY <1>1, <2>3, Positions DEF AgainOK, CutLines
      <3>2. e = Here(saved)
        BY <1>1, <2>1, <2>2, <3>1
      <3> QED BY <3>2
    <2>4. CASE ~Inside(saved)
      <3>1. saved = 2 * Here(saved) - 2 /\ Here(saved) \in Nat
        BY <1>1, <2>4, Positions
      <3> QED BY <1>1, <2>1, <2>2, <3>1
    <2> QED BY <2>3, <2>4
  <1>6. BehindSave'
    <2>1. watcher = "read" => Again' = {}
      BY <1>1, <1>3, <1>4 DEF AgainOK, BehindSave
    <2> QED BY <1>1, <2>1 DEF AgainOK, BehindSave
  <1>7. CutLines'
    BY <1>1, <1>2 DEF AgainOK, CutLines, Complete, Inside, Here
  <1>8. \A k \in Again' : k = Here(saved)
    BY <1>1, <1>5 DEF AgainOK, OneAgain, Again
  <1>9. (done \cap TakenUp)' \subseteq done \cap TakenUp
    BY <1>1
  <1>10. OneAgain'
    BY <1>1, <1>8, <1>9 DEF AgainOK, OneAgain, Here
  <1> QED BY <1>6, <1>7, <1>10 DEF AgainOK

LEMMA StepAInv == AInv /\ [Next]_vars => AInv'
  <1> SUFFICES ASSUME AInv, [Next]_vars PROVE AInv'
    OBVIOUS
  <1>t. /\ RInv /\ RInv' /\ TInv /\ RunOK /\ faults \in Nat
        /\ cursor \in Nat /\ saved \in Nat /\ Len(log) \in Nat
    BY StepRInv, PlacesOfLines DEF AInv, RInv, TInv, TypeOK, FileOK, OtherOK
  <1>1. SUFFICES ASSUME faults' = 0 PROVE AgainOK'
    BY <1>t DEF AInv
  <1>2. ASSUME faults = 0 PROVE AgainOK
    BY <1>2 DEF AInv
  \* Steps that move no line and no position.
  <1>3. ASSUME UNCHANGED <<watcher, cursor, saved, done, faults>>, TakenUp' = TakenUp,
               \A k \in 1..Len(log) : Complete(k) => Complete(k)'
        PROVE  AgainOK'
    <2>1. AgainOK
      BY <1>1, <1>2, <1>3
    <2>2. Touched \subseteq 1..Len(log)
      BY <1>t, PlacesOfLines DEF Touched, TInv, TypeOK, HistoryOK
    <2>3. Again' = Again /\ Touched' = Touched
      BY <1>3 DEF Again, Touched
    <2>4. BehindSave' /\ OneAgain'
      BY <1>3, <2>1, <2>3 DEF AgainOK, BehindSave, OneAgain, Here
    <2>5. CutLines'
      <3>1. \A k \in Touched' : Complete(k)'
        BY <1>3, <2>1, <2>2, <2>3 DEF AgainOK, CutLines
      <3>2. (Inside(saved) => Here(saved) \notin Touched)'
        BY <1>3, <2>1, <2>3 DEF AgainOK, CutLines, Inside, Here
      <3>3. (Inside(cursor) => Here(cursor) \notin Touched)'
        BY <1>3, <2>1, <2>3 DEF AgainOK, CutLines, Inside, Here
      <3> QED BY <3>1, <3>2, <3>3 DEF CutLines
    <2> QED BY <2>4, <2>5 DEF AgainOK
  <1>4. CASE WatchLine
    <2>1. faults = 0
      BY <1>1, <1>4 DEF WatchLine, env
    <2> QED BY <1>2, <1>4, <1>t, <2>1, LineAgain
  <1>5. CASE WatchTorn
    <2>1. faults = 0
      BY <1>1, <1>5 DEF WatchTorn, env
    <2> QED BY <1>2, <1>5, <1>t, <2>1, TornAgain
  <1>6. CASE Positioning
    <2>1. CASE WatchOpen
      <3>1. faults = 0 /\ cursor' = saved
        BY <1>1, <1>t, <2>1 DEF WatchOpen
      <3> QED BY <1>2, <1>t, <2>1, <3>1, OpenAgain
    <2>2. CASE WatchSave
      <3>1. saved' = cursor /\ faults = 0
        BY <1>1, <1>t, <2>2 DEF WatchSave
      <3> QED BY <1>2, <1>t, <2>2, <3>1, SaveAgain
    <2>3. CASE SavedExpires
      BY <1>1, <1>t, <2>3 DEF SavedExpires
    <2> QED BY <1>6, <2>1, <2>2, <2>3 DEF Positioning
  <1>7. CASE Writing
    <2>1. ~half /\ Len(log') = Len(log) + 1 /\ UNCHANGED Lines /\ UNCHANGED faults
      BY <1>t, <1>7 DEF Writing, HoneypotWrite, TInv, TypeOK, FileOK
    <2>2. \A k \in 1..Len(log) : Complete(k)'
      BY <1>t, <2>1 DEF Complete
    <2>3. TakenUp' = TakenUp
      BY <2>1 DEF Lines, TakenUp, Queued, InHand
    <2> QED BY <1>3, <2>1, <2>2, <2>3 DEF Lines
  <1>8. CASE Aside
    <2>1. TakenUp' = TakenUp /\ UNCHANGED Lines /\ UNCHANGED faults
      BY <1>1, <1>8, <1>t DEF Aside, Lines, MoreFaults, TakenUp, Queued, InHand
    <2>2. \A k \in 1..Len(log) : Complete(k) => Complete(k)'
      BY <1>8 DEF Aside, Complete
    <2> QED BY <1>3, <2>1, <2>2 DEF Lines
  <1>9. CASE Going
    <2> PICK w \in Workers : Goes(w)
      BY <1>9 DEF Going
    <2>1. /\ UNCHANGED <<log, half, watcher, cursor, saved, done, queue, ev>>
          /\ faults' = faults
      BY <1>1, <1>t DEF Goes, Elsewhere, MoreFaults
    <2>2. TakenUp' = TakenUp
      BY <2>1 DEF TakenUp, Queued, InHand
    <2> QED BY <1>3, <2>1, <2>2 DEF Complete
  <1>10. CASE Taking
    <2> PICK w \in Workers : TakeEvent(w)
      BY <1>10 DEF Taking
    <2>1. /\ UNCHANGED <<log, half, watcher, cursor, saved, done, faults>>
          /\ TakenUp' = TakenUp
      BY <1>t, EventTaken
    <2> QED BY <1>3, <2>1 DEF Complete
  <1>11. CASE Ending
    <2> PICK w \in Workers : Ends(w)
      BY <1>11 DEF Ending
    <2>1. faults = 0
      BY <1>1, <1>t DEF Ends, MoreFaults
    <2> QED BY <1>2, <1>t, <2>1, EndAgain
  <1>12. CASE Crash
    <2>1. /\ TakenUp' = {} /\ watcher' = "closed" /\ cursor' = 0
          /\ UNCHANGED <<log, half, saved, done, faults>>
      BY <1>12, NothingTakenUp
    <2>2. AgainOK
      BY <1>1, <1>2, <2>1
    <2>3. Touched' \subseteq Touched /\ Again' = Again
      BY <2>1 DEF Touched, Again
    <2>4. ~Inside(cursor')
      BY <2>1 DEF Inside
    <2>5. CutLines'
      BY <2>1, <2>2, <2>3, <2>4 DEF AgainOK, CutLines, Complete, Inside, Here
    <2>6. BehindSave' /\ OneAgain'
      BY <2>1, <2>2, <2>3 DEF AgainOK, BehindSave, OneAgain, Here
    <2> QED BY <2>5, <2>6 DEF AgainOK
  <1> QED BY <1>4, <1>5, <1>6, <1>7, <1>8, <1>9, <1>10, <1>11, <1>12, StepMoves

LEMMA InitLost == Init => LInv /\ AInv
  <1> SUFFICES ASSUME Init PROVE LInv /\ AInv
    OBVIOUS
  <1>1. RInv /\ TInv /\ Len(log) = 0 /\ Len(queue) = 0 /\ saved = 0 /\ cursor = 0 /\ watcher = "closed"
        /\ crashes = 0 /\ done = {}
    BY InitRInv, EmptySeq DEF RInv, Init
  <1>2. TakenUp = {}
    <2>1. TakenUp \subseteq 1..0
      BY <1>1, PlacesOfLines
    <2> QED BY <2>1
  <1>3. LostAt(Position) = {}
    BY <1>1 DEF LostAt
  <1>4. 0 * Holds = 0 /\ Cardinality(LostAt(Position)) = 0
    BY <1>3, HoldsType, FS_EmptySet
  <1>5. LostOK
    BY <1>1, <1>4, HoldsType DEF LostOK
  <1>6. AgainOK
    <2>1. ~Inside(0) /\ Touched = {} /\ Again = {}
      BY <1>1, <1>2 DEF Inside, Touched, Again
    <2> QED BY <1>1, <1>2, <2>1 DEF AgainOK, BehindSave, CutLines, OneAgain
  <1> QED BY <1>1, <1>5, <1>6 DEF LInv, AInv

\* Every crash loses at most what the queue and the hands hold, whatever the lines
\* did before it, saves that failed and positions that expired included; and as
\* long as none of these happened, at most one handled line comes round again.
THEOREM CrashesLoseLittle == Spec => []CrashIsBounded
  <1>1. LInv /\ AInv => CrashIsBounded
    <2> SUFFICES ASSUME LInv, AInv PROVE CrashIsBounded
      OBVIOUS
    <2> DEFINE lost == {k \in 1..Len(log) : 2 * k <= saved}
                         \ (done \cup dropped \cup torn \cup Queued \cup InHand)
    <2>1. TInv /\ RunOK /\ LostOK /\ saved \in Nat /\ cursor \in Nat
      BY DEF LInv, RInv, TInv, TypeOK, FileOK
    <2>2. lost \subseteq LostAt(Position)
      <3>1. saved <= Position /\ Position \in Nat
        BY <2>1 DEF Position, LostOK
      <3>2. \A k \in 1..Len(log) : 2 * k <= saved => 2 * k <= Position
        BY <2>1, <3>1, PlacesOfLines
      <3> QED BY <3>2 DEF LostAt, Settled, TakenUp
    <2> HIDE DEF lost
    <2>3. /\ IsFiniteSet(LostAt(Position)) /\ Cardinality(LostAt(Position)) \in Nat
          /\ Cardinality(LostAt(Position)) <= crashes * Holds
      BY <2>1, LostFinite DEF LostOK
    <2>4. Cardinality(lost) <= Cardinality(LostAt(Position)) /\ Cardinality(lost) \in Nat
      BY <2>2, <2>3, FS_Subset, FS_CardinalityType
    <2>5. crashes * Holds \in Nat
      <3>1. \A a, b \in Nat : a * b \in Nat
        OBVIOUS
      <3>2. crashes \in Nat
        BY <2>1 DEF TInv, TypeOK, OtherOK
      <3> QED BY <3>1, <3>2, HoldsType
    <2>6. Cardinality(lost) <= crashes * Holds
      BY <2>3, <2>4, <2>5
    <2>7. faults = 0 => Cardinality(done \cap TakenUp) <= 1
      <3> SUFFICES ASSUME faults = 0 PROVE Cardinality(done \cap TakenUp) <= 1
        OBVIOUS
      <3>1. \A j, k \in done \cap TakenUp : j = k
        BY DEF AInv, AgainOK, OneAgain
      <3>2. CASE done \cap TakenUp = {}
        <4>1. Cardinality(done \cap TakenUp) = 0
          BY <3>2, FS_EmptySet
        <4> QED BY <4>1
      <3>3. CASE \E k : done \cap TakenUp = {k}
        <4>1. Cardinality(done \cap TakenUp) = 1
          BY <3>3, FS_Singleton
        <4> QED BY <4>1
      <3> QED BY <3>1, <3>2, <3>3
    <2> QED BY <2>6, <2>7 DEF CrashIsBounded, lost, Holds, TakenUp
  <1> QED BY <1>1, InitLost, StepLInv, StepAInv, PTL DEF Spec

(***************************************************************************)
(* While the process does not crash, the pipeline implements LineDelivery. *)
(* The lines up to where the watcher is are handled, taken up or given up, *)
(* each one of these; a line it is in the middle of was seen torn.         *)
(***************************************************************************)
Passed  == (cursor + 1) \div 2
GivenUp == dropped \cup torn
EachOnce ==
    /\ done \cup TakenUp \cup GivenUp = 1..Passed
    /\ done \cap TakenUp = {} /\ done \cap GivenUp = {} /\ TakenUp \cap GivenUp = {}
FlowOK ==
    /\ Len(log) <= MaxLog /\ Passed <= Len(log)
    /\ watcher = "closed" => saved = 0
    /\ Inside(cursor) => Passed \in torn
    /\ EachOnce
FInv == RInv /\ FlowOK
Status == [k \in 1..MaxLog |-> StageOf(k)]

LEMMA PassedIs ==
    ASSUME NEW x \in Nat
    PROVE  /\ (x + 1) \div 2 \in Nat
           /\ Inside(x) => (x + 1) \div 2 = Here(x)
           /\ ~Inside(x) => (x + 1) \div 2 = Here(x) - 1
  <1>1. (x + 1) \div 2 \in Nat
    BY Halves
  <1>2. CASE Inside(x)
    <2>1. x = 2 * Here(x) - 1 /\ Here(x) \in Nat
      BY <1>2, Positions
    <2>2. (x + 1) \div 2 = Here(x)
      BY <2>1
    <2> QED BY <1>1, <1>2, <2>2
  <1>3. CASE ~Inside(x)
    <2>1. x = 2 * Here(x) - 2 /\ Here(x) \in Nat
      BY <1>3, Positions
    <2>2. (x + 1) \div 2 = Here(x) - 1
      BY <2>1
    <2> QED BY <1>1, <1>3, <2>2
  <1> QED BY <1>2, <1>3

\* The stages of the abstract specification are the places of the lines.
LEMMA StagesAre ==
    ASSUME FInv
    PROVE  /\ Delivery!At("queued") = Queued /\ Delivery!At("handling") = InHand
           /\ Delivery!At("written") = Passed + 1..Len(log)
           /\ Delivery!At("unwritten") = Len(log) + 1..MaxLog
  <1>1. /\ Passed \in Nat /\ Len(log) \in Nat /\ MaxLog \in Nat
        /\ Passed <= Len(log) /\ Len(log) <= MaxLog
    BY PassedIs, PlacesOfLines, BoundsAssumption DEF FInv, RInv, FlowOK, TInv, TypeOK, FileOK, Passed
  <1>2. /\ \A k : k \in 1..Passed <=> k \in done \/ k \in Queued \/ k \in InHand \/ k \in GivenUp
        /\ Queued \cap InHand = {} /\ done \cap TakenUp = {}
        /\ Queued \subseteq TakenUp /\ InHand \subseteq TakenUp
        /\ \A k \in 1..Passed : k \in 1..MaxLog
    BY <1>1 DEF FInv, RInv, RunOK, FlowOK, EachOnce, TakenUp
  <1> HIDE DEF Passed, Queued, InHand
  <1>3. \A k \in 1..MaxLog :
           /\ StageOf(k) = "queued" <=> k \in Queued
           /\ StageOf(k) = "handling" <=> k \in InHand
           /\ StageOf(k) = "written" <=> k \notin 1..Passed /\ k <= Len(log)
           /\ StageOf(k) = "unwritten" <=> k \notin 1..Passed /\ ~(k <= Len(log))
    BY <1>2 DEF StageOf, GivenUp
  <1>4. Delivery!At("queued") = Queued /\ Delivery!At("handling") = InHand
    BY <1>2, <1>3 DEF Delivery!At, Delivery!Lines
  <1>5. Delivery!At("written") = Passed + 1..Len(log)
    BY <1>1, <1>3 DEF Delivery!At, Delivery!Lines
  <1>6. Delivery!At("unwritten") = Len(log) + 1..MaxLog
    BY <1>1, <1>3 DEF Delivery!At, Delivery!Lines
  <1> QED BY <1>4, <1>5, <1>6

\* A line whose place does not change keeps its stage.
SamePlace(k) ==
    /\ k \in done' <=> k \in done
    /\ k \in InHand' <=> k \in InHand
    /\ k \in Queued' <=> k \in Queued
    /\ k \in GivenUp' <=> k \in GivenUp
    /\ k <= Len(log') <=> k <= Len(log)

LEMMA SameCardinality == \A S : Delivery!Cardinality(S) = Cardinality(S)
  BY DEF Delivery!Cardinality, Cardinality

LEMMA OneMoves ==
    ASSUME NEW k \in 1..MaxLog, NEW stage, StageOf(k)' = stage,
           \A j \in 1..MaxLog \ {k} : SamePlace(j)
    PROVE  Delivery!Move(k, stage)
  <1>1. \A j \in 1..MaxLog \ {k} : StageOf(j)' = StageOf(j)
    BY DEF StageOf, SamePlace, GivenUp
  <1> QED BY <1>1 DEF Delivery!Move

LEMMA NoneMoves ==
    ASSUME \A j \in 1..MaxLog : SamePlace(j)
    PROVE  Status' = Status
  <1>1. \A j \in 1..MaxLog : StageOf(j)' = StageOf(j)
    BY DEF StageOf, SamePlace, GivenUp
  <1> QED BY <1>1 DEF Status

\* Each step below moves one line of the abstract specification, or none.
LEMMA WriteDelivers ==
    ASSUME FInv, Writing PROVE FlowOK' /\ [Delivery!Next]_Status
  <1> PICK k : k = Len(log) + 1
    OBVIOUS
  <1>1. /\ k <= MaxLog /\ Len(log') = k /\ UNCHANGED Lines
        /\ Len(log) \in Nat /\ MaxLog \in Nat /\ Passed \in Nat /\ Passed <= Len(log)
    BY PassedIs, PlacesOfLines, BoundsAssumption
       DEF Writing, HoneypotWrite, FInv, RInv, FlowOK, TInv, TypeOK, FileOK, Passed
  <1>2. UNCHANGED <<done, InHand, Queued, TakenUp, GivenUp, Passed, watcher, saved, cursor, torn>>
    BY <1>1 DEF Lines, InHand, Queued, TakenUp, GivenUp, Passed
  <1>3. FlowOK'
    BY <1>1, <1>2 DEF FInv, FlowOK, EachOnce, Inside
  <1>4. k \in 1..MaxLog /\ k \notin done \cup TakenUp \cup GivenUp
    BY <1>1 DEF FInv, FlowOK, EachOnce
  <1>5. \A j \in 1..MaxLog \ {k} : SamePlace(j)
    BY <1>1, <1>2 DEF SamePlace
  <1>6. StageOf(k)' = "written"
    BY <1>1, <1>2, <1>4 DEF StageOf, TakenUp, GivenUp
  <1>7. Delivery!First(k, "unwritten")
    BY <1>1, <1>4, StagesAre DEF Delivery!First
  <1>8. Delivery!Write(k)
    BY <1>4, <1>5, <1>6, <1>7, OneMoves DEF Delivery!Write
  <1> QED BY <1>3, <1>4, <1>8 DEF Delivery!Next, Delivery!Lines

LEMMA LineDelivers ==
    ASSUME FInv, WatchLine PROVE FlowOK' /\ [Delivery!Next]_Status
  <1> PICK k : k = cursor \div 2 + 1
    OBVIOUS
  <1>0. k = cursor \div 2 + 1 /\ k = Here(cursor)
    BY DEF Here
  <1>1. /\ k \in 1..Len(log) /\ cursor' = cursor + 2 /\ watcher = "read" /\ watcher' = "save"
        /\ k \notin TakenUp /\ UNCHANGED <<log, done, torn>> /\ InHand' = InHand
        /\ \/ Len(queue) < QueueMax /\ Queued' = Queued \cup {k} /\ dropped' = dropped
           \/ Queued' = Queued /\ dropped' = dropped \cup {k}
    BY <1>0, LineTakenUp DEF FInv
  <1>2. Len(log) \in Nat /\ MaxLog \in Nat /\ cursor \in Nat
    BY PlacesOfLines, BoundsAssumption DEF FInv, RInv, TInv, TypeOK, FileOK
  <1>3. ~Inside(cursor) /\ ~Inside(cursor') /\ Passed = k - 1 /\ Passed' = k
    <2>1. ~Inside(cursor)
      BY DEF WatchLine, Inside
    <2>2. ~Inside(cursor') /\ Passed = k - 1
      BY <1>0, <1>1, <1>2, <2>1, Positions, PassedIs DEF Passed
    <2>3. cursor = 2 * k - 2 /\ k \in Nat
      BY <1>0, <1>2, <2>1, Positions
    <2>4. Here(cursor') = k + 1
      BY <1>1, <1>2, <2>3 DEF Here
    <2>5. Passed' = k
      BY <1>1, <1>2, <2>2, <2>3, <2>4, PassedIs DEF Passed
    <2> QED BY <2>1, <2>2, <2>5
  <1>4. k \in 1..MaxLog /\ k <= MaxLog /\ k \notin done \cup TakenUp \cup GivenUp
    BY <1>1, <1>2, <1>3 DEF FInv, FlowOK, EachOnce
  <1>5. \/ GivenUp' = GivenUp /\ TakenUp' = TakenUp \cup {k}
        \/ GivenUp' = GivenUp \cup {k} /\ TakenUp' = TakenUp
    BY <1>1 DEF GivenUp, TakenUp
  <1>6. 1..k = (1..k - 1) \cup {k}
    BY <1>1, <1>2
  <1>7. EachOnce'
    BY <1>1, <1>3, <1>4, <1>5, <1>6 DEF FInv, FlowOK, EachOnce
  <1>8. FlowOK'
    BY <1>1, <1>2, <1>3, <1>7 DEF FInv, FlowOK
  <1>9. \A j \in 1..MaxLog \ {k} : SamePlace(j)
    BY <1>1 DEF SamePlace, GivenUp
  <1>10. Delivery!First(k, "written")
    BY <1>1, <1>2, <1>3, StagesAre DEF Delivery!First
  <1>11. CASE Len(queue) < QueueMax /\ Queued' = Queued \cup {k}
    <2>1. StageOf(k)' = "queued"
      BY <1>1, <1>4, <1>11 DEF StageOf, TakenUp
    <2>2. Cardinality(Queued) < QueueMax
      <3>1. Cardinality(Queued) \in Nat /\ Cardinality(Queued) <= Len(queue) /\ Len(queue) \in Nat
        BY QueuedSize, PlacesOfLines DEF FInv, RInv
      <3> QED BY <1>11, <3>1, HoldsType
    <2>3. Delivery!Cardinality(Delivery!At("queued")) < QueueMax
      BY <2>2, StagesAre, SameCardinality
    <2>4. Delivery!Take(k)
      BY <1>4, <1>9, <1>10, <2>1, <2>3, OneMoves DEF Delivery!Take
    <2> QED BY <1>4, <1>8, <2>4 DEF Delivery!Next, Delivery!Lines
  <1>12. CASE Queued' = Queued /\ dropped' = dropped \cup {k}
    <2>1. StageOf(k)' = "given up"
      BY <1>1, <1>4, <1>12 DEF StageOf, TakenUp
    <2>2. Delivery!Take(k)
      BY <1>4, <1>9, <1>10, <2>1, OneMoves DEF Delivery!Take
    <2> QED BY <1>4, <1>8, <2>2 DEF Delivery!Next, Delivery!Lines
  <1> QED BY <1>1, <1>11, <1>12

LEMMA TornDelivers ==
    ASSUME FInv, WatchTorn PROVE FlowOK' /\ [Delivery!Next]_Status
  <1> PICK k : k = Here(cursor)
    OBVIOUS
  <1>1. /\ k <= Len(log) /\ torn' = torn \cup {k} /\ cursor' = cursor + 1 /\ watcher' = "save"
        /\ UNCHANGED <<log, queue, ev, done, dropped>>
    BY DEF WatchTorn, Here, file, thread
  <1>2. /\ Len(log) \in Nat /\ MaxLog \in Nat /\ cursor \in Nat /\ k \in Nat
        /\ Len(log) <= MaxLog
    BY PlacesOfLines, BoundsAssumption, Positions DEF FInv, FlowOK, RInv, TInv, TypeOK, FileOK
  <1>3. /\ Queued' = Queued /\ InHand' = InHand /\ TakenUp' = TakenUp
        /\ GivenUp' = GivenUp \cup {k}
    BY <1>1 DEF Queued, InHand, TakenUp, GivenUp
  <1>4. /\ Inside(cursor) => Passed = Here(cursor)
        /\ ~Inside(cursor) => Passed = Here(cursor) - 1
        /\ Inside(cursor') => Passed' = Here(cursor')
        /\ ~Inside(cursor') => Passed' = Here(cursor') - 1
    <2>1. cursor' \in Nat
      BY <1>1, <1>2
    <2>2. Passed' = (cursor' + 1) \div 2 /\ Passed = (cursor + 1) \div 2
      BY DEF Passed
    <2> HIDE DEF Passed, Here, Inside
    <2> QED BY <1>2, <2>1, <2>2, PassedIs
  <1>5. CASE Inside(cursor)
    <2>1. ~Inside(cursor') /\ Here(cursor') = k + 1
      <3>1. cursor = 2 * k - 1
        BY <1>2, <1>5, Positions
      <3>2. ~Inside(cursor')
        BY <1>1, <1>2, <1>5, Positions
      <3>3. cursor' = 2 * k
        BY <1>1, <1>2, <3>1
      <3>4. cursor' \div 2 = k
        BY <1>2, <3>3
      <3> QED BY <3>2, <3>4 DEF Here
    <2>2. Passed' = Passed /\ Passed = k
      BY <1>2, <1>4, <1>5, <2>1
    <2>3. k \in torn
      BY <1>5, <2>2 DEF FInv, FlowOK
    <2>4. torn' = torn /\ GivenUp' = GivenUp
      BY <1>1, <1>3, <2>3 DEF GivenUp
    <2>5. FlowOK'
      BY <1>1, <1>3, <2>1, <2>2, <2>4 DEF FInv, FlowOK, EachOnce
    <2>6. Status' = Status
      BY <1>1, <1>3, <2>4, NoneMoves DEF SamePlace
    <2> QED BY <2>5, <2>6
  <1>6. CASE ~Inside(cursor)
    <2>1. Inside(cursor') /\ Passed' = k /\ Passed = k - 1
      BY <1>1, <1>2, <1>4, <1>6, Positions
    <2>2. k >= 1 /\ k \in 1..MaxLog /\ k \in 1..Len(log)
      BY <1>1, <1>2, <1>6, <2>1, PassedIs DEF Passed
    <2>3. k \notin done \cup TakenUp \cup GivenUp
      BY <1>2, <2>1 DEF FInv, FlowOK, EachOnce
    <2>4. 1..k = (1..k - 1) \cup {k}
      BY <2>2
    <2>5. EachOnce'
      BY <1>1, <1>3, <2>1, <2>3, <2>4 DEF FInv, FlowOK, EachOnce
    <2>6. FlowOK'
      BY <1>1, <1>2, <2>1, <2>2, <2>5 DEF FInv, FlowOK
    <2>7. \A j \in 1..MaxLog \ {k} : SamePlace(j)
      BY <1>1, <1>3 DEF SamePlace
    <2>8. StageOf(k)' = "given up"
      BY <1>1, <1>3, <2>3 DEF StageOf, TakenUp, GivenUp
    <2>9. Delivery!First(k, "written")
      BY <1>2, <2>1, <2>2, StagesAre DEF Delivery!First
    <2>10. Delivery!Take(k)
      BY <2>2, <2>7, <2>8, <2>9, OneMoves DEF Delivery!Take
    <2> QED BY <2>2, <2>6, <2>10 DEF Delivery!Next, Delivery!Lines
  <1> QED BY <1>5, <1>6

LEMMA TakingDelivers ==
    ASSUME FInv, NEW w \in Workers, TakeEvent(w) PROVE FlowOK' /\ [Delivery!Next]_Status
  <1> PICK h : h = Head(queue)
    OBVIOUS
  <1>1. /\ h \in Queued /\ h \notin InHand /\ \A j \in Queued : h <= j
        /\ Queued' = Queued \ {h} /\ InHand' = InHand \cup {h} /\ TakenUp' = TakenUp
        /\ ev[w] = 0 /\ UNCHANGED <<log, watcher, cursor, saved, done, dropped, torn>>
    BY EventTaken DEF FInv
  <1>2. GivenUp' = GivenUp /\ Passed' = Passed
    BY <1>1 DEF GivenUp, Passed
  <1>3. FlowOK'
    BY <1>1, <1>2 DEF FInv, FlowOK, EachOnce, Inside
  <1>4. h \in 1..MaxLog /\ h \notin done
    <2>1. h \in 1..Len(log) /\ Len(log) \in Nat /\ MaxLog \in Nat /\ Len(log) <= MaxLog
      BY <1>1, PlacesOfLines, BoundsAssumption DEF FInv, RInv, FlowOK
    <2>2. h \notin done
      BY <1>1 DEF FInv, FlowOK, EachOnce, TakenUp
    <2> QED BY <2>1, <2>2
  <1>5. \A j \in 1..MaxLog \ {h} : SamePlace(j)
    BY <1>1, <1>2 DEF SamePlace
  <1>6. StageOf(h)' = "handling"
    BY <1>1, <1>4 DEF StageOf
  <1>7. Delivery!First(h, "queued")
    BY <1>1, StagesAre DEF Delivery!First
  <1>8. Delivery!Cardinality(Delivery!At("handling")) < Cardinality(Workers)
    <2>1. /\ Cardinality(InHand) \in Nat /\ Cardinality(InHand) <= Cardinality(Workers \ {w})
      BY <1>1, InHandSize
    <2>2. Cardinality(Workers \ {w}) = Cardinality(Workers) - 1
      BY WorkersAssumption, FS_RemoveElement
    <2>3. Cardinality(InHand) < Cardinality(Workers)
      BY <2>1, <2>2, HoldsType
    <2> QED BY <2>3, StagesAre, SameCardinality
  <1>9. Delivery!Start(h)
    BY <1>4, <1>5, <1>6, <1>7, <1>8, OneMoves DEF Delivery!Start
  <1> QED BY <1>3, <1>4, <1>9 DEF Delivery!Next, Delivery!Lines

LEMMA EndingDelivers ==
    ASSUME FInv, NEW w \in Workers, Ends(w) PROVE FlowOK' /\ [Delivery!Next]_Status
  <1> PICK e : e = ev[w]
    OBVIOUS
  <1>1. /\ e \in InHand /\ InHand' = InHand \ {e} /\ Queued' = Queued
        /\ TakenUp' = TakenUp \ {e} /\ done' = done \cup {e}
        /\ UNCHANGED <<log, watcher, cursor, saved, dropped, torn>>
    BY EventEnded DEF FInv, Elsewhere
  <1>2. GivenUp' = GivenUp /\ Passed' = Passed /\ e \in TakenUp
    BY <1>1 DEF GivenUp, Passed, TakenUp
  <1>3. EachOnce'
    BY <1>1, <1>2 DEF FInv, FlowOK, EachOnce
  <1>4. FlowOK'
    BY <1>1, <1>2, <1>3 DEF FInv, FlowOK, Inside
  <1>5. e \in 1..MaxLog
    <2>1. e \in 1..Len(log) /\ Len(log) \in Nat /\ MaxLog \in Nat /\ Len(log) <= MaxLog
      BY <1>1, PlacesOfLines, BoundsAssumption DEF FInv, RInv, FlowOK
    <2> QED BY <2>1
  <1>6. \A j \in 1..MaxLog \ {e} : SamePlace(j)
    BY <1>1, <1>2 DEF SamePlace
  <1>7. StageOf(e)' = "done"
    BY <1>1 DEF StageOf
  <1>8. Status[e] = "handling"
    BY <1>1, <1>5, StagesAre DEF Delivery!At, Delivery!Lines, Status
  <1>9. Delivery!End(e)
    BY <1>5, <1>6, <1>7, <1>8, OneMoves DEF Delivery!End, Status
  <1> QED BY <1>4, <1>5, <1>9 DEF Delivery!Next, Delivery!Lines

LEMMA StillDelivers ==
    ASSUME FInv, Positioning \/ Aside \/ Going PROVE FlowOK' /\ [Delivery!Next]_Status
  <1>1. UNCHANGED <<log, queue, ev, done, dropped, torn>>
    BY DEF Positioning, WatchOpen, WatchSave, SavedExpires, Aside, Going, Goes,
           Lines, Elsewhere, file, thread, history
  <1>2. \/ UNCHANGED <<watcher, cursor, saved>>
        \/ watcher' = "read" /\ cursor' = cursor
        \/ watcher = "closed" /\ cursor' = cursor /\ watcher' = watcher /\ saved' = 0
        \/ watcher = "closed" /\ watcher' = "read" /\ cursor' \in {saved, 0}
    BY DEF Positioning, WatchOpen, WatchSave, SavedExpires, Aside, Going, Goes, Lines, Elsewhere
  <1>3. cursor' = cursor /\ (watcher' = "closed" => watcher = "closed" /\ saved' = saved)
    BY <1>2 DEF FInv, RInv, RunOK, FlowOK
  <1>4. UNCHANGED <<InHand, Queued, TakenUp, GivenUp, Passed>>
    BY <1>1, <1>3 DEF InHand, Queued, TakenUp, GivenUp, Passed
  <1>5. FlowOK'
    BY <1>1, <1>3, <1>4 DEF FInv, FlowOK, EachOnce, Inside
  <1>6. Status' = Status
    BY <1>1, <1>4, NoneMoves DEF SamePlace
  <1> QED BY <1>5, <1>6

LEMMA StepDelivers ==
    ASSUME FInv, [Next]_vars, crashes' = 0, crashes = 0
    PROVE  FInv' /\ [Delivery!Next]_Status
  <1>1. RInv'
    BY StepRInv DEF FInv
  <1>2. ~Crash
    BY DEF Crash
  <1>3. FlowOK' /\ [Delivery!Next]_Status
    BY <1>2, StepMoves, WriteDelivers, LineDelivers, TornDelivers, TakingDelivers,
       EndingDelivers, StillDelivers DEF Taking, Ending
  <1> QED BY <1>1, <1>3 DEF FInv

LEMMA InitDelivers == Init => FInv /\ Delivery!Init
  <1> SUFFICES ASSUME Init PROVE FInv /\ Delivery!Init
    OBVIOUS
  <1>1. /\ RInv /\ TInv /\ Len(log) = 0 /\ saved = 0 /\ cursor = 0
        /\ done = {} /\ dropped = {} /\ torn = {}
    BY InitRInv, EmptySeq DEF RInv, Init
  <1>2. TakenUp = {} /\ GivenUp = {} /\ Queued = {} /\ InHand = {}
    <2>1. TakenUp \subseteq 1..0
      BY <1>1, PlacesOfLines
    <2> QED BY <1>1, <2>1 DEF TakenUp, GivenUp
  <1>3. ~Inside(cursor) /\ Passed = 0
    BY <1>1 DEF Inside, Passed
  <1>4. FlowOK
    BY <1>1, <1>2, <1>3, BoundsAssumption DEF FlowOK, EachOnce
  <1>5. \A k \in 1..MaxLog : StageOf(k) = "unwritten"
    BY <1>1, <1>2, BoundsAssumption DEF StageOf
  <1> QED BY <1>1, <1>4, <1>5 DEF FInv, Delivery!Init, Delivery!Lines

\* As long as the process does not crash, every line is taken up in file order and
\* handled at most once, a line that was given up is not handled later, and no more
\* lines wait or are in hand than the queue and the workers hold: whatever calls
\* fail and however the workers interleave, the pipeline does what LineDelivery does.
THEOREM PipelineDelivers == Spec /\ [](crashes = 0) => DeliverySpec
  <1>1. Init => FInv /\ Delivery!Init
    BY InitDelivers
  <1>2. FInv /\ [Next]_vars /\ crashes = 0 /\ (crashes = 0)' => FInv' /\ [Delivery!Next]_Status
    BY StepDelivers
  <1>3. Spec /\ [](crashes = 0) => []FInv
    BY <1>1, <1>2, PTL DEF Spec
  <1>4. Spec /\ [](crashes = 0) => [][Delivery!Next]_Status
    BY <1>2, <1>3, PTL DEF Spec
  <1>5. Spec => Delivery!Init
    BY <1>1, PTL DEF Spec
  <1> QED BY <1>4, <1>5, PTL DEF DeliverySpec, Delivery!Spec, Status

(***************************************************************************)
(* With one event worker, and as long as nothing fails, a completed record *)
(* is the log of its session.  The argument: lines are handled in file     *)
(* order, so that between the connect line and the close line of a session *)
(* its live record holds just what was appended, and the worker that       *)
(* handles the close has that record in its hand.                          *)
(***************************************************************************)
\* A session's first line in the log is its connect, its last one its close.
LogOK ==
    /\ \A k \in 1..Len(log) : Logged(log[k].sid, "connect")
    /\ \A j, k \in 1..Len(log) : log[j].sid = log[k].sid =>
          /\ log[k].kind = "connect" => k <= j
          /\ log[k].kind = "closed" => j <= k

InOrder ==
    /\ \A j \in done : \A k \in TakenUp : j < k
    /\ \A j \in InHand : \A k \in Queued : j < k
    /\ collapsed \subseteq done

ClosePoints == {"analyse", "store", "index", "count", "enrich", "threshold", "alert", "delete"}
HandKind(w) ==
    /\ pc[w] = "connect" => LineOf(w).kind = "connect"
    /\ pc[w] = "risk" => LineOf(w).kind = "command"
    /\ pc[w] \in {"load"} \cup ClosePoints => LineOf(w).kind = "closed"
    /\ pc[w] \in {"get", "set", "risk"} /\ LineOf(w).kind = "command" => LineOf(w).cmd # NoCmd
HandKinds == \A w \in Workers : HandKind(w)

LEMMA StepLogOK == TInv /\ LogOK /\ [Next]_vars => LogOK'
  <1> SUFFICES ASSUME TInv, LogOK, [Next]_vars PROVE LogOK'
    OBVIOUS
  <1>1. CASE UNCHANGED log
    BY <1>1 DEF LogOK, Logged
  <1>2. ASSUME NEW e \in Event, HoneypotWrite(e) PROVE LogOK'
    <2> DEFINE n == Len(log) + 1
    <2>1. /\ Len(log) \in Nat /\ Len(log') = n /\ log'[n] = e
          /\ \A k \in 1..Len(log) : log'[k] = log[k]
      BY <1>2 DEF HoneypotWrite, TInv, TypeOK, FileOK
    <2> HIDE DEF n
    <2>2. n \in Nat /\ \A k \in 1..n : k \in 1..Len(log) \/ k = n
      BY <2>1 DEF n
    <2>3. 1..Len(log) \subseteq 1..n /\ n \in 1..n /\ \A k \in 1..Len(log) : k <= n
      BY <2>1 DEF n
    <2>4. \A s, kind : Logged(s, kind)' <=> Logged(s, kind) \/ (e.sid = s /\ e.kind = kind)
      BY <2>1, <2>2, <2>3 DEF Logged
    <2>5. \A k \in 1..n : Logged(log[k].sid, "connect")'
      BY <1>2, <2>1, <2>2, <2>4 DEF LogOK, HoneypotWrite
    <2>6. ASSUME NEW j \in 1..n, NEW k \in 1..n, log'[j].sid = log'[k].sid, j # k
          PROVE  /\ log'[k].kind = "connect" => k <= j
                 /\ log'[k].kind = "closed" => j <= k
      <3>1. CASE j \in 1..Len(log) /\ k \in 1..Len(log)
        BY <2>1, <2>6, <3>1 DEF LogOK
      <3>2. CASE j = n /\ k \in 1..Len(log)
        <4>1. log[k].kind = "closed" => Logged(e.sid, "closed")
          BY <2>1, <2>6, <3>2 DEF Logged
        <4>2. Logged(e.sid, "connect")
          BY <2>1, <2>6, <3>2 DEF LogOK
        <4> QED BY <1>2, <2>1, <2>3, <3>2, <4>1, <4>2 DEF HoneypotWrite
      <3>3. CASE k = n /\ j \in 1..Len(log)
        <4>1. Logged(e.sid, "connect")
          BY <2>1, <2>6, <3>3 DEF LogOK
        <4> QED BY <1>2, <2>1, <2>3, <3>3, <4>1 DEF HoneypotWrite
      <3> QED BY <2>2, <2>6, <3>1, <3>2, <3>3
    <2>7. \A j, k \in 1..n : log'[j].sid = log'[k].sid =>
             /\ log'[k].kind = "connect" => k <= j
             /\ log'[k].kind = "closed" => j <= k
      BY <2>2, <2>6
    <2> QED BY <2>1, <2>5, <2>7 DEF LogOK
  <1>3. UNCHANGED log \/ \E e \in Event : HoneypotWrite(e)
    BY StepMoves DEF Writing, Aside, Taking, Ending, Going, Ends, Goes, Elsewhere, Positioning,
       WatchLine, WatchTorn, WatchOpen, WatchSave, SavedExpires, TakeEvent, Crash, file
  <1> QED BY <1>1, <1>2, <1>3

LEMMA StepHandKinds == TInv /\ HandKinds /\ [Next]_vars => HandKinds'
  <1> SUFFICES ASSUME TInv, HandKinds, [Next]_vars PROVE HandKinds'
    OBVIOUS
  <1>t. TypeOK /\ HandOK
    BY DEF TInv
  \* A worker that does not move keeps its line.
  <1>1. ASSUME NEW w \in Workers, pc'[w] = pc[w], ev'[w] = ev[w],
               UNCHANGED log \/ \E e \in Event : HoneypotWrite(e)
        PROVE  HandKind(w)'
    <2>1. pc[w] = "idle" \/ LineOf(w)' = LineOf(w)
      BY <1>1, <1>t, LogGrows DEF LineOf, HandOK, BusyHasLine
    <2> QED BY <1>1, <2>1 DEF HandKinds, HandKind, ClosePoints
  <1>2. ASSUME UNCHANGED <<pc, ev>>, UNCHANGED log \/ \E e \in Event : HoneypotWrite(e)
        PROVE  HandKinds'
    BY <1>1, <1>2 DEF HandKinds
  <1>3. CASE ~(\E w \in Workers : Work(w) \/ RedisFault(w)) /\ ~Crash
    <2>1. UNCHANGED <<pc, ev>>
      BY <1>3 DEF Next, HoneypotWrite, HoneypotFinishLine, Watch, WatchOpen, WatchLine, WatchTorn,
                  WatchSave, SavedExpires, TakeAlert, DedupExpires, vars, thread,
                  LiveExpires, CompletedExpires
    <2>2. UNCHANGED log \/ \E e \in Event : HoneypotWrite(e)
      BY <1>3 DEF Next, HoneypotFinishLine, Watch, WatchOpen, WatchLine, WatchTorn,
                  WatchSave, SavedExpires, TakeAlert, DedupExpires, vars, file,
                  LiveExpires, CompletedExpires
    <2> QED BY <1>2, <2>1, <2>2
  <1>4. CASE Crash
    BY <1>4 DEF Crash, HandKinds, HandKind, ClosePoints
  <1>5. ASSUME NEW w \in Workers, Work(w) \/ RedisFault(w) PROVE HandKinds'
    <2>1. log' = log /\ \A v \in Workers \ {w} : pc'[v] = pc[v] /\ ev'[v] = ev[v]
      <3>1. CASE TakeEvent(w)
        BY <1>t, <3>1 DEF TakeEvent, Goto, TypeOK, ThreadOK, file
      <3>2. CASE ~TakeEvent(w)
        BY <1>5, <1>t, <3>2, WorkerMoves DEF Ends, Goes, Elsewhere, TypeOK, ThreadOK
      <3> QED BY <3>1, <3>2
    <2>2. HandKind(w)'
      <3>1. CASE TakeEvent(w)
        <4>1. ev'[w] = Head(queue) /\ LineOf(w)' = log[Head(queue)]
          BY <1>t, <2>1, <3>1 DEF TakeEvent, TypeOK, ThreadOK, LineOf
        <4>2. log[Head(queue)].kind \in Kinds
          <5>1. Head(queue) \in 1..Len(log)
            BY <1>t, <3>1, HeadTailProperties DEF TakeEvent, TypeOK, ThreadOK
          <5>2. log[Head(queue)] \in Event
            BY <1>t, <5>1, ElementOfSeq DEF TypeOK, FileOK
          <5> QED BY <5>2 DEF Event
        <4>3. pc'[w] = CASE log[Head(queue)].kind = "connect" -> "connect"
                         [] log[Head(queue)].kind = "command" -> "dedup"
                         [] log[Head(queue)].kind = "closed"  -> "load"
                         [] OTHER            -> "get"
          BY <1>t, <3>1 DEF TakeEvent, Goto, TypeOK, ThreadOK
        <4> QED BY <4>1, <4>2, <4>3 DEF HandKind, ClosePoints, Kinds
      <3>2. CASE Ends(w)
        <4>1. pc'[w] = "idle"
          BY <1>t, <3>2 DEF Ends, TypeOK, ThreadOK
        <4> QED BY <4>1 DEF HandKind, ClosePoints
      <3>3. CASE Goes(w) /\ ~TakeEvent(w)
        <4>1. LineOf(w)' = LineOf(w) /\ HandKind(w)
          BY <2>1, <3>3 DEF Goes, LineOf, HandKinds
        <4>2. CASE Dedup(w)
          <5>1. pc'[w] = "get" /\ LineOf(w).cmd # NoCmd
            <6>1. ~Finish(w)
              BY <1>t, <3>3, <4>2 DEF Finish, Goto, Goes, TypeOK, ThreadOK
            <6> QED BY <1>t, <4>2, <6>1 DEF Dedup, Goto, TypeOK, ThreadOK
          <5> QED BY <4>1, <5>1 DEF HandKind, ClosePoints
        <4>3. CASE AppendGet(w) \/ AppendSet(w) \/ (RedisFault(w) /\ pc[w] \in {"get", "set"})
          <5>1. pc[w] \in {"get", "set"}
            BY <4>3 DEF AppendGet, AppendSet
          <5>2. pc'[w] = "set" \/ (pc'[w] = "risk" /\ LineOf(w).kind = "command")
            <6>1. ~Finish(w)
              BY <1>t, <3>3 DEF Finish, Goto, Goes, TypeOK, ThreadOK
            <6>2. Goto(w, "set") \/ AfterAppend(w)
              BY <4>3 DEF AppendGet, AppendSet, RedisFault
            <6> QED BY <1>t, <6>1, <6>2 DEF AfterAppend, Goto, TypeOK, ThreadOK
          <5> QED BY <4>1, <5>1, <5>2 DEF HandKind, ClosePoints
        <4>4. CASE \/ CloseLoad(w) \/ CloseAnalyse(w) \/ CloseStore(w) \/ CloseIndex(w)
                   \/ CloseCount(w) \/ CloseEnrich(w) \/ CloseThreshold(w) \/ CloseAlert(w)
          <5>1. pc[w] \in {"load"} \cup ClosePoints
            BY <4>4 DEF CloseLoad, CloseAnalyse, CloseStore, CloseIndex, CloseCount,
                        CloseEnrich, CloseThreshold, CloseAlert, ClosePoints
          <5>2. ~Finish(w)
            BY <1>t, <3>3 DEF Finish, Goto, Goes, TypeOK, ThreadOK
          <5>3. pc'[w] \in ClosePoints
            BY <1>t, <4>4, <5>2 DEF CloseLoad, CloseAnalyse, CloseStore, CloseIndex, CloseCount,
                        CloseEnrich, CloseThreshold, CloseAlert, AfterStore, ClosePoints, Goto,
                        TypeOK, ThreadOK
          <5> QED BY <4>1, <5>1, <5>3 DEF HandKind, ClosePoints
        <4>5. CASE Finish(w)
          BY <1>t, <3>3, <4>5 DEF Finish, Goto, Goes, TypeOK, ThreadOK
        <4> QED BY <1>5, <3>3, <4>2, <4>3, <4>4, <4>5
                DEF Work, Connect, RiskAlert, CloseDelete, RedisFault
      <3> QED BY <1>5, <3>1, <3>2, <3>3, WorkerMoves
    <2>3. \A v \in Workers \ {w} : HandKind(v)'
      BY <1>1, <2>1
    <2> QED BY <2>2, <2>3 DEF HandKinds
  <1> QED BY <1>3, <1>4, <1>5

\* With one worker the lines are handled in file order.
OneWorker == \A v, w \in Workers : v = w

LEMMA CollapsedIsDone ==
    ASSUME TInv, collapsed \subseteq done, [Next]_vars PROVE collapsed' \subseteq done'
  <1>1. ASSUME NEW w \in Workers, Work(w) \/ RedisFault(w)
        PROVE  /\ done \subseteq done'
               /\ collapsed' = collapsed \/ (collapsed' = collapsed \cup {ev[w]} /\ ev[w] \in done')
    <2>1. done \subseteq done'
      BY <1>1, WorkerMoves DEF Ends, Goes, TakeEvent, history
    <2>2. collapsed' = collapsed \/ (collapsed' = collapsed \cup {ev[w]} /\ Finish(w))
      BY <1>1 DEF Work, TakeEvent, Connect, Dedup, AppendGet, AppendSet, RiskAlert, CloseLoad,
             CloseAnalyse, CloseStore, CloseIndex, CloseCount, CloseEnrich, CloseThreshold,
             CloseAlert, CloseDelete, RedisFault, history
    <2> QED BY <2>1, <2>2 DEF Finish
  <1>2. CASE ~(\E w \in Workers : Work(w) \/ RedisFault(w))
    BY <1>2 DEF Next, HoneypotWrite, HoneypotFinishLine, Watch, WatchOpen, WatchLine, WatchTorn,
                WatchSave, SavedExpires, TakeAlert, DedupExpires, LiveExpires, CompletedExpires, Crash,
                vars, history
  <1> QED BY <1>1, <1>2

LEMMA OneHand ==
    ASSUME OneWorker, NEW w \in Workers
    PROVE  /\ ev[w] = 0 => InHand = {}
           /\ ev[w] # 0 => InHand = {ev[w]}
  BY DEF OneWorker, InHand

LEMMA StepInOrder ==
    ASSUME OneWorker, FInv, InOrder, [Next]_vars, crashes' = 0, crashes = 0
    PROVE  InOrder'
  <1>1. collapsed' \subseteq done'
    BY CollapsedIsDone DEF InOrder, FInv, RInv
  <1>2. /\ done \subseteq Nat /\ TakenUp \subseteq Nat /\ RInv
        /\ Queued \subseteq TakenUp /\ InHand \subseteq TakenUp
    <2>1. done \subseteq 1..Len(log) /\ 1..Len(log) \subseteq Nat
      BY PlacesOfLines DEF FInv, RInv, TInv, TypeOK, HistoryOK
    <2> QED BY <2>1, PlacesOfLines DEF FInv, RInv, TakenUp
  <1>3. CASE UNCHANGED <<queue, ev, done>>
    <2>1. Queued' = Queued /\ InHand' = InHand /\ TakenUp' = TakenUp
      BY <1>3 DEF Queued, InHand, TakenUp
    <2> QED BY <1>1, <1>3, <2>1 DEF InOrder
  <1>4. CASE WatchLine
    <2> PICK k : k = cursor \div 2 + 1
      OBVIOUS
    <2>1. /\ k \in 1..Len(log) /\ UNCHANGED <<log, done>> /\ InHand' = InHand
          /\ Queued' \subseteq Queued \cup {k}
      BY <1>2, <1>4, LineTakenUp
    <2>2. Passed = k - 1 /\ k \in Nat
      <3>1. cursor \in Nat /\ ~Inside(cursor) /\ k = Here(cursor)
        BY <1>2, <1>4 DEF RInv, TInv, TypeOK, FileOK, WatchLine, Inside, Here
      <3>2. Passed = k - 1
        BY <3>1, PassedIs DEF Passed
      <3> QED BY <1>2, <2>1, <3>2, PlacesOfLines DEF RInv
    <2>3. \A j \in done \cup InHand : j < k
      BY <1>2, <2>2 DEF FInv, FlowOK, EachOnce
    <2> HIDE DEF Passed, Queued, InHand
    <2>4. \A j \in InHand : \A q \in Queued' : j < q
      BY <2>1, <2>3 DEF InOrder
    <2>5. \A j \in done : \A q \in TakenUp' : j < q
      BY <2>1, <2>3 DEF InOrder, TakenUp
    <2> QED BY <1>1, <2>1, <2>4, <2>5 DEF InOrder
  <1>5. ASSUME NEW w \in Workers, TakeEvent(w) PROVE InOrder'
    <2> PICK h : h = Head(queue)
      OBVIOUS
    <2>1. /\ h \in Queued /\ \A j \in Queued : h <= j
          /\ Queued' = Queued \ {h} /\ InHand' = InHand \cup {h} /\ TakenUp' = TakenUp
          /\ ev[w] = 0 /\ done' = done
      BY <1>2, <1>5, EventTaken
    <2>2. InHand' = {h}
      BY <2>1, OneHand
    <2> HIDE DEF TakenUp, Queued, InHand
    <2>3. \A j \in InHand' : \A q \in Queued' : j < q
      BY <1>2, <2>1, <2>2
    <2> QED BY <1>1, <2>1, <2>3 DEF InOrder
  <1>6. ASSUME NEW w \in Workers, Ends(w) PROVE InOrder'
    <2> PICK e : e = ev[w]
      OBVIOUS
    <2>1. /\ e \in InHand /\ InHand' = InHand \ {e} /\ Queued' = Queued
          /\ TakenUp' = TakenUp \ {e} /\ done' = done \cup {e}
      BY <1>2, <1>6, EventEnded
    <2>2. InHand' = {} /\ TakenUp' \subseteq Queued
      <3>1. e # 0
        BY <2>1 DEF InHand
      <3>2. InHand' = {}
        BY <2>1, <3>1, OneHand
      <3> QED BY <2>1, <3>2 DEF TakenUp
    <2> HIDE DEF TakenUp, Queued, InHand
    <2> QED BY <1>1, <1>2, <2>1, <2>2 DEF InOrder
  <1>7. ~Crash
    BY DEF Crash
  <1>8. Writing \/ WatchTorn \/ Positioning \/ Going \/ Aside => UNCHANGED <<queue, ev, done>>
    BY DEF Writing, WatchTorn, Positioning, WatchOpen, WatchSave, SavedExpires, Going, Goes, Aside,
           Lines, Elsewhere, thread, history
  <1> QED BY <1>3, <1>4, <1>5, <1>6, <1>7, <1>8, StepMoves DEF Taking, Ending

\* The lines of s that were appended to its record, of those that are handled or
\* are being handled.
Fits(k, s, f) == BelongsTo(k, s, f) /\ (f = "commands" => log[k].cmd # NoCmd)
Went(k)  == k \in done \ collapsed \/ \E w \in Workers : pc[w] = "risk" /\ ev[w] = k
Appended(s, f) == {k \in 1..Len(log) : Went(k) /\ Fits(k, s, f)}
Members(q) == {q[i] : i \in 1..Len(q)}
HoldsAll(rec, s) ==
    \A f \in Fields : Members(rec[f]) = Appended(s, f) /\ Ascending(rec[f])

Opened(s)  == Handled(s, "connect")
Closed(s)  == Handled(s, "closed")
Closing(s) == \E w \in Workers : pc[w] \in ClosePoints /\ Sid(w) = s
SessionOK(s) ==
    /\ Opened(s) /\ ~Closed(s) => live[s] # NoRecord /\ HoldsAll(live[s], s)
    /\ ~Opened(s) \/ Closed(s) => live[s] = NoRecord
    /\ completed[s] # NoRecord => Closed(s) \/ Closing(s)
    /\ completed[s] # NoRecord /\ Opened(s) => HoldsAll(completed[s], s)
HandHolds(w) ==
    /\ pc[w] = "set" => live[Sid(w)] # NoRecord /\ buf[w] = live[Sid(w)]
    /\ pc[w] \in ClosePoints /\ Opened(Sid(w)) => HoldsAll(buf[w], Sid(w))
KInv ==
    /\ FInv /\ LogOK /\ InOrder /\ HandKinds
    /\ \A s \in Sessions : SessionOK(s)
    /\ \A w \in Workers : HandHolds(w)

\* A session nothing happens to stays as it is.
LEMMA SessionStays ==
    ASSUME NEW s, SessionOK(s), live'[s] = live[s],
           completed'[s] = completed[s] \/ completed'[s] = NoRecord,
           Opened(s)' <=> Opened(s), Closed(s)' <=> Closed(s), Closing(s) => Closing(s)',
           Opened(s) => \A f \in Fields : Appended(s, f)' = Appended(s, f)
    PROVE  SessionOK(s)'
  <1>1. Opened(s) /\ HoldsAll(live[s], s) => HoldsAll(live[s], s)'
    BY DEF HoldsAll
  <1>2. completed'[s] # NoRecord /\ Opened(s) /\ HoldsAll(completed[s], s)
           => HoldsAll(completed[s], s)'
    BY DEF HoldsAll
  <1> QED BY <1>1, <1>2 DEF SessionOK

\* A step of another thread, or a worker that takes a line up, appends nothing.
LEMMA QuietKeeps ==
    ASSUME OneWorker, KInv, TypeOK', UNCHANGED log \/ \E e \in Event : HoneypotWrite(e),
           UNCHANGED <<done, collapsed, buf, live>>,
           \A s \in Sessions : completed'[s] = completed[s] \/ completed'[s] = NoRecord,
           UNCHANGED <<pc, ev>> \/ \E w \in Workers : TakeEvent(w)
    PROVE  /\ \A s \in Sessions : SessionOK(s)'
           /\ \A w \in Workers : HandHolds(w)'
  <1>1. /\ TInv /\ TypeOK /\ BusyHasLine
        /\ 1..Len(log) \subseteq 1..Len(log') /\ \A k \in 1..Len(log) : log'[k] = log[k]
    BY LogGrows DEF KInv, FInv, RInv, TInv, HandOK
  <1>2. \A w \in Workers :
           \/ pc'[w] = pc[w] /\ ev'[w] = ev[w]
           \/ pc[w] = "idle" /\ pc'[w] \notin {"risk", "set"} \cup ClosePoints
    <2>1. ASSUME NEW w \in Workers, TakeEvent(w)
          PROVE  /\ pc[w] = "idle" /\ pc'[w] \notin {"risk", "set"} \cup ClosePoints
                 /\ \A v \in Workers : v = w
      BY <1>1, <2>1 DEF TakeEvent, Goto, TypeOK, ThreadOK, ClosePoints, OneWorker
    <2> QED BY <2>1
  <1>3. \A k : Went(k)' <=> Went(k)
    BY <1>2 DEF Went
  <1>4. \A k : Went(k) => k \in 1..Len(log)
    BY <1>1 DEF Went, BusyHasLine, TypeOK, HistoryOK
  <1>5. \A k \in 1..Len(log) : \A s, f : Fits(k, s, f)' <=> Fits(k, s, f)
    BY <1>1 DEF Fits, BelongsTo
  <1>6. \A s, f : Appended(s, f)' = Appended(s, f)
    BY <1>1, <1>3, <1>4, <1>5 DEF Appended
  <1>7. \A s, kind : Handled(s, kind)' <=> Handled(s, kind)
    BY <1>1 DEF Handled, TypeOK, HistoryOK
  <1>8. \A w \in Workers : pc'[w] \in {"set"} \cup ClosePoints \/ pc[w] \in {"set"} \cup ClosePoints
            => pc'[w] = pc[w] /\ Sid(w)' = Sid(w)
    <2> SUFFICES ASSUME NEW w \in Workers,
                        pc'[w] \in {"set"} \cup ClosePoints \/ pc[w] \in {"set"} \cup ClosePoints
                 PROVE  pc'[w] = pc[w] /\ Sid(w)' = Sid(w)
      OBVIOUS
    <2>1. pc'[w] = pc[w] /\ ev'[w] = ev[w] /\ pc[w] # "idle"
      BY <1>2 DEF ClosePoints
    <2>2. ev[w] \in 1..Len(log)
      BY <1>1, <2>1 DEF BusyHasLine
    <2> QED BY <1>1, <2>1, <2>2 DEF Sid, LineOf
  <1>9. \A s \in Sessions : SessionOK(s)'
    <2> SUFFICES ASSUME NEW s \in Sessions PROVE SessionOK(s)'
      OBVIOUS
    <2>1. Closing(s) => Closing(s)'
      BY <1>8 DEF Closing
    <2>2. SessionOK(s)
      BY DEF KInv
    <2>3. (Opened(s)' <=> Opened(s)) /\ (Closed(s)' <=> Closed(s))
      BY <1>7 DEF Opened, Closed
    <2> QED BY <1>6, <2>1, <2>2, <2>3, SessionStays
  <1>10. ASSUME NEW w \in Workers PROVE HandHolds(w)'
    <2>1. CASE pc'[w] \notin {"set"} \cup ClosePoints
      BY <2>1 DEF HandHolds
    <2>2. CASE pc'[w] \in {"set"} \cup ClosePoints
      <3>1. pc'[w] = pc[w] /\ Sid(w)' = Sid(w) /\ HandHolds(w)
        BY <1>8, <2>2 DEF KInv
      <3>2. Opened(Sid(w))' <=> Opened(Sid(w))
        BY <1>7, <3>1 DEF Opened
      <3>3. \A f : Appended(Sid(w), f)' = Appended(Sid(w), f)
        BY <1>6, <3>1
      <3>4. HoldsAll(buf[w], Sid(w)) => HoldsAll(buf[w], Sid(w))'
        BY <3>1, <3>3 DEF HoldsAll
      <3> QED BY <3>1, <3>2, <3>4 DEF HandHolds
    <2> QED BY <2>1, <2>2
  <1> QED BY <1>9, <1>10

\* What a busy worker knows of the session of its line: nothing of the session
\* that comes later in the file was handled.
LEMMA InHandIsNext ==
    ASSUME OneWorker, KInv, NEW w \in Workers, pc[w] # "idle"
    PROVE  /\ ev[w] \in 1..Len(log) /\ ev[w] \in Nat /\ Sid(w) \in Sessions
           /\ LineOf(w) \in Event
           /\ ev[w] \notin done /\ ev[w] \notin collapsed
           /\ \A k : Went(k) => k \in Nat /\ ((k = ev[w] /\ pc[w] = "risk") \/ k < ev[w])
           /\ ~Closed(Sid(w))
           /\ LineOf(w).kind = "connect" =>
                 \A k \in 1..Len(log) : Went(k) /\ log[k].sid = Sid(w) => k = ev[w]
  <1>1. /\ TInv /\ RInv /\ BusyHasLine /\ done \subseteq 1..Len(log)
        /\ InOrder /\ LogOK
    BY DEF KInv, FInv, RInv, TInv, HandOK, TypeOK, HistoryOK
  <1>2. ev[w] \in 1..Len(log) /\ ev[w] \in Nat /\ ev[w] # 0 /\ Sid(w) \in Sessions /\ LineOf(w) \in Event
    BY <1>1, SidInSessions, PlacesOfLines DEF BusyHasLine
  <1>3. ev[w] \in TakenUp
    BY <1>2 DEF TakenUp, InHand
  <1>4. \A k \in done : k \in Nat /\ k < ev[w]
    BY <1>1, <1>3, PlacesOfLines DEF InOrder
  <1>5. ev[w] \notin done /\ ev[w] \notin collapsed
    BY <1>1, <1>2, <1>4 DEF InOrder
  <1>6. \A k : Went(k) => k \in Nat /\ ((k = ev[w] /\ pc[w] = "risk") \/ k < ev[w])
    BY <1>2, <1>4 DEF Went, OneWorker
  <1>7. ~Closed(Sid(w))
    <2> SUFFICES ASSUME NEW k \in done, log[k].sid = Sid(w), log[k].kind = "closed" PROVE FALSE
      BY DEF Closed, Handled
    <2>1. ev[w] <= k
      BY <1>1, <1>2 DEF LogOK, Sid, LineOf
    <2> QED BY <1>2, <1>4, <2>1
  <1>8. ASSUME LineOf(w).kind = "connect", NEW k \in 1..Len(log), Went(k), log[k].sid = Sid(w)
        PROVE  k = ev[w]
    <2>1. ev[w] <= k
      BY <1>1, <1>2, <1>8 DEF LogOK, Sid, LineOf
    <2> QED BY <1>2, <1>6, <1>8, <2>1
  <1> QED BY <1>2, <1>5, <1>6, <1>7, <1>8

\* A worker's step appends the line in its hand, or nothing.
LEMMA HandMoves ==
    ASSUME OneWorker, KInv, TypeOK', NEW w \in Workers, Ends(w) \/ Goes(w), NEW e, e = ev[w],
           collapsed' = collapsed \/ collapsed' = collapsed \cup {e}
    PROVE  /\ \A k : k # e => (Went(k)' <=> Went(k))
           /\ Went(e) <=> pc[w] = "risk"
           /\ Ends(w) => (Went(e)' <=> e \notin collapsed')
           /\ Goes(w) => (Went(e)' <=> pc'[w] = "risk")
           /\ \A k, s, f : Fits(k, s, f)' <=> Fits(k, s, f)
           /\ Sid(w)' = Sid(w) \/ pc'[w] = "idle"
           /\ \A s, kind : Handled(s, kind)' <=>
                 Handled(s, kind) \/ (Ends(w) /\ Sid(w) = s /\ LineOf(w).kind = kind)
  <1>1. /\ pc[w] # "idle" /\ TypeOK /\ log' = log
    BY DEF Ends, Goes, Elsewhere, KInv, FInv, RInv, TInv
  <1>2. /\ e \notin done /\ e \notin collapsed /\ e \in 1..Len(log)
    BY <1>1, InHandIsNext
  <1>3. e # 0
    BY <1>2, PlacesOfLines DEF KInv, FInv, RInv
  <1>4. \A v \in Workers : v = w
    BY DEF OneWorker
  <1>5. /\ Ends(w) => pc'[w] = "idle" /\ ev'[w] = 0 /\ done' = done \cup {e}
        /\ Goes(w) => pc'[w] # "idle" /\ ev'[w] = e /\ done' = done
    BY <1>1 DEF Ends, Goes, TypeOK, ThreadOK
  <1>6. \A k : k # e => (Went(k)' <=> Went(k))
    BY <1>4, <1>5 DEF Went
  <1>7. Went(e) <=> pc[w] = "risk"
    BY <1>2, <1>4 DEF Went
  <1>8. Ends(w) => (Went(e)' <=> e \notin collapsed')
    BY <1>4, <1>5 DEF Went
  <1>9. Goes(w) => (Went(e)' <=> pc'[w] = "risk")
    BY <1>2, <1>4, <1>5 DEF Went
  <1>10. \A k, s, f : Fits(k, s, f)' <=> Fits(k, s, f)
    BY <1>1 DEF Fits, BelongsTo
  <1>11. Sid(w)' = Sid(w) \/ pc'[w] = "idle"
    BY <1>1, <1>5 DEF Sid, LineOf
  <1>12. \A s, kind : Handled(s, kind)' <=>
                 Handled(s, kind) \/ (Ends(w) /\ Sid(w) = s /\ LineOf(w).kind = kind)
    BY <1>1, <1>5 DEF Handled, Sid, LineOf
  <1> QED BY <1>6, <1>7, <1>8, <1>9, <1>10, <1>11, <1>12

\* A line that went to no record, or went there before, changes none.
LEMMA NothingAppended ==
    ASSUME OneWorker, KInv, TypeOK', NEW w \in Workers, Ends(w) \/ Goes(w), NEW e, e = ev[w],
           collapsed' = collapsed \/ collapsed' = collapsed \cup {e},
           NEW s, NEW f, (Went(e)' <=> Went(e)) \/ ~Fits(e, s, f)
    PROVE  Appended(s, f)' = Appended(s, f)
  <1>1. log' = log
    BY DEF Ends, Goes, Elsewhere
  <1>2. \A k : Went(k)' /\ Fits(k, s, f)' <=> Went(k) /\ Fits(k, s, f)
    BY HandMoves
  <1> QED BY <1>1, <1>2 DEF Appended

LEMMA OthersStay ==
    ASSUME OneWorker, KInv, TypeOK', NEW w \in Workers, Ends(w) \/ Goes(w),
           collapsed' = collapsed \/ collapsed' = collapsed \cup {ev[w]},
           NEW s \in Sessions, s # Sid(w), live'[s] = live[s], completed'[s] = completed[s]
    PROVE  SessionOK(s)'
  <1>1. SessionOK(s)
    BY DEF KInv
  <1>2. \A f : ~Fits(ev[w], s, f)
    BY DEF Fits, BelongsTo, Sid, LineOf
  <1>3. \A f \in Fields : Appended(s, f)' = Appended(s, f)
    <2> PICK e : e = ev[w]
      OBVIOUS
    <2> QED BY <1>2, NothingAppended
  <1>4. (Opened(s)' <=> Opened(s)) /\ (Closed(s)' <=> Closed(s))
    BY HandMoves DEF Opened, Closed
  <1>5. ~Closing(s)
    BY DEF Closing, OneWorker
  <1> QED BY <1>1, <1>3, <1>4, <1>5, SessionStays

\* How each step of a worker ends: with the line handled, or at another point.
LEMMA WorkerStands ==
    ASSUME TypeOK, NEW w \in Workers, Work(w), ~TakeEvent(w)
    PROVE  /\ Finish(w) => Ends(w) /\ pc'[w] = "idle"
           /\ \A p \in ControlPoints \ {"idle"} : Goto(w, p) => Goes(w) /\ pc'[w] = p
  <1>1. Ends(w) \/ Goes(w)
    BY WorkerMoves
  <1>2. Ends(w) => pc'[w] = "idle"
    BY DEF Ends, TypeOK, ThreadOK
  <1>3. Goes(w) => pc'[w] # "idle"
    BY DEF Goes, TypeOK, ThreadOK
  <1>4. \A p : Goto(w, p) => pc'[w] = p
    BY DEF Goto, TypeOK, ThreadOK
  <1> QED BY <1>1, <1>2, <1>3, <1>4 DEF Finish

LEMMA CompletedLater ==
    ASSUME OneWorker, KInv, NEW w \in Workers, pc[w] # "idle"
    PROVE  /\ SessionOK(Sid(w))
           /\ pc[w] \notin ClosePoints => completed[Sid(w)] = NoRecord
           /\ live[Sid(w)] = NoRecord <=> ~Opened(Sid(w))
  <1>1. ~Closed(Sid(w)) /\ SessionOK(Sid(w))
    BY InHandIsNext DEF KInv
  <1>2. pc[w] \notin ClosePoints => ~Closing(Sid(w))
    BY DEF Closing, OneWorker
  <1> QED BY <1>1, <1>2 DEF SessionOK

LEMMA ConnectKeeps ==
    ASSUME OneWorker, KInv, TypeOK', NEW w \in Workers, Connect(w), NEW s, s = Sid(w)
    PROVE  SessionOK(s)' /\ HandHolds(w)'
  <1> PICK e : e = ev[w]
    OBVIOUS
  <1>1. TypeOK /\ pc[w] = "connect" /\ LineOf(w).kind = "connect" /\ s \in Sessions
    BY InHandIsNext DEF KInv, FInv, RInv, TInv, Connect, HandKinds, HandKind
  <1>2. /\ Ends(w) /\ pc'[w] = "idle" /\ log' = log /\ collapsed' = collapsed
        /\ completed' = completed /\ live'[s] = EmptyRecord
    BY <1>1, WorkerStands DEF Connect, TypeOK, StoreOK, Work, TakeEvent, file
  <1>3. \A f : Appended(s, f)' = {}
    <2>1. \A f : ~Fits(e, s, f)
      BY <1>1 DEF Fits, BelongsTo, LineOf
    <2>2. \A f : Appended(s, f)' = Appended(s, f)
      BY <1>2, <2>1, NothingAppended
    <2>3. \A k \in 1..Len(log) : Went(k) /\ log[k].sid = s => k = e
      BY <1>1, InHandIsNext
    <2> QED BY <2>1, <2>2, <2>3 DEF Appended, Fits, BelongsTo
  <1>4. HoldsAll(live[s], s)'
    <2>1. \A f \in Fields : live'[s][f] = <<>>
      BY <1>2 DEF EmptyRecord
    <2> QED BY <1>3, <2>1, EmptySeq DEF HoldsAll, Members, Ascending
  <1>5. live'[s] # NoRecord
    BY <1>2, EmptyIsRecord, DataAssumption
  <1>6. Opened(s)' /\ ~Closed(s)'
    <2>1. ~Closed(s)
      BY <1>1, InHandIsNext
    <2> QED BY <1>1, <1>2, <2>1, HandMoves DEF Opened, Closed
  <1>7. completed'[s] = NoRecord
    BY <1>1, <1>2, CompletedLater DEF ClosePoints
  <1>8. SessionOK(s)'
    BY <1>4, <1>5, <1>6, <1>7 DEF SessionOK
  <1> QED BY <1>2, <1>8 DEF HandHolds, ClosePoints

\* The handlers of the other lines of an open session, up to the append.
LEMMA HandlerKeeps ==
    ASSUME OneWorker, KInv, TypeOK', NEW w \in Workers,
           Dedup(w) \/ AppendGet(w) \/ RiskAlert(w), NEW s, s = Sid(w)
    PROVE  SessionOK(s)' /\ HandHolds(w)'
  <1> PICK e : e = ev[w]
    OBVIOUS
  <1>1. /\ TypeOK /\ s \in Sessions /\ pc[w] \in {"dedup", "get", "risk"}
        /\ LineOf(w).kind \in {"command", "login", "download"}
        /\ pc[w] \in {"dedup", "risk"} => LineOf(w).kind = "command"
    BY InHandIsNext DEF KInv, FInv, RInv, TInv, HandOK, AppendKinds, DedupKind, LineOf,
       Dedup, AppendGet, RiskAlert, HandKinds, HandKind
  <1>2. /\ Work(w) /\ ~TakeEvent(w) /\ pc[w] # "idle" /\ pc[w] \notin ClosePoints
        /\ log' = log /\ live' = live /\ completed' = completed
        /\ collapsed' = collapsed \/ collapsed' = collapsed \cup {e}
    BY <1>1 DEF Dedup, AppendGet, RiskAlert, Work, TakeEvent, file, store, ClosePoints
  <1>3. Ends(w) \/ Goes(w)
    BY <1>2, WorkerMoves
  <1>4. SessionOK(s) /\ completed[s] = NoRecord /\ (live[s] = NoRecord <=> ~Opened(s))
    BY <1>2, CompletedLater
  <1>5. (Opened(s)' <=> Opened(s)) /\ (Closed(s)' <=> Closed(s))
    BY <1>1, <1>2, <1>3, HandMoves DEF Opened, Closed
  <1>6. ~Closing(s)
    BY <1>2 DEF Closing, OneWorker
  <1>7. /\ Went(e) <=> pc[w] = "risk"
        /\ Ends(w) => (Went(e)' <=> e \notin collapsed')
        /\ Goes(w) => (Went(e)' <=> pc'[w] = "risk")
        /\ e \notin collapsed
    BY <1>2, <1>3, HandMoves, InHandIsNext
  <1>8. CASE Opened(s) /\ (pc'[w] = "idle" \/ pc'[w] = "get" \/ (pc'[w] = "set" /\ buf'[w] = live[s]))
             /\ \A f \in Fields : Appended(s, f)' = Appended(s, f)
    <2>1. SessionOK(s)'
      BY <1>2, <1>4, <1>5, <1>6, <1>8, SessionStays
    <2>2. pc'[w] = "idle" \/ Sid(w)' = s
      BY <1>2, <1>3, HandMoves
    <2> QED BY <1>2, <1>4, <1>8, <2>1, <2>2 DEF HandHolds, ClosePoints
  <1>9. CASE ~Opened(s) /\ pc'[w] \in {"idle", "get", "risk"}
    <2>1. SessionOK(s)'
      BY <1>2, <1>4, <1>5, <1>9 DEF SessionOK
    <2> QED BY <1>9, <2>1 DEF HandHolds, ClosePoints
  <1>10. CASE Dedup(w)
    <2>1. pc[w] = "dedup" /\ LineOf(w).kind = "command"
      BY <1>1, <1>10 DEF Dedup
    <2>2. CASE LineOf(w).cmd = NoCmd /\ Finish(w)
      <3>1. pc'[w] = "idle"
        BY <1>1, <1>2, <2>2, WorkerStands
      <3>2. \A f : ~Fits(e, s, f)
        BY <2>1, <2>2 DEF Fits, BelongsTo, FieldOf, LineOf
      <3>3. \A f : Appended(s, f)' = Appended(s, f)
        BY <1>2, <1>3, <3>2, NothingAppended
      <3> QED BY <1>8, <1>9, <3>1, <3>3
    <2>3. CASE collapsed' = collapsed \cup {e} /\ Finish(w)
      <3>1. pc'[w] = "idle" /\ Ends(w)
        BY <1>1, <1>2, <2>3, WorkerStands
      <3>2. Went(e)' <=> Went(e)
        BY <1>7, <2>1, <2>3, <3>1
      <3>3. \A f : Appended(s, f)' = Appended(s, f)
        BY <1>2, <1>3, <3>2, NothingAppended
      <3> QED BY <1>8, <1>9, <3>1, <3>3
    <2>4. CASE Goto(w, "get")
      <3>1. pc'[w] = "get" /\ Goes(w)
        BY <1>1, <1>2, <2>4, WorkerStands DEF ControlPoints
      <3>2. Went(e)' <=> Went(e)
        BY <1>7, <2>1, <3>1
      <3>3. \A f : Appended(s, f)' = Appended(s, f)
        BY <1>2, <1>3, <3>2, NothingAppended
      <3> QED BY <1>8, <1>9, <3>1, <3>3
    <2> QED BY <1>10, <2>2, <2>3, <2>4 DEF Dedup
  <1>11. CASE AppendGet(w)
    <2>1. pc[w] = "get"
      BY <1>11 DEF AppendGet
    <2>2. CASE live[s] = NoRecord
      <3>1. Goto(w, "risk") \/ Finish(w)
        BY <1>11, <2>2 DEF AppendGet, AfterAppend
      <3>2. pc'[w] \in {"idle", "risk"}
        BY <1>1, <1>2, <3>1, WorkerStands DEF ControlPoints
      <3> QED BY <1>4, <1>9, <2>2, <3>2
    <2>3. CASE live[s] # NoRecord
      <3>1. Goto(w, "set") /\ buf'[w] = live[s]
        BY <1>1, <1>11, <2>3 DEF AppendGet, TypeOK, ThreadOK
      <3>2. pc'[w] = "set" /\ Goes(w)
        BY <1>1, <1>2, <3>1, WorkerStands DEF ControlPoints
      <3>3. Went(e)' <=> Went(e)
        BY <1>7, <2>1, <3>2
      <3>4. \A f : Appended(s, f)' = Appended(s, f)
        BY <1>2, <1>3, <3>3, NothingAppended
      <3> QED BY <1>4, <1>8, <2>3, <3>1, <3>2, <3>4
    <2> QED BY <2>2, <2>3
  <1>12. CASE RiskAlert(w)
    <2>1. pc[w] = "risk" /\ Finish(w) /\ collapsed' = collapsed
      BY <1>12 DEF RiskAlert
    <2>2. pc'[w] = "idle" /\ Ends(w)
      BY <1>1, <1>2, <2>1, WorkerStands
    <2>3. Went(e)' <=> Went(e)
      BY <1>7, <2>1, <2>2
    <2>4. \A f : Appended(s, f)' = Appended(s, f)
      BY <1>2, <1>3, <2>3, NothingAppended
    <2> QED BY <1>8, <1>9, <2>2, <2>4
  <1> QED BY <1>10, <1>11, <1>12

LEMMA SequenceAppends ==
    ASSUME NEW q \in Seq(Nat), NEW k \in Nat, Ascending(q), \A j \in Members(q) : j < k
    PROVE  Members(Append(q, k)) = Members(q) \cup {k} /\ Ascending(Append(q, k))
  <1> PICK n : n = Len(q)
    OBVIOUS
  <1> PICK r : r = Append(q, k)
    OBVIOUS
  <1>1. /\ n \in Nat /\ Len(r) = n + 1 /\ r[n + 1] = k
        /\ \A i \in 1..n : r[i] = q[i] /\ q[i] < k
    BY LenProperties, AppendProperties DEF Members
  <1>2. \A i : i \in 1..n + 1 <=> i \in 1..n \/ i = n + 1
    BY <1>1
  <1>3. Members(r) = Members(q) \cup {k}
    BY <1>1, <1>2 DEF Members
  <1>4. \A i, j \in 1..n + 1 : i < j => i \in 1..n
    BY <1>1
  <1>5. Ascending(r)
    BY <1>1, <1>2, <1>4 DEF Ascending
  <1> QED BY <1>3, <1>5

LEMMA AppendKeeps ==
    ASSUME OneWorker, KInv, TypeOK', NEW w \in Workers, AppendSet(w), NEW s, s = Sid(w)
    PROVE  SessionOK(s)' /\ HandHolds(w)'
  <1> PICK e : e = ev[w]
    OBVIOUS
  <1> PICK f : f = FieldOf(LineOf(w).kind)
    OBVIOUS
  <1>1. /\ TypeOK /\ s \in Sessions /\ pc[w] = "set" /\ e \in 1..Len(log) /\ e \in Nat
        /\ LineOf(w).kind \in {"command", "login", "download"} /\ f \in Fields
        /\ LineOf(w).kind = "command" => LineOf(w).cmd # NoCmd
    BY InHandIsNext, FieldsOfKinds DEF KInv, FInv, RInv, TInv, HandOK, AppendKinds, LineOf,
       AppendSet, HandKinds, HandKind
  <1>2. /\ Work(w) /\ ~TakeEvent(w) /\ pc[w] # "idle" /\ pc[w] \notin ClosePoints
        /\ log' = log /\ completed' = completed /\ collapsed' = collapsed
    BY <1>1 DEF AppendSet, Work, TakeEvent, file, ClosePoints
  <1>3. /\ (pc'[w] = "risk" /\ Goes(w)) \/ (pc'[w] = "idle" /\ Ends(w))
        /\ Ends(w) \/ Goes(w)
    <2>1. Goto(w, "risk") \/ Finish(w)
      BY DEF AppendSet, AfterAppend
    <2> QED BY <1>1, <1>2, <2>1, WorkerStands DEF ControlPoints
  <1>4. buf[w] = live[s] /\ live[s] # NoRecord /\ buf[w] \in Record
    BY <1>1 DEF KInv, HandHolds, TypeOK, ThreadOK
  <1>5. /\ SessionOK(s) /\ completed[s] = NoRecord /\ Opened(s) /\ ~Closed(s)
    BY <1>2, <1>4, CompletedLater, InHandIsNext
  <1>6. HoldsAll(buf[w], s)
    BY <1>4, <1>5 DEF SessionOK
  <1>7. Went(e)' /\ ~Went(e) /\ e \notin collapsed
    BY <1>1, <1>2, <1>3, HandMoves, InHandIsNext
  <1>8. Fits(e, s, f) /\ \A g \in Fields \ {f} : ~Fits(e, s, g)
    <2>1. log[e].kind = LineOf(w).kind /\ log[e].sid = s /\ log[e].cmd = LineOf(w).cmd
      BY DEF LineOf, Sid
    <2>2. f = "commands" => LineOf(w).kind = "command"
      BY <1>1 DEF FieldOf
    <2> QED BY <1>1, <2>1, <2>2 DEF Fits, BelongsTo
  <1>9. Appended(s, f)' = Appended(s, f) \cup {e}
    <2>1. \A k : Went(k)' /\ Fits(k, s, f)' <=> (Went(k) /\ Fits(k, s, f)) \/ k = e
      BY <1>2, <1>3, <1>7, <1>8, HandMoves
    <2> QED BY <1>1, <1>2, <2>1 DEF Appended
  <1>10. \A g \in Fields \ {f} : Appended(s, g)' = Appended(s, g)
    BY <1>2, <1>3, <1>8, NothingAppended
  <1>11. \A j \in Appended(s, f) : j < e
    BY <1>2, <1>7, InHandIsNext DEF Appended
  <1>12. live'[s] = [buf[w] EXCEPT ![f] = Append(@, e)]
    BY <1>1 DEF AppendSet, TypeOK, StoreOK
  <1>13. HoldsAll(live[s], s)'
    <2>1. \A g \in Fields : /\ Members(live'[s][g]) = Appended(s, g)'
                            /\ Ascending(live'[s][g])
      <3>1. /\ live'[s][f] = Append(buf[w][f], e) /\ buf[w][f] \in Seq(Nat)
            /\ \A g \in Fields \ {f} : live'[s][g] = buf[w][g]
        BY <1>1, <1>4, <1>12 DEF Record
      <3>2. Members(live'[s][f]) = Appended(s, f)' /\ Ascending(live'[s][f])
        BY <1>1, <1>6, <1>9, <1>11, <3>1, SequenceAppends DEF HoldsAll
      <3>3. \A g \in Fields \ {f} :
               Members(live'[s][g]) = Appended(s, g)' /\ Ascending(live'[s][g])
        BY <1>6, <1>10, <3>1 DEF HoldsAll
      <3> QED BY <3>2, <3>3
    <2> QED BY <2>1 DEF HoldsAll, Ascending
  <1>14. live'[s] # NoRecord
    <2>1. [buf[w] EXCEPT ![f] = Append(@, e)] \in Record
      BY <1>1, <1>4, AppendedIsRecord
    <2> QED BY <1>12, <2>1, DataAssumption
  <1>15. Opened(s)' /\ ~Closed(s)'
    BY <1>1, <1>2, <1>3, <1>5, HandMoves DEF Opened, Closed
  <1>16. SessionOK(s)'
    BY <1>2, <1>5, <1>13, <1>14, <1>15 DEF SessionOK
  <1> QED BY <1>3, <1>16 DEF HandHolds, ClosePoints

\* The close takes the live record over into the completed one.
LEMMA CloseKeeps ==
    ASSUME OneWorker, KInv, TypeOK', ~LlmMayFail, NEW w \in Workers,
           \/ CloseLoad(w) \/ CloseAnalyse(w) \/ CloseStore(w) \/ CloseIndex(w) \/ CloseCount(w)
           \/ CloseEnrich(w) \/ CloseThreshold(w) \/ CloseAlert(w),
           NEW s, s = Sid(w)
    PROVE  SessionOK(s)' /\ HandHolds(w)'
  <1> PICK e : e = ev[w]
    OBVIOUS
  <1>1. /\ TypeOK /\ pc[w] \in {"load"} \cup ClosePoints /\ LineOf(w).kind = "closed"
        /\ pc[w] # "idle" /\ s \in Sessions
    <2>1. pc[w] \in {"load"} \cup ClosePoints
      BY DEF CloseLoad, CloseAnalyse, CloseStore, CloseIndex, CloseCount, CloseEnrich,
             CloseThreshold, CloseAlert, ClosePoints
    <2>2. pc[w] # "idle"
      BY <2>1 DEF ClosePoints
    <2> QED BY <2>1, <2>2, InHandIsNext DEF KInv, FInv, RInv, TInv, HandKinds, HandKind
  <1>2. /\ Work(w) /\ ~TakeEvent(w) /\ log' = log /\ live' = live /\ collapsed' = collapsed
    BY <1>1 DEF CloseLoad, CloseAnalyse, CloseStore, CloseIndex, CloseCount, CloseEnrich,
            CloseThreshold, CloseAlert, Work, TakeEvent, file, store, history
  <1>3. Goes(w) /\ pc'[w] \in ClosePoints
    <2>1. \E p \in ClosePoints : Goto(w, p)
      BY DEF CloseLoad, CloseAnalyse, CloseStore, CloseIndex, CloseCount, CloseEnrich,
             CloseThreshold, CloseAlert, AfterStore, ClosePoints
    <2>2. ClosePoints \subseteq ControlPoints \ {"idle"}
      BY DEF ClosePoints, ControlPoints
    <2> QED BY <1>1, <1>2, <2>1, <2>2, WorkerStands
  <1>4. /\ completed'[s] = completed[s] \/ (pc[w] \in ClosePoints /\ completed'[s] = buf[w])
    BY <1>1 DEF CloseLoad, CloseAnalyse, CloseStore, CloseIndex, CloseCount, CloseEnrich,
           CloseThreshold, CloseAlert, TypeOK, StoreOK, store, ClosePoints
  <1>5. \/ pc[w] \in ClosePoints /\ buf'[w] = buf[w]
        \/ pc[w] = "load" /\ buf'[w] = IF live[s] = NoRecord THEN EmptyRecord ELSE live[s]
    <2>1. CASE CloseLoad(w)
      BY <1>1, <2>1 DEF CloseLoad, TypeOK, ThreadOK
    <2>2. CASE CloseAnalyse(w)
      BY <1>3, <2>2, WorkerStands, <1>1, <1>2 DEF CloseAnalyse, ClosePoints
    <2>3. CASE CloseStore(w) \/ CloseIndex(w) \/ CloseCount(w) \/ CloseEnrich(w)
               \/ CloseThreshold(w) \/ CloseAlert(w)
      BY <2>3 DEF CloseStore, CloseIndex, CloseCount, CloseEnrich, CloseThreshold, CloseAlert,
             ClosePoints
    <2> QED BY <2>1, <2>2, <2>3
  <1>6. SessionOK(s) /\ ~Closed(s) /\ (live[s] = NoRecord <=> ~Opened(s))
    BY <1>1, CompletedLater, InHandIsNext
  <1>7. (Opened(s)' <=> Opened(s)) /\ ~Closed(s)' /\ Sid(w)' = s
    <2>1. ~Ends(w)
      BY <1>1, <1>3 DEF Ends, TypeOK, ThreadOK, ClosePoints
    <2>2. pc'[w] # "idle"
      BY <1>3 DEF ClosePoints
    <2> QED BY <1>2, <1>3, <1>6, <2>1, <2>2, HandMoves DEF Opened, Closed
  <1>8. \A f : Appended(s, f)' = Appended(s, f)
    <2>1. \A f : ~Fits(e, s, f)
      BY <1>1 DEF Fits, BelongsTo, LineOf
    <2> QED BY <1>2, <1>3, <2>1, NothingAppended
  <1>9. Closing(s)'
    BY <1>3, <1>7 DEF Closing
  <1>10. Opened(s) => /\ live[s] # NoRecord /\ HoldsAll(live[s], s)
                      /\ pc[w] \in ClosePoints => HoldsAll(buf[w], s)
                      /\ completed[s] # NoRecord => HoldsAll(completed[s], s)
    BY <1>6 DEF SessionOK, KInv, HandHolds
  <1>11. \A r, q : q = r /\ HoldsAll(r, s) =>
            \A f \in Fields : /\ Members(q[f]) = Appended(s, f)'
                              /\ Ascending(q[f])
    BY <1>8 DEF HoldsAll
  <1>12. Opened(s) => HoldsAll(live[s], s)' /\ live'[s] # NoRecord
    BY <1>2, <1>10, <1>11 DEF HoldsAll
  <1>13. Opened(s) /\ completed'[s] # NoRecord => HoldsAll(completed[s], s)'
    <2> SUFFICES ASSUME Opened(s), completed'[s] # NoRecord PROVE HoldsAll(completed[s], s)'
      OBVIOUS
    <2>1. \/ completed'[s] = completed[s] /\ HoldsAll(completed[s], s)
          \/ completed'[s] = buf[w] /\ HoldsAll(buf[w], s)
      BY <1>4, <1>10
    <2>2. \A f \in Fields :
             /\ Members(completed'[s][f]) = Appended(s, f)'
             /\ Ascending(completed'[s][f])
      BY <1>11, <2>1
    <2> QED BY <2>2 DEF HoldsAll, Ascending
  <1>14. Opened(s) => HoldsAll(buf[w], Sid(w))'
    <2>1. Opened(s) => \A f \in Fields :
             /\ Members(buf'[w][f]) = Appended(s, f)'
             /\ Ascending(buf'[w][f])
      BY <1>5, <1>10, <1>11
    <2>2. \A f : Appended(Sid(w), f)' = Appended(s, f)'
      BY <1>7
    <2> QED BY <2>1, <2>2 DEF HoldsAll
  <1>15. SessionOK(s)'
    BY <1>2, <1>6, <1>7, <1>9, <1>12, <1>13 DEF SessionOK
  <1>16. Opened(Sid(w))' => Opened(s)
    BY <1>7
  <1> QED BY <1>3, <1>14, <1>15, <1>16 DEF HandHolds, ClosePoints

LEMMA DeleteKeeps ==
    ASSUME OneWorker, KInv, TypeOK', NEW w \in Workers, CloseDelete(w), NEW s, s = Sid(w)
    PROVE  SessionOK(s)' /\ HandHolds(w)'
  <1> PICK e : e = ev[w]
    OBVIOUS
  <1>1. /\ TypeOK /\ pc[w] = "delete" /\ LineOf(w).kind = "closed" /\ s \in Sessions
    BY InHandIsNext DEF KInv, FInv, RInv, TInv, CloseDelete, HandKinds, HandKind, ClosePoints
  <1>2. /\ Ends(w) /\ pc'[w] = "idle" /\ log' = log /\ collapsed' = collapsed
        /\ completed' = completed /\ live'[s] = NoRecord
    BY <1>1, WorkerStands DEF CloseDelete, TypeOK, StoreOK, Work, TakeEvent, file
  <1>3. \A f : Appended(s, f)' = Appended(s, f)
    <2>1. \A f : ~Fits(e, s, f)
      BY <1>1 DEF Fits, BelongsTo, LineOf
    <2> QED BY <1>2, <2>1, NothingAppended
  <1>4. (Opened(s)' <=> Opened(s)) /\ Closed(s)'
    BY <1>1, <1>2, HandMoves DEF Opened, Closed
  <1>5. SessionOK(s)
    BY <1>1 DEF KInv
  <1>6. Opened(s) /\ completed'[s] # NoRecord => HoldsAll(completed[s], s)'
    BY <1>2, <1>3, <1>5 DEF SessionOK, HoldsAll
  <1>7. SessionOK(s)'
    BY <1>2, <1>4, <1>6 DEF SessionOK
  <1> QED BY <1>2, <1>7 DEF HandHolds, ClosePoints

LEMMA StepKInv ==
    ASSUME OneWorker, ~LlmMayFail, KInv, Calm, Calm', [Next]_vars PROVE KInv'
  <1>1. FInv'
    BY StepDelivers DEF KInv, Calm
  <1>2. TypeOK' /\ RInv /\ TInv /\ TypeOK
    BY <1>1 DEF KInv, FInv, RInv, TInv
  <1>3. LogOK' /\ InOrder' /\ HandKinds'
    BY <1>2, StepLogOK, StepInOrder, StepHandKinds DEF KInv, Calm
  <1>4. /\ \A s \in Sessions : SessionOK(s)'
        /\ \A w \in Workers : HandHolds(w)'
    <2>1. ASSUME NEW w \in Workers, Work(w), ~TakeEvent(w)
          PROVE  /\ \A s \in Sessions : SessionOK(s)'
                 /\ HandHolds(w)'
      <3> PICK e : e = ev[w]
        OBVIOUS
      <3>1. pc[w] # "idle" /\ (Ends(w) \/ Goes(w))
        BY <2>1, WorkerMoves DEF Ends, Goes
      <3>2. /\ collapsed' = collapsed \/ collapsed' = collapsed \cup {e}
            /\ \A s \in Sessions \ {Sid(w)} : live'[s] = live[s] /\ completed'[s] = completed[s]
        <4>1. Sid(w) \in Sessions
          BY <3>1, InHandIsNext
        <4> QED BY <1>2, <2>1, <4>1 DEF Work, Connect, Dedup, AppendGet, AppendSet, RiskAlert,
               CloseLoad, CloseAnalyse, CloseStore, CloseIndex, CloseCount, CloseEnrich,
               CloseThreshold, CloseAlert, CloseDelete, store, history, TypeOK, StoreOK
      <3>3. \A s \in Sessions \ {Sid(w)} : SessionOK(s)'
        BY <1>2, <3>1, <3>2, OthersStay
      <3>4. \A s : s = Sid(w) => SessionOK(s)' /\ HandHolds(w)'
        BY <1>2, <2>1, ConnectKeeps, HandlerKeeps, AppendKeeps, CloseKeeps, DeleteKeeps DEF Work
      <3> QED BY <3>3, <3>4
    <2>2. CASE \E w \in Workers : Work(w) /\ ~TakeEvent(w)
      BY <2>1, <2>2 DEF OneWorker
    <2>3. CASE ~(\E w \in Workers : Work(w) /\ ~TakeEvent(w))
      <3>1. ~(\E w \in Workers : RedisFault(w)) /\ ~Crash
        <4>1. ASSUME NEW w \in Workers, RedisFault(w) PROVE FALSE
          BY <1>2, <4>1 DEF RedisFault, Calm, TypeOK, OtherOK
        <4> QED BY <1>2, <4>1 DEF Crash, Calm
      <3>2. CASE \E w \in Workers : TakeEvent(w)
        <4>1. UNCHANGED <<log, done, collapsed, buf, live, completed>>
          BY <3>2 DEF TakeEvent, file, store, history
        <4> QED BY <1>2, <3>2, <4>1, QuietKeeps
      <3>3. CASE ~(\E w \in Workers : TakeEvent(w))
        <4>1. ASSUME NEW s \in Sessions, LiveExpires(s) PROVE FALSE
          BY <1>2, <4>1 DEF LiveExpires, Calm, TypeOK, OtherOK
        <4>2. CASE \E s \in Sessions : CompletedExpires(s)
          <5>1. /\ UNCHANGED <<log, done, collapsed, buf, live, pc, ev>>
                /\ \A s \in Sessions : completed'[s] = completed[s] \/ completed'[s] = NoRecord
            BY <1>2, <4>2 DEF CompletedExpires, file, thread, history, TypeOK, StoreOK
          <5> QED BY <1>2, <5>1, QuietKeeps
        <4>3. CASE ~(\E s \in Sessions : CompletedExpires(s))
          <5>1. /\ UNCHANGED <<done, collapsed, buf, live, completed, pc, ev>>
                /\ UNCHANGED log \/ \E e \in Event : HoneypotWrite(e)
            BY <2>3, <3>1, <3>3, <4>1, <4>3 DEF Next, HoneypotWrite, HoneypotFinishLine, Watch,
               WatchOpen, WatchLine, WatchTorn, WatchSave, SavedExpires, TakeAlert, DedupExpires,
               vars, file, thread, store, history
          <5> QED BY <1>2, <5>1, QuietKeeps
        <4> QED BY <4>2, <4>3
      <3> QED BY <3>2, <3>3
    <2> QED BY <2>2, <2>3
  <1> QED BY <1>1, <1>3, <1>4 DEF KInv

\* With one event worker, a LLM that answers, and no crash and no failing Redis call,
\* a completed session holds exactly the lines of its log that were handled, in log
\* order, and no live record is left once the close was handled: nothing that is
\* appended gets lost between two events, or is put where it does not belong.
THEOREM OneWorkerKeepsTheLog ==
    ASSUME Cardinality(Workers) = 1, ~LlmMayFail
    PROVE  Spec /\ []Calm => []CompletedIsTheLog
  <1>1. OneWorker
    <2>1. \E w : Workers = {w}
      BY WorkersAssumption, FS_Singleton
    <2> QED BY <2>1 DEF OneWorker
  <1>2. Init => KInv
    <2> SUFFICES ASSUME Init PROVE KInv
      OBVIOUS
    <2>1. RInv /\ TInv /\ Len(log) = 0 /\ queue = <<>> /\ done = {} /\ collapsed = {}
      BY InitRInv, EmptySeq DEF RInv, Init
    <2>2. LogOK /\ InOrder
      BY <2>1, PlacesOfLines DEF LogOK, InOrder, InHand, Init
    <2>3. /\ \A w \in Workers : pc[w] = "idle"
          /\ \A s \in Sessions : live[s] = NoRecord /\ completed[s] = NoRecord
      BY DEF Init
    <2>4. HandKinds /\ \A w \in Workers : HandHolds(w)
      BY <2>3 DEF HandKinds, HandKind, HandHolds, ClosePoints
    <2>5. \A s \in Sessions : SessionOK(s)
      BY <2>1, <2>3 DEF SessionOK, Opened, Closed, Handled
    <2>6. FInv
      BY InitDelivers
    <2> QED BY <2>2, <2>4, <2>5, <2>6 DEF KInv
  <1>3. KInv /\ Calm /\ Calm' /\ [Next]_vars => KInv'
    BY <1>1, StepKInv
  <1>4. KInv => CompletedIsTheLog
    <2> SUFFICES ASSUME KInv, Idle, NEW s \in Sessions
                 PROVE  /\ completed[s] # NoRecord /\ Handled(s, "connect")
                              => IsTheLog(completed[s], s)
                        /\ Handled(s, "closed") => live[s] = NoRecord
      BY DEF CompletedIsTheLog
    <2>1. \A f : Appended(s, f) = Kept(s, f)
      <3>1. \A k : Went(k) <=> k \in done \ collapsed
        BY DEF Went, Idle
      <3>2. done \subseteq 1..Len(log)
        BY DEF KInv, FInv, RInv, TInv, TypeOK, HistoryOK
      <3> QED BY <3>1, <3>2 DEF Appended, Kept, Fits
    <2>2. SessionOK(s)
      BY DEF KInv
    <2>3. HoldsAll(completed[s], s) => IsTheLog(completed[s], s)
      BY <2>1 DEF HoldsAll, IsTheLog, Members
    <2> QED BY <2>2, <2>3 DEF SessionOK, Opened, Closed
  <1> QED BY <1>2, <1>3, <1>4, PTL DEF Spec
=============================================================================
