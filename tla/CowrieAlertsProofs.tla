------------------------- MODULE CowrieAlertsProofs -------------------------
(***************************************************************************)
(* Proofs about CowrieAlerts, for any workers, addresses, campaigns, caps  *)
(* and bounds: the type invariant, the cap of a window, the cap of an      *)
(* address and that a campaign is alerted once.                            *)
(***************************************************************************)
EXTENDS CowrieAlerts, TLAPS, SequenceTheorems

LEMMA TriageType == \A a \in ThreatDecisions : a \in Actions
  BY DEF ThreatDecisions, Triage, Actions

\* A put on the bounded queue keeps its type and its bound.
LEMMA EnqueueType ==
  ASSUME queue \in Seq(Types), Len(queue) <= AlertMax,
         NEW t \in Types, Enqueue(t)
  PROVE  queue' \in Seq(Types) /\ Len(queue') <= AlertMax
  <1>1. CASE Len(queue) < AlertMax
    <2>1. queue' = Append(queue, t)
      BY <1>1 DEF Enqueue
    <2>2. queue' \in Seq(Types) /\ Len(queue') = Len(queue) + 1
      BY <2>1, AppendProperties
    <2> QED BY <1>1, <2>2, LenProperties, AlertBounds
  <1>2. CASE ~(Len(queue) < AlertMax)
    BY <1>2 DEF Enqueue
  <1> QED BY <1>1, <1>2

\* The steps of an event worker.
LEMMA CheckTypeOK == ASSUME TypeOK, NEW w \in Workers, Close(w) \/ HighRisk(w) \/ Check(w)
                      PROVE  TypeOK'
  <1> USE DEF TypeOK, Counter, counters, sender, env, tally, history, Points, Actions
  <1>0. ASSUME NEW p \in Points, Goto(w, p)
        PROVE  pc' \in [Workers -> Points]
    BY <1>0 DEF Goto
  <1>1. CASE Close(w)
    <2>1. sessions' \in Nat
      <3>1. sessions \in Nat /\ sessions' = sessions + 1
        BY <1>1 DEF Close
      <3> HIDE DEF TypeOK
      <3> QED BY <3>1
    <2>2. CASE Goto(w, "session") /\ UNCHANGED job
      BY <1>0, <1>1, <2>1, <2>2 DEF Close
    <2>3. ASSUME NEW a \in ThreatDecisions, NEW i \in Ips, NEW g \in Sigs,
                 Goto(w, IF a = "alert" THEN "velocity" ELSE "record"),
                 job' = [job EXCEPT ![w] = [ip |-> i, sig |-> g, action |-> a]]
          PROVE  TypeOK'
      <3>1. [ip |-> i, sig |-> g, action |-> a] \in [ip : Ips, sig : Sigs, action : Actions]
        BY TriageType
      <3>2. job' \in [Workers -> [ip : Ips, sig : Sigs, action : Actions]]
        BY <2>3, <3>1
      <3>3. (IF a = "alert" THEN "velocity" ELSE "record") \in {"velocity", "record"}
        OBVIOUS
      <3>4. pc' \in [Workers -> Points]
        BY <1>0, <2>3, <3>3
      <3>5. UNCHANGED <<counters, queue, window, sender, crashes, faults, history>>
        BY <1>1 DEF Close
      <3> HIDE DEF Points, Actions
      <3> QED BY <2>1, <3>2, <3>4, <3>5
    <2> QED BY <1>1, <2>2, <2>3 DEF Close
  <1>2. CASE Velocity(w)
    <2>0. job[w].ip \in Ips /\ velocity[job[w].ip].n + 1 \in Nat
      OBVIOUS
    <2>1. velocity' \in [Ips -> Counter]
      <3>1. /\ velocity \in [Ips -> Counter]
            /\ velocity' = [velocity EXCEPT ![job[w].ip].n = velocity[job[w].ip].n + 1]
        BY <1>2 DEF Velocity
      <3> HIDE DEF TypeOK
      <3> QED BY <2>0, <3>1
    <2>2. pc' \in [Workers -> Points]
      <3>1. CASE velocity[job[w].ip].n + 1 = 1
        BY <1>0, <1>2, <3>1 DEF Velocity
      <3>2. CASE velocity[job[w].ip].n + 1 # 1
        BY <1>0, <1>2, <3>2 DEF Velocity
      <3> QED BY <3>1, <3>2
    <2>3. job' \in [Workers -> [ip : Ips, sig : Sigs, action : Actions]]
      <3>1. \/ job' = job
            \/ job' = [job EXCEPT ![w].action = "summarize"]
        BY <1>2 DEF Velocity
      <3>2. CASE job' = [job EXCEPT ![w].action = "summarize"]
        <4>1. "summarize" \in Actions
          OBVIOUS
        <4> HIDE DEF Actions
        <4> QED BY <3>2, <4>1
      <3> QED BY <3>1, <3>2
    <2>4. let' \in [Ips -> Nat]
      <3>1. let' = let \/ let' = [let EXCEPT ![job[w].ip] = @ + 1]
        BY <1>2 DEF Velocity
      <3>2. let[job[w].ip] + 1 \in Nat
        BY <2>0
      <3> QED BY <2>0, <3>1, <3>2
    <2>5. UNCHANGED <<dedup, queue, window, sender, env, tally, passed>>
      BY <1>2 DEF Velocity
    <2> QED BY <2>1, <2>2, <2>3, <2>4, <2>5
  <1>3. CASE VelocityTtl(w)
    BY <1>0, <1>3 DEF VelocityTtl
  <1>4. CASE Record(w)
    BY <1>4 DEF Record, Goto
  <1>5. CASE Dedup(w)
    <2>0. job[w].sig \in Sigs /\ dedup[job[w].sig].n + 1 \in Nat
      OBVIOUS
    <2>1. dedup' \in [Sigs -> Counter]
      BY <1>5, <2>0 DEF Dedup
    <2>2. pc' \in [Workers -> Points]
      <3>1. Goto(w, "dedup_ttl") \/ Goto(w, "session")
        BY <1>5 DEF Dedup
      <3> QED BY <1>0, <3>1
    <2>3. passed' \in [Sigs -> Nat]
      <3>1. passed' = passed \/ passed' = [passed EXCEPT ![job[w].sig] = @ + 1]
        BY <1>5 DEF Dedup
      <3>2. passed[job[w].sig] + 1 \in Nat
        BY <2>0
      <3> QED BY <2>0, <3>1, <3>2
    <2> QED BY <1>5, <2>1, <2>2, <2>3 DEF Dedup
  <1>6. CASE DedupTtl(w)
    BY <1>0, <1>6 DEF DedupTtl
  <1>7. CASE QueueThreat(w)
    <2>1. (IF job[w].action = "summarize" THEN "summarized" ELSE "high_threat") \in Types
      BY DEF Types
    <2>2. queue' \in Seq(Types) /\ Len(queue') <= AlertMax
      BY <1>7, <2>1, EnqueueType DEF QueueThreat
    <2> QED BY <1>0, <1>7, <2>2 DEF QueueThreat
  <1>8. CASE QueueSession(w)
    <2>1. queue' \in Seq(Types) /\ Len(queue') <= AlertMax
      BY <1>8, EnqueueType DEF QueueSession, Types
    <2> QED BY <1>0, <1>8, <2>1 DEF QueueSession
  <1>9. CASE HighRisk(w)
    <2>1. queue' \in Seq(Types) /\ Len(queue') <= AlertMax
      BY <1>9, EnqueueType DEF HighRisk, Types
    <2> QED BY <1>9, <2>1 DEF HighRisk
  <1> QED BY <1>1, <1>2, <1>3, <1>4, <1>5, <1>6, <1>7, <1>8, <1>9 DEF Check

\* The steps of the alert worker.
LEMMA SenderTypeOK == ASSUME TypeOK, Take \/ Send \/ SenderFault PROVE TypeOK'
  <1> USE DEF TypeOK, Counter, counters, sender, env, tally, history, Points, Actions
  <1>1. CASE Take
    <2>1. Head(queue) \in Types /\ queue' \in Seq(Types) /\ Len(queue') <= AlertMax
      BY <1>1, HeadTailProperties, LenProperties, AlertBounds DEF Take
    <2>2. hand' \in Types \X Windows /\ last' \in {<<>>} \cup {<<k>> : k \in Windows}
      BY <1>1, <2>1 DEF Take
    <2>3. summed' \in Nat /\ pending' \in Nat /\ taken' \in Nat
      BY <1>1 DEF Take
    <2> QED BY <1>1, <2>1, <2>2, <2>3 DEF Take
  <1>2. CASE Send
    <2>1. hand[2] \in Windows
      BY <1>2 DEF Send
    <2>2. rate' \in [Windows -> Nat] /\ sentIn' \in [Windows -> Nat]
          /\ sent' \in Nat /\ pending' \in Nat
      <3>1. rate[hand[2]] + 1 \in Nat /\ sentIn[hand[2]] + 1 \in Nat
        BY <2>1
      <3>2. /\ rate' = [rate EXCEPT ![hand[2]] = rate[hand[2]] + 1]
            /\ sentIn' \in {sentIn, [sentIn EXCEPT ![hand[2]] = sentIn[hand[2]] + 1]}
            /\ sent' \in {sent, sent + 1} /\ pending' \in {pending, pending + 1}
        BY <1>2 DEF Send
      <3>3. /\ rate \in [Windows -> Nat] /\ sentIn \in [Windows -> Nat]
            /\ sent \in Nat /\ pending \in Nat
        OBVIOUS
      <3> HIDE DEF TypeOK
      <3> QED BY <2>1, <3>1, <3>2, <3>3
    <2> QED BY <1>2, <2>2 DEF Send
  <1>3. CASE SenderFault
    <2>1. hand[2] \in Windows
      BY <1>3 DEF SenderFault
    <2>2. rate' \in [Windows -> Nat] /\ faults' \in Nat
      BY <1>3, <2>1 DEF SenderFault
    <2> QED BY <1>3, <2>2 DEF SenderFault
  <1> QED BY <1>1, <1>2, <1>3

\* A call that raises may have been carried out: a counter only grows.
LEMMA FaultCounts ==
    ASSUME TypeOK, NEW w \in Workers, WorkerFault(w)
    PROVE  /\ velocity' \in [Ips -> Counter] /\ dedup' \in [Sigs -> Counter]
           /\ \A i \in Ips : velocity[i].n <= velocity'[i].n
           /\ \A g \in Sigs : dedup[g].n <= dedup'[g].n
  <1>1. /\ velocity \in [Ips -> Counter] /\ dedup \in [Sigs -> Counter]
        /\ job[w].ip \in Ips /\ job[w].sig \in Sigs
    BY DEF TypeOK
  <1> DEFINE i == job[w].ip
             g == job[w].sig
  <1>2. \/ UNCHANGED counters
        \/ dedup' = dedup /\ velocity' = [velocity EXCEPT ![i].n = @ + 1]
        \/ dedup' = dedup /\ velocity' = [velocity EXCEPT ![i].ttl = TRUE]
        \/ velocity' = velocity /\ dedup' = [dedup EXCEPT ![g].n = @ + 1]
        \/ velocity' = velocity /\ dedup' = [dedup EXCEPT ![g].ttl = TRUE]
    BY DEF WorkerFault, counters
  <1> HIDE DEF i, g
  <1>3. i \in Ips /\ g \in Sigs
    BY <1>1 DEF i, g
  <1>4. CASE UNCHANGED counters
    BY <1>1, <1>4 DEF counters, Counter
  <1>5. CASE dedup' = dedup /\ velocity' = [velocity EXCEPT ![i].n = @ + 1]
    BY <1>1, <1>3, <1>5 DEF Counter
  <1>0. \A c \in Counter : [c EXCEPT !.ttl = TRUE] \in Counter /\ [c EXCEPT !.ttl = TRUE].n = c.n
    BY DEF Counter
  <1>6. CASE dedup' = dedup /\ velocity' = [velocity EXCEPT ![i].ttl = TRUE]
    <2>1. velocity' = [velocity EXCEPT ![i] = [velocity[i] EXCEPT !.ttl = TRUE]]
      BY <1>6
    <2>2. \A j \in Ips : velocity'[j] \in Counter /\ velocity'[j].n = velocity[j].n
      BY <1>0, <1>1, <1>3, <2>1
    <2>3. velocity' \in [Ips -> Counter]
      BY <1>0, <1>1, <1>3, <2>1
    <2>4. \A j \in Ips : velocity[j].n \in Nat
      BY <1>1 DEF Counter
    <2>5. \A h \in Sigs : dedup[h].n \in Nat
      BY <1>1 DEF Counter
    <2> QED BY <1>1, <1>6, <2>2, <2>3, <2>4, <2>5
  <1>7. CASE velocity' = velocity /\ dedup' = [dedup EXCEPT ![g].n = @ + 1]
    BY <1>1, <1>3, <1>7 DEF Counter
  <1>8. CASE velocity' = velocity /\ dedup' = [dedup EXCEPT ![g].ttl = TRUE]
    <2>1. dedup' = [dedup EXCEPT ![g] = [dedup[g] EXCEPT !.ttl = TRUE]]
      BY <1>8
    <2>2. \A h \in Sigs : dedup'[h] \in Counter /\ dedup'[h].n = dedup[h].n
      BY <1>0, <1>1, <1>3, <2>1
    <2>3. dedup' \in [Sigs -> Counter]
      BY <1>0, <1>1, <1>3, <2>1
    <2>4. \A j \in Ips : velocity[j].n \in Nat
      BY <1>1 DEF Counter
    <2>5. \A h \in Sigs : dedup[h].n \in Nat
      BY <1>1 DEF Counter
    <2> QED BY <1>1, <1>8, <2>2, <2>3, <2>4, <2>5
  <1> QED BY <1>2, <1>4, <1>5, <1>6, <1>7, <1>8

LEMMA StepTypeOK == TypeOK /\ [Next]_vars => TypeOK'
  <1> SUFFICES ASSUME TypeOK, [Next]_vars PROVE TypeOK'
    OBVIOUS
  <1> USE DEF TypeOK, Counter, counters, sender, env, tally, history, Points, Actions
  <1>1. ASSUME NEW w \in Workers, WorkerFault(w) PROVE TypeOK'
    <2>1. pc' \in [Workers -> Points]
      BY <1>1 DEF WorkerFault, Goto
    <2>2. faults' \in Nat
      <3>1. faults' = faults + 1 /\ faults \in Nat
        BY <1>1 DEF WorkerFault
      <3> HIDE DEF TypeOK
      <3> QED BY <3>1
    <2>3. velocity' \in [Ips -> Counter] /\ dedup' \in [Sigs -> Counter]
      BY FaultCounts, <1>1
    <2> HIDE DEF Points
    <2> QED BY <1>1, <2>1, <2>2, <2>3 DEF WorkerFault
  <1>2. CASE Tick
    <2>1. window' \in Windows
      BY <1>2, AlertBounds DEF Tick, Windows
    <2> HIDE DEF Points, Actions
    <2> QED BY <1>2, <2>1 DEF Tick
  <1>3. ASSUME NEW i \in Ips, VelocityExpires(i) PROVE TypeOK'
    BY <1>3 DEF VelocityExpires, Absent
  <1>4. ASSUME NEW g \in Sigs, DedupExpires(g) PROVE TypeOK'
    BY <1>4 DEF DedupExpires, Absent
  <1>5. CASE Crash
    <2>1. <<>> \in Seq(Types) /\ Len(<<>>) = 0
      BY EmptySeq
    <2> QED BY <1>5, <2>1, AlertBounds DEF Crash
  <1>6. CASE UNCHANGED vars
    BY <1>6 DEF vars
  <1> QED BY <1>1, <1>2, <1>3, <1>4, <1>5, <1>6, CheckTypeOK, SenderTypeOK DEF Next

LEMMA InitTypeOK == Init => TypeOK
  <1> SUFFICES ASSUME Init PROVE TypeOK
    OBVIOUS
  <1>1. NoJob \in [ip : Ips, sig : Sigs, action : Actions]
    BY AlertBounds DEF NoJob, Actions
  <1>2. <<>> \in Seq(Types) /\ Len(<<>>) = 0
    BY EmptySeq
  <1>3. 0 \in Windows
    BY AlertBounds DEF Windows
  <1> QED BY <1>1, <1>2, <1>3, AlertBounds DEF Init, TypeOK, Counter, Absent, Points

\* Every variable keeps its type, for all values of the constants: the alert
\* queue never holds more than AlertMax alerts.
THEOREM AlertTypeCorrect == Spec => []TypeOK
  BY InitTypeOK, StepTypeOK, PTL DEF Spec

(***************************************************************************)
(* The counters of Redis bound what they let through: what is recorded as  *)
(* sent in a window, let through for an address or passed for a campaign   *)
(* is no more than what the counter has counted.                           *)
(***************************************************************************)
CountersBound ==
    /\ \A k \in Windows : sentIn[k] <= rate[k]
    /\ \A i \in Ips : let[i] <= velocity[i].n
    /\ \A g \in Sigs : passed[g] > 0 => dedup[g].n > 0

Caps == CountersBound /\ WindowCap /\ VelocityCap /\ CampaignAlertedOnce

LEMMA CapsUntouched ==
  ASSUME Caps, UNCHANGED <<velocity, dedup, rate, sentIn, passed, let>>
  PROVE  Caps'
  BY DEF Caps, CountersBound, WindowCap, VelocityCap, CampaignAlertedOnce

LEMMA StepCaps == TypeOK /\ Caps /\ [Next]_vars => Caps'
  <1> SUFFICES ASSUME TypeOK, Caps, [Next]_vars PROVE Caps'
    OBVIOUS
  <1> USE DEF counters, sender, env, tally, history
  <1> DEFINE kept == <<velocity, dedup, rate, sentIn, passed, let>>
  <1>1. ASSUME NEW w \in Workers, Velocity(w) PROVE Caps'
    <2> DEFINE i == job[w].ip
    <2>1. i \in Ips /\ velocity[i].n \in Nat /\ let[i] \in Nat
      BY DEF TypeOK, Counter
    <2>2. velocity' = [velocity EXCEPT ![i].n = velocity[i].n + 1]
      BY <1>1 DEF Velocity
    <2>3. UNCHANGED <<dedup, rate, sentIn, passed>>
      BY <1>1 DEF Velocity
    <2>4. \/ let' = let
          \/ velocity[i].n + 1 <= VelocityMax /\ let' = [let EXCEPT ![i] = let[i] + 1]
      BY <1>1, <2>1, AlertBounds DEF Velocity
    <2>5. \A j \in Ips : let'[j] <= velocity'[j].n /\ let'[j] <= VelocityMax
      <3> SUFFICES ASSUME NEW j \in Ips
                   PROVE  let'[j] <= velocity'[j].n /\ let'[j] <= VelocityMax
        OBVIOUS
      <3>1. velocity[j].n \in Nat /\ let[j] \in Nat /\ let[j] <= velocity[j].n
            /\ let[j] <= VelocityMax
        BY DEF TypeOK, Counter, Caps, CountersBound, VelocityCap
      <3>2. velocity'[j].n = IF j = i THEN velocity[i].n + 1 ELSE velocity[j].n
        BY <2>1, <2>2 DEF TypeOK, Counter
      <3>3. CASE let' = let
        BY <3>1, <3>2, <3>3
      <3>4. CASE velocity[i].n + 1 <= VelocityMax /\ let' = [let EXCEPT ![i] = let[i] + 1]
        <4>1. let'[j] = IF j = i THEN let[i] + 1 ELSE let[j]
          BY <2>1, <3>4 DEF TypeOK
        <4> QED BY <3>1, <3>2, <3>4, <4>1, <2>1, AlertBounds
      <3> QED BY <2>4, <3>3, <3>4
    <2> QED BY <2>3, <2>5 DEF Caps, CountersBound, WindowCap, VelocityCap, CampaignAlertedOnce
  <1>2. ASSUME NEW w \in Workers, VelocityTtl(w) PROVE Caps'
    <2>1. \A j \in Ips : velocity'[j].n = velocity[j].n
      BY <1>2 DEF VelocityTtl, TypeOK, Counter
    <2>2. UNCHANGED <<dedup, rate, sentIn, passed, let>>
      BY <1>2 DEF VelocityTtl
    <2> QED BY <2>1, <2>2 DEF Caps, CountersBound, WindowCap, VelocityCap, CampaignAlertedOnce
  <1>3. ASSUME NEW w \in Workers, Dedup(w) PROVE Caps'
    <2> DEFINE g == job[w].sig
    <2>1. g \in Sigs /\ dedup[g].n \in Nat /\ passed[g] \in Nat
      BY DEF TypeOK, Counter
    <2>2. dedup' = [dedup EXCEPT ![g].n = dedup[g].n + 1]
      BY <1>3 DEF Dedup
    <2>3. UNCHANGED <<velocity, rate, sentIn, let>>
      BY <1>3 DEF Dedup
    <2>4. \/ passed' = passed
          \/ dedup[g].n = 0 /\ passed' = [passed EXCEPT ![g] = passed[g] + 1]
      BY <1>3 DEF Dedup
    <2>5. \A h \in Sigs : passed'[h] <= 1 /\ (passed'[h] > 0 => dedup'[h].n > 0)
      <3> SUFFICES ASSUME NEW h \in Sigs
                   PROVE  passed'[h] <= 1 /\ (passed'[h] > 0 => dedup'[h].n > 0)
        OBVIOUS
      <3>1. dedup[h].n \in Nat /\ passed[h] \in Nat /\ passed[h] <= 1
            /\ (passed[h] > 0 => dedup[h].n > 0)
        BY DEF TypeOK, Counter, Caps, CountersBound, CampaignAlertedOnce
      <3>2. dedup'[h].n = IF h = g THEN dedup[g].n + 1 ELSE dedup[h].n
        BY <2>1, <2>2 DEF TypeOK, Counter
      <3>3. CASE passed' = passed
        BY <3>1, <3>2, <3>3
      <3>4. CASE dedup[g].n = 0 /\ passed' = [passed EXCEPT ![g] = passed[g] + 1]
        <4>1. passed'[h] = IF h = g THEN passed[g] + 1 ELSE passed[h]
          BY <2>1, <3>4 DEF TypeOK
        <4> QED BY <3>1, <3>2, <3>4, <4>1, <2>1
      <3> QED BY <2>4, <3>3, <3>4
    <2> QED BY <2>3, <2>5 DEF Caps, CountersBound, WindowCap, VelocityCap, CampaignAlertedOnce
  <1>4. ASSUME NEW w \in Workers, DedupTtl(w) PROVE Caps'
    <2>1. \A h \in Sigs : dedup'[h].n = dedup[h].n
      BY <1>4 DEF DedupTtl, TypeOK, Counter
    <2>2. UNCHANGED <<velocity, rate, sentIn, passed, let>>
      BY <1>4 DEF DedupTtl
    <2> QED BY <2>1, <2>2 DEF Caps, CountersBound, WindowCap, VelocityCap, CampaignAlertedOnce
  <1>5. CASE Send
    <2> DEFINE k == hand[2]
    <2>1. k \in Windows /\ rate[k] \in Nat /\ sentIn[k] \in Nat
      BY <1>5 DEF Send, TypeOK
    <2>2. rate' = [rate EXCEPT ![k] = rate[k] + 1]
      BY <1>5 DEF Send
    <2>3. UNCHANGED <<velocity, dedup, passed, let>>
      BY <1>5 DEF Send
    <2>4. \/ sentIn' = sentIn
          \/ rate[k] + 1 <= GlobalMax /\ sentIn' = [sentIn EXCEPT ![k] = sentIn[k] + 1]
      BY <1>5, <2>1, AlertBounds DEF Send
    <2>5. \A m \in Windows : sentIn'[m] <= rate'[m] /\ sentIn'[m] <= GlobalMax
      <3> SUFFICES ASSUME NEW m \in Windows
                   PROVE  sentIn'[m] <= rate'[m] /\ sentIn'[m] <= GlobalMax
        OBVIOUS
      <3>1. rate[m] \in Nat /\ sentIn[m] \in Nat /\ sentIn[m] <= rate[m]
            /\ sentIn[m] <= GlobalMax
        BY DEF TypeOK, Caps, CountersBound, WindowCap
      <3>2. rate'[m] = IF m = k THEN rate[k] + 1 ELSE rate[m]
        BY <2>1, <2>2 DEF TypeOK
      <3>3. CASE sentIn' = sentIn
        BY <3>1, <3>2, <3>3
      <3>4. CASE rate[k] + 1 <= GlobalMax /\ sentIn' = [sentIn EXCEPT ![k] = sentIn[k] + 1]
        <4>1. sentIn'[m] = IF m = k THEN sentIn[k] + 1 ELSE sentIn[m]
          BY <2>1, <3>4 DEF TypeOK
        <4> QED BY <3>1, <3>2, <3>4, <4>1, <2>1, AlertBounds
      <3> QED BY <2>4, <3>3, <3>4
    <2> QED BY <2>3, <2>5 DEF Caps, CountersBound, WindowCap, VelocityCap, CampaignAlertedOnce
  <1>6. CASE SenderFault
    <2>1. hand[2] \in Windows
      BY <1>6 DEF SenderFault, TypeOK
    <2>2. \A m \in Windows : rate[m] <= rate'[m] /\ rate'[m] \in Nat /\ rate[m] \in Nat
      <3>1. \A m \in Windows : rate[m] \in Nat
        BY DEF TypeOK
      <3>2. CASE rate' = rate
        BY <3>1, <3>2
      <3>3. CASE rate' = [rate EXCEPT ![hand[2]] = @ + 1]
        <4>1. \A m \in Windows : rate'[m] = IF m = hand[2] THEN rate[m] + 1 ELSE rate[m]
          BY <2>1, <3>3 DEF TypeOK
        <4> QED BY <3>1, <4>1
      <3> QED BY <1>6, <3>2, <3>3 DEF SenderFault
    <2>3. UNCHANGED <<velocity, dedup, sentIn, passed, let>>
      BY <1>6 DEF SenderFault
    <2>4. \A m \in Windows : sentIn'[m] <= rate'[m]
      BY <2>2, <2>3 DEF Caps, CountersBound, TypeOK
    <2> QED BY <2>3, <2>4 DEF Caps, CountersBound, WindowCap, VelocityCap, CampaignAlertedOnce
  <1>7. ASSUME NEW i \in Ips, VelocityExpires(i) PROVE Caps'
    <2>1. \A j \in Ips : let'[j] <= velocity'[j].n /\ let'[j] <= VelocityMax
      BY <1>7, AlertBounds
      DEF VelocityExpires, Absent, TypeOK, Counter, Caps, CountersBound, VelocityCap
    <2>2. UNCHANGED <<dedup, rate, sentIn, passed>>
      BY <1>7 DEF VelocityExpires
    <2> QED BY <2>1, <2>2 DEF Caps, CountersBound, WindowCap, VelocityCap, CampaignAlertedOnce
  <1>8. ASSUME NEW g \in Sigs, DedupExpires(g) PROVE Caps'
    <2>1. \A h \in Sigs : passed'[h] <= 1 /\ (passed'[h] > 0 => dedup'[h].n > 0)
      BY <1>8
      DEF DedupExpires, Absent, TypeOK, Counter, Caps, CountersBound, CampaignAlertedOnce
    <2>2. UNCHANGED <<velocity, rate, sentIn, let>>
      BY <1>8 DEF DedupExpires
    <2> QED BY <2>1, <2>2 DEF Caps, CountersBound, WindowCap, VelocityCap, CampaignAlertedOnce
  <1>9. ASSUME NEW w \in Workers,
               \/ Close(w) \/ HighRisk(w) \/ Record(w)
               \/ QueueThreat(w) \/ QueueSession(w)
        PROVE  UNCHANGED kept
    <2>1. CASE Close(w)
      BY <2>1 DEF Close
    <2>2. CASE HighRisk(w)
      BY <2>2 DEF HighRisk
    <2>3. CASE Record(w)
      BY <2>3 DEF Record
    <2>4. CASE QueueThreat(w) \/ QueueSession(w)
      BY <2>4 DEF QueueThreat, QueueSession
    <2> QED BY <1>9, <2>1, <2>2, <2>3, <2>4
  <1>10. CASE Take \/ Tick \/ Crash \/ UNCHANGED vars
    <2>1. UNCHANGED kept
      BY <1>10 DEF Take, Tick, Crash, vars
    <2> QED BY <2>1, CapsUntouched
  <1>11. ASSUME NEW w \in Workers, WorkerFault(w) PROVE Caps'
    <2>1. UNCHANGED <<rate, sentIn, passed, let>>
      BY <1>11 DEF WorkerFault, sender, history, tally
    <2>2. /\ \A i \in Ips : velocity[i].n \in Nat /\ velocity'[i].n \in Nat
                            /\ velocity[i].n <= velocity'[i].n
          /\ \A g \in Sigs : dedup[g].n \in Nat /\ dedup'[g].n \in Nat
                             /\ dedup[g].n <= dedup'[g].n
      BY <1>11, FaultCounts DEF TypeOK, Counter
    <2>3. \A i \in Ips : let[i] <= velocity'[i].n
      <3>1. \A i \in Ips : let[i] \in Nat /\ let[i] <= velocity[i].n
        BY DEF Caps, CountersBound, TypeOK
      <3> QED BY <2>2, <3>1
    <2>4. \A g \in Sigs : passed[g] > 0 => dedup'[g].n > 0
      BY <2>2 DEF Caps, CountersBound
    <2> QED
      BY <2>1, <2>3, <2>4 DEF Caps, CountersBound, WindowCap, VelocityCap, CampaignAlertedOnce
  <1> HIDE DEF kept
  <1> QED
    BY <1>1, <1>2, <1>3, <1>4, <1>5, <1>6, <1>7, <1>8, <1>9, <1>10, <1>11, CapsUntouched
    DEF Next, Check, kept

LEMMA InitCaps == Init => Caps
  BY AlertBounds
  DEF Init, Caps, CountersBound, WindowCap, VelocityCap, CampaignAlertedOnce, Absent

\* What the alert worker took is accounted for after every step of its own,
\* and no other step without a crash or fault touches its counts.
LEMMA StepCounts == TypeOK /\ NothingVanishes /\ [Next]_vars => NothingVanishes'
  <1> SUFFICES ASSUME TypeOK, NothingVanishes, Calm', [Next]_vars
               PROVE  (taken = sent + summed + pending + (IF hand = <<>> THEN 0 ELSE 1))'
    BY DEF NothingVanishes
  <1>0. taken \in Nat /\ sent \in Nat /\ summed \in Nat /\ pending \in Nat
    BY DEF TypeOK
  <1>1. CASE Take
    <2>1. /\ crashes' = crashes /\ faults' = faults /\ sent' = sent
          /\ hand = <<>> /\ hand' # <<>> /\ taken' = taken + 1
      BY <1>1 DEF Take, env
    <2>5. summed' + pending' = summed + pending
      BY <1>0, <1>1 DEF Take
    <2>2. summed' \in Nat /\ pending' \in Nat
      BY <1>0, <1>1 DEF Take
    <2>3. taken = sent + summed + pending
      BY <1>0, <2>1 DEF NothingVanishes, Calm
    <2>4. taken' = sent' + summed' + pending' + 1
      <3>1. taken' = taken + 1 /\ sent' = sent
        BY <2>1
      <3>2. /\ taken \in Nat /\ sent \in Nat /\ summed \in Nat /\ pending \in Nat
            /\ summed' \in Nat /\ pending' \in Nat
        BY <1>0, <2>2
      <3>3. sent' + (summed' + pending') = sent + (summed + pending)
        BY <2>5, <3>1
      <3>4. taken = sent + (summed + pending)
        BY <2>3, <3>2
      <3>5. sent' + summed' + pending' = sent' + (summed' + pending')
        BY <3>1, <3>2
      <3> QED BY <3>1, <3>2, <3>3, <3>4, <3>5
    <2> QED BY <2>1, <2>4
  <1>2. CASE Send
    <2>1. UNCHANGED <<crashes, faults, taken, summed>> /\ hand # <<>> /\ hand' = <<>>
      BY <1>2 DEF Send, env
    <2>2. (sent' = sent + 1 /\ pending' = pending) \/ (sent' = sent /\ pending' = pending + 1)
      BY <1>2 DEF Send
    <2> QED BY <1>0, <2>1, <2>2 DEF NothingVanishes, Calm
  <1>3. CASE SenderFault \/ Crash \/ \E w \in Workers : WorkerFault(w)
    <2>1. (faults' = faults + 1 \/ crashes' = crashes + 1) /\ faults \in Nat /\ crashes \in Nat
      BY <1>3 DEF SenderFault, Crash, WorkerFault, TypeOK
    <2> QED BY <2>1 DEF Calm
  <1>4. ASSUME UNCHANGED <<crashes, faults, taken, sent, summed, pending, hand>>
        PROVE  (taken = sent + summed + pending + (IF hand = <<>> THEN 0 ELSE 1))'
    BY <1>4 DEF NothingVanishes, Calm
  <1>5. ASSUME NEW w \in Workers, Close(w) \/ HighRisk(w) \/ Check(w)
        PROVE  UNCHANGED <<crashes, faults, taken, sent, summed, pending, hand>>
    BY <1>5 DEF Close, HighRisk, Check, Velocity, VelocityTtl, Record, Dedup, DedupTtl, QueueThreat,
                QueueSession, env, sender, tally, history
  <1>6. CASE Tick \/ UNCHANGED vars
    BY <1>4, <1>6 DEF Tick, env, sender, tally, history, vars
  <1>7. ASSUME NEW i \in Ips, VelocityExpires(i)
        PROVE  UNCHANGED <<crashes, faults, taken, sent, summed, pending, hand>>
    BY <1>7 DEF VelocityExpires, env, sender, tally
  <1>8. ASSUME NEW g \in Sigs, DedupExpires(g)
        PROVE  UNCHANGED <<crashes, faults, taken, sent, summed, pending, hand>>
    BY <1>8 DEF DedupExpires, env, sender, tally
  <1> QED BY <1>1, <1>2, <1>3, <1>4, <1>5, <1>6, <1>7, <1>8 DEF Next

\* No window of GLOBAL_ALERT_WINDOW seconds sees more than GLOBAL_ALERT_MAX
\* alerts sent, whatever the restarts of the worker and the Redis errors; and
\* without those what the cap holds back is in a summary or counted for one.
THEOREM WindowIsCapped == Spec => []CapIsKept
  <1>1. Caps /\ NothingVanishes => CapIsKept
    BY DEF Caps, CapIsKept
  <1>2. Init => NothingVanishes
    BY DEF Init, NothingVanishes
  <1> QED
    BY <1>1, <1>2, InitTypeOK, StepTypeOK, InitCaps, StepCaps, StepCounts, PTL DEF Spec

\* The velocity gate lets at most ALERT_VELOCITY_MAX alerts of an address
\* through in the life of its key, however many workers count at a time.
THEOREM AddressIsCapped == Spec => []VelocityCap
  <1>1. Caps => VelocityCap
    BY DEF Caps
  <1> QED BY <1>1, InitTypeOK, StepTypeOK, InitCaps, StepCaps, PTL DEF Spec

\* A campaign's dedup key lets one alert through in its life.
THEOREM AlertedOnce == Spec => []CampaignAlertedOnce
  <1>1. Caps => CampaignAlertedOnce
    BY DEF Caps
  <1> QED BY <1>1, InitTypeOK, StepTypeOK, InitCaps, StepCaps, PTL DEF Spec

=============================================================================
