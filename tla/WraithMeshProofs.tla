--------------------------- MODULE WraithMeshProofs ---------------------------
(***************************************************************************)
(* Proofs about WraithMesh, for any nodes, sessions and bounds: the type   *)
(* invariant, that a campaign names only nodes that saw it, that a node    *)
(* posts a key once in a cooldown and never an old epoch, and that its     *)
(* rollups count each session once in a pass over the log.                 *)
(***************************************************************************)
EXTENDS WraithMesh, FiniteSetTheorems, SequenceTheorems, TLAPS

TailT ==
    /\ log \in [Nodes -> Seq(Lines)] /\ saved \in [Nodes -> Nat] /\ pos \in [Nodes -> Nat]
    /\ open \in [Nodes -> SUBSET Sessions] /\ seen \in [Nodes -> [Keys -> Nat]]
    /\ once \in [Nodes -> BOOLEAN]
    /\ \A n \in Nodes : saved[n] <= pos[n] /\ pos[n] <= Len(log[n])
UplinkT ==
    /\ cooling \in [Nodes -> SUBSET Keys] /\ epoch \in [Nodes -> Nat]
    /\ posted \in [Nodes -> [Keys -> SUBSET Nat]] /\ top \in [Nodes -> Nat]
ProcessT ==
    /\ at \in [Nodes -> {"down", "read", "bump", "mark", "post", "wait"}]
    /\ hand \in [Nodes -> Seq(Held)] /\ stops \in [Nodes -> Nat]
    /\ \A n \in Nodes :
         /\ at[n] = "down" => hand[n] = <<>>
         /\ at[n] \in {"bump", "mark", "post", "wait"} => hand[n] # <<>>
AggregatorT ==
    /\ up \in BOOLEAN /\ handler \in [Threads -> {Idle} \cup Handling]
    /\ ~up => \A t \in Threads : handler[t] = Idle
    /\ record \in [Keys -> SUBSET Nodes]
    /\ score \in [Nodes -> 0..Top] /\ scoreDb \in [Nodes -> 0..Top]
Types == TailT /\ UplinkT /\ ProcessT /\ AggregatorT
WritingT ==
    /\ half \in [Nodes -> BOOLEAN] /\ torn \in [Nodes -> SUBSET Nat]
    /\ \A n \in Nodes : torn[n] \subseteq 1..Len(log[n])

LEMMA TypesOK == Types /\ WritingT => TypeOK
BY DEF Types, TailT, UplinkT, ProcessT, AggregatorT, WritingT, TypeOK

LEMMA TwoFields ==
    ASSUME NEW T, NEW S, NEW f \in [T -> S], NEW t \in T, NEW p, NEW ns
    PROVE  [f EXCEPT ![t].pc = p, ![t].nodes = ns]
             = [f EXCEPT ![t] = [f[t] EXCEPT !.pc = p, !.nodes = ns]]
OBVIOUS

LEMMA HandlerKinds ==
    ASSUME NEW h \in {Idle} \cup Handling
    PROVE  /\ h.pc # "idle" => h \in Handling
           /\ h.pc = "idle" => h = Idle
           /\ h # Idle => h \in Handling
BY DEF Idle, Handling

LEMMA HeadTail ==
    ASSUME NEW s \in Seq(Held), s # <<>>
    PROVE  /\ Head(s) \in Held /\ Head(s) = s[1] /\ Tail(s) \in Seq(Held)
           /\ Len(Tail(s)) = Len(s) - 1 /\ Len(s) \in Nat /\ Len(s) > 0
           /\ \A i \in 1..Len(Tail(s)) : Tail(s)[i] = s[i + 1]
           /\ s[Len(s)] \in Held /\ DOMAIN s = 1..Len(s)
BY HeadTailProperties, ElementOfSeq, LenProperties, EmptySeq

LEMMA BumpHand ==
    ASSUME NEW s \in Seq(Held), s # <<>>, NEW e \in Nat
    PROVE  LET b == [s EXCEPT ![Len(s)].epoch = e] IN
           /\ b \in Seq(Held) /\ Len(b) = Len(s) /\ b # <<>>
           /\ \A i \in DOMAIN s : b[i] = IF i = Len(s) THEN [key |-> s[i].key, epoch |-> e]
                                         ELSE s[i]
<1> DEFINE x == [s[Len(s)] EXCEPT !.epoch = e]
           b == [s EXCEPT ![Len(s)] = x]
<1>1. Len(s) \in DOMAIN s /\ s[Len(s)] \in Held /\ Len(s) \in Nat
  BY HeadTail
<1>2. x \in Held /\ x = [key |-> s[Len(s)].key, epoch |-> e]
  BY <1>1 DEF Held
<1> HIDE DEF x
<1>3. b \in Seq(Held) /\ Len(b) = Len(s)
  BY <1>1, <1>2, ExceptSeq
<1>4. b # <<>>
  BY <1>3, EmptySeq, HeadTail
<1> QED
  BY <1>1, <1>2, <1>3, <1>4 DEF x

LEMMA Items ==
    ASSUME NEW s \in Seq(Held)
    PROVE  /\ Len(s) \in Nat /\ DOMAIN s = 1..Len(s)
           /\ \A i \in DOMAIN s : s[i] \in Held /\ s[i].key \in Keys /\ s[i].epoch \in Nat
<1>1. Len(s) \in Nat /\ DOMAIN s = 1..Len(s)
  BY LenProperties
<1>2. \A i \in DOMAIN s : s[i] \in Held
  BY <1>1, ElementOfSeq
<1> QED
  BY <1>1, <1>2 DEF Held

LEMMA HandItems ==
    ASSUME ProcessT, NEW n \in Nodes
    PROVE  /\ hand[n] \in Seq(Held) /\ Len(hand[n]) \in Nat /\ DOMAIN hand[n] = 1..Len(hand[n])
           /\ \A i \in DOMAIN hand[n] :
                hand[n][i] \in Held /\ hand[n][i].key \in Keys /\ hand[n][i].epoch \in Nat
<1>1. hand[n] \in Seq(Held)
  BY DEF ProcessT
<1> QED
  BY <1>1, Items

(* A post finds a free thread. *)
LEMMA ReceivesType ==
    ASSUME AggregatorT, NEW n \in Nodes, NEW k \in Keys, NEW e \in Nat, Receives(n, k, e)
    PROVE  /\ up /\ handler' \in [Threads -> {Idle} \cup Handling]
           /\ \E t \in Threads :
                handler' = [handler EXCEPT ![t] =
                  [pc |-> "get", node |-> n, key |-> k, epoch |-> e, nodes |-> {}]]
<1> PICK t \in Threads : handler' = [handler EXCEPT ![t] =
              [pc |-> "get", node |-> n, key |-> k, epoch |-> e, nodes |-> {}]]
  BY DEF Receives
<1>1. [pc |-> "get", node |-> n, key |-> k, epoch |-> e, nodes |-> {}] \in Handling
  BY DEF Handling
<1> QED
  BY <1>1 DEF Receives, AggregatorT

LEMMA FailType == ASSUME ProcessT, NEW n \in Nodes, Fail(n) PROVE ProcessT'
<1>1. <<>> \in Seq(Held)
  BY EmptySeq
<1> QED
  BY <1>1 DEF Fail, ProcessT

LEMMA InitTypes == Init => Types
<1> SUFFICES ASSUME Init PROVE Types
  OBVIOUS
<1>1. \A S : <<>> \in Seq(S) /\ Len(<<>>) = 0
  BY EmptySeq
<1>2. TailT
  BY <1>1 DEF Init, TailT
<1>3. UplinkT
  BY DEF Init, UplinkT
<1>4. ProcessT
  BY <1>1 DEF Init, ProcessT
<1>5. AggregatorT
  BY DEF Init, AggregatorT, Initial, Top
<1> QED
  BY <1>2, <1>3, <1>4, <1>5 DEF Types

LEMMA SensorTypes ==
    ASSUME Types, NEW n \in Nodes,
           \/ Appends(n) \/ CowrieRest(n) \/ Start(n) \/ ReadTorn(n) \/ ReadOpen(n)
           \/ ReadClosed(n) \/ Bump(n) \/ Mark(n) \/ Eof(n)
    PROVE  Types'
<1> USE DEF Types
<1>1. CASE Appends(n)
  <2> PICK s \in Sessions : log' = [log EXCEPT ![n] = Append(@,
              <<IF <<"open", s>> \in Elements(log[n]) THEN "closed" ELSE "open", s>>)]
    BY <1>1 DEF Appends
  <2> DEFINE l == <<IF <<"open", s>> \in Elements(log[n]) THEN "closed" ELSE "open", s>>
  <2>1. l \in Lines
    BY DEF Lines
  <2> HIDE DEF l
  <2>2. Append(log[n], l) \in Seq(Lines) /\ Len(Append(log[n], l)) = Len(log[n]) + 1
        /\ Len(log[n]) \in Nat
    BY <2>1, AppendProperties, LenProperties DEF TailT
  <2>3. log' = [log EXCEPT ![n] = Append(log[n], l)]
    BY DEF l
  <2>4. TailT'
    <3>1. log' \in [Nodes -> Seq(Lines)]
      BY <2>2, <2>3 DEF TailT
    <3>2. \A m \in Nodes : Len(log[m]) \in Nat /\ Len(log[m]) <= Len(log'[m])
      BY <2>2, <2>3, LenProperties DEF TailT
    <3>3. \A m \in Nodes : Len(log'[m]) \in Nat
      BY <3>1, LenProperties
    <3> QED
      BY <1>1, <3>1, <3>2, <3>3 DEF Appends, tail, TailT
  <2> QED
    BY <1>1, <2>4 DEF Appends, uplink, process, aggregator, UplinkT, ProcessT, AggregatorT
<1>2. CASE Start(n)
  BY SMTT(20), <1>2 DEF Start, uplink, aggregator, TailT, UplinkT, ProcessT, AggregatorT
<1>3. CASE ReadOpen(n)
  <2>1. Line(n) \in Lines
    <3>1. log[n] \in Seq(Lines) /\ pos[n] + 1 \in 1..Len(log[n])
      BY <1>3, LenProperties DEF ReadOpen, Reads, TailT
    <3> QED
      BY <3>1, ElementOfSeq DEF Line
  <2>2. Line(n)[2] \in Sessions
    BY <2>1 DEF Lines
  <2>3. pos' \in [Nodes -> Nat] /\ \A m \in Nodes : saved[m] <= pos'[m] /\ pos'[m] <= Len(log[m])
    BY <1>3, LenProperties DEF ReadOpen, Reads, TailT
  <2>4. open' \in [Nodes -> SUBSET Sessions]
    <3>1. open' = [open EXCEPT ![n] = open[n] \cup {Line(n)[2]}] \/ open' = open
      BY <1>3 DEF ReadOpen
    <3>2. open \in [Nodes -> SUBSET Sessions]
      BY DEF TailT
    <3>3. open[n] \cup {Line(n)[2]} \in SUBSET Sessions
      BY <2>2, <3>2
    <3> QED
      BY <3>1, <3>2, <3>3
  <2>5. TailT'
    BY <1>3, <2>3, <2>4 DEF ReadOpen, TailT
  <2> QED
    BY <1>3, <2>5 DEF ReadOpen, uplink, process, aggregator, UplinkT, ProcessT, AggregatorT
<1>4. CASE ReadClosed(n)
  <2>1. Line(n) \in Lines
    <3>1. log[n] \in Seq(Lines) /\ pos[n] + 1 \in 1..Len(log[n])
      BY <1>4, LenProperties DEF ReadClosed, Reads, TailT
    <3> QED
      BY <3>1, ElementOfSeq DEF Line
  <2> DEFINE s == Line(n)[2]
             k == KeyOf[s]
             count == seen[n][k] + 1
  <2>2. s \in Sessions /\ k \in Keys
    BY <2>1, MeshAssumption DEF Lines
  <2>3. TailT'
    BY <1>4, <2>2, LenProperties DEF ReadClosed, Reads, TailT
  <2>4. CASE Uplinks(n, k, count)
    <3>1. [key |-> k, epoch |-> 0] \in Held
      BY <2>2 DEF Held
    <3>2. Append(hand[n], [key |-> k, epoch |-> 0]) \in Seq(Held)
          /\ Append(hand[n], [key |-> k, epoch |-> 0]) # <<>>
      <4> PICK o \in Held : o = [key |-> k, epoch |-> 0]
        BY <3>1
      <4>1. hand[n] \in Seq(Held)
        BY DEF ProcessT
      <4>2. Append(hand[n], o) \in Seq(Held) /\ Append(hand[n], o) # <<>>
        BY <4>1, AppendProperties
      <4> QED
        BY <4>2
    <3>3. /\ at' = [at EXCEPT ![n] = "bump"] /\ stops' = stops
          /\ hand' = [hand EXCEPT ![n] = Append(hand[n], [key |-> k, epoch |-> 0])]
      BY <1>4, <2>4 DEF ReadClosed
    <3>4. ProcessT'
      BY <3>2, <3>3 DEF ProcessT
    <3> QED
      BY <1>4, <2>3, <3>4 DEF ReadClosed, uplink, aggregator, UplinkT, AggregatorT
  <2>5. CASE ~Uplinks(n, k, count)
    BY <1>4, <2>3, <2>5 DEF ReadClosed, uplink, aggregator, UplinkT, ProcessT, AggregatorT
  <2> QED
    BY <2>4, <2>5
<1>5. CASE Bump(n)
  <2>1. hand[n] \in Seq(Held) /\ hand[n] # <<>> /\ epoch[n] + 1 \in Nat
    BY <1>5 DEF Bump, ProcessT, UplinkT
  <2> DEFINE b == [hand[n] EXCEPT ![Len(hand[n])].epoch = epoch[n] + 1]
  <2>2. b \in Seq(Held) /\ b # <<>>
    BY <2>1, BumpHand
  <2>3. hand' = [hand EXCEPT ![n] = b]
    BY <1>5 DEF Bump, ProcessT
  <2> HIDE DEF b
  <2>4. ProcessT'
    BY <1>5, <2>2, <2>3 DEF Bump, ProcessT
  <2>5. UplinkT'
    BY <1>5, <2>1 DEF Bump, UplinkT
  <2> QED
    BY <1>5, <2>4, <2>5 DEF Bump, tail, aggregator, TailT, AggregatorT
<1>6. CASE Mark(n)
  <2>1. hand[n][Len(hand[n])].key \in Keys
    BY <1>6, HeadTail DEF Mark, ProcessT, Held
  <2>2. ProcessT' /\ UplinkT'
    BY <1>6, <2>1 DEF Mark, ProcessT, UplinkT
  <2> QED
    BY <1>6, <2>2 DEF Mark, tail, aggregator, TailT, AggregatorT
<1>7. CASE Eof(n)
  <2>1. TailT'
    BY <1>7, LenProperties DEF Eof, TailT
  <2>2. ProcessT'
    BY <1>7 DEF Eof, ProcessT
  <2> QED
    BY <1>7, <2>1, <2>2 DEF Eof, uplink, aggregator, UplinkT, AggregatorT
<1>8. CASE CowrieRest(n)
  BY <1>8 DEF CowrieRest, tail, uplink, process, aggregator, TailT, UplinkT, ProcessT,
     AggregatorT
<1>9. CASE ReadTorn(n)
  <2>1. TailT'
    BY <1>9, LenProperties DEF ReadTorn, Reads, TailT
  <2> QED
    BY <1>9, <2>1 DEF ReadTorn, uplink, process, aggregator, UplinkT, ProcessT, AggregatorT
<1> QED
  BY <1>1, <1>2, <1>3, <1>4, <1>5, <1>6, <1>7, <1>8, <1>9

LEMMA UplinkTypes ==
    ASSUME Types, NEW n \in Nodes,
           \/ Post(n) \/ NoAnswer(n) \/ SensorDies(n) \/ Planted(n)
           \/ \E k \in Keys : Cooldown(n, k)
    PROVE  Types'
<1> USE DEF Types
<1>1. CASE Post(n)
  <2> DEFINE o == Head(hand[n])
  <2>1. o \in Held /\ hand[n] # <<>>
    BY <1>1, HeadTail DEF Post, ProcessT
  <2>2. o.key \in Keys /\ o.epoch \in Nat
    BY <2>1 DEF Held
  <2>3. Receives(n, o.key, o.epoch)
    BY <1>1 DEF Post
  <2>4. AggregatorT'
    BY <1>1, <2>2, <2>3, ReceivesType DEF Post, AggregatorT
  <2>5. ProcessT' /\ UplinkT'
    BY <1>1, <2>1, <2>2 DEF Post, ProcessT, UplinkT
  <2> QED
    BY <1>1, <2>4, <2>5 DEF Post, tail, TailT
<1>2. CASE NoAnswer(n)
  BY <1>2, FailType DEF NoAnswer, tail, uplink, aggregator, TailT, UplinkT, AggregatorT
<1>3. CASE SensorDies(n)
  BY <1>3, FailType DEF SensorDies, tail, uplink, aggregator, TailT, UplinkT, AggregatorT
<1>4. CASE Planted(n)
  <2> PICK k \in TrapKeys : Receives(n, k, 0)
    BY <1>4 DEF Planted
  <2>1. k \in Keys
    BY MeshAssumption
  <2>2. AggregatorT'
    BY <1>4, <2>1, ReceivesType DEF Planted, AggregatorT
  <2> QED
    BY <1>4, <2>2 DEF Planted, tail, uplink, process, TailT, UplinkT, ProcessT
<1>5. CASE \E k \in Keys : Cooldown(n, k)
  <2> PICK k \in Keys : Cooldown(n, k)
    BY <1>5
  <2>1. cooling' \in [Nodes -> SUBSET Keys]
    BY DEF Cooldown, UplinkT
  <2>2. posted' \in [Nodes -> [Keys -> SUBSET Nat]]
    <3>1. posted' = [posted EXCEPT ![n] = [posted[n] EXCEPT ![k] = {}]]
      BY DEF Cooldown
    <3>2. [posted[n] EXCEPT ![k] = {}] \in [Keys -> SUBSET Nat]
      BY DEF UplinkT
    <3> QED
      BY <3>1, <3>2 DEF UplinkT
  <2>3. UplinkT'
    BY <2>1, <2>2 DEF Cooldown, UplinkT
  <2> QED
    BY <2>3 DEF Cooldown, tail, process, aggregator, TailT, ProcessT, AggregatorT
<1> QED
  BY <1>1, <1>2, <1>3, <1>4, <1>5

LEMMA AggregatorTypes ==
    ASSUME Types, AggregatorDies \/ AggregatorStarts \/ \E t \in Threads : Handle(t)
    PROVE  Types'
<1> USE DEF Types
<1>1. CASE AggregatorDies
  BY <1>1 DEF AggregatorDies, tail, uplink, process, TailT, UplinkT, ProcessT, AggregatorT
<1>2. CASE AggregatorStarts
  BY <1>2 DEF AggregatorStarts, tail, uplink, process, TailT, UplinkT, ProcessT, AggregatorT
<1>3. ASSUME NEW t \in Threads, Handle(t) PROVE Types'
  <2> DEFINE h == handler[t]
  <2>1. h \in Handling /\ up
    BY <1>3, HandlerKinds DEF Handle, AggregatorT
  <2>2. h.node \in Nodes /\ h.key \in Keys /\ h.nodes \in SUBSET Nodes
    BY <2>1 DEF Handling
  <2>3. \A stage \in {"get", "upsert", "save", "reply", "refuse"}, ns \in SUBSET Nodes :
          /\ [h EXCEPT !.pc = stage] \in Handling
          /\ [h EXCEPT !.pc = stage, !.nodes = ns] \in Handling
    BY <2>1 DEF Handling
  <2>4. CASE Refuse(t)
    <3>1. score' \in [Nodes -> 0..Top]
      BY <2>2, <2>4 DEF Refuse, AggregatorT, Penalty, Top
    <3>2. handler' = [handler EXCEPT ![t] = [h EXCEPT !.pc = "refuse"]]
      BY <2>4 DEF Refuse, AggregatorT
    <3>3. AggregatorT'
      BY <2>1, <2>3, <2>4, <3>1, <3>2 DEF Refuse, AggregatorT
    <3> QED
      BY <2>4, <3>3 DEF Refuse, tail, uplink, process, TailT, UplinkT, ProcessT
  <2>5. CASE Get(t)
    <3>1. score' \in [Nodes -> 0..Top]
      BY <2>2, <2>5 DEF Get, AggregatorT, Bonus, Top
    <3>2. record[h.key] \cup {h.node} \in SUBSET Nodes
      BY <2>2 DEF AggregatorT
    <3>3. handler' = [handler EXCEPT ![t] =
                        [h EXCEPT !.pc = "upsert", !.nodes = record[h.key] \cup {h.node}]]
      <4>1. handler' = [handler EXCEPT ![t].pc = "upsert",
                                       ![t].nodes = record[h.key] \cup {h.node}]
        BY <2>5 DEF Get
      <4>2. handler \in [Threads -> {Idle} \cup Handling]
        BY DEF AggregatorT
      <4> QED
        BY <4>1, <4>2, TwoFields
    <3>4. AggregatorT'
      <4> DEFINE x == [h EXCEPT !.pc = "upsert", !.nodes = record[h.key] \cup {h.node}]
      <4>1. x \in Handling
        BY <2>3, <3>2
      <4>2. handler' = [handler EXCEPT ![t] = x]
        BY <3>3
      <4> HIDE DEF x
      <4>3. handler' \in [Threads -> {Idle} \cup Handling] /\ up /\ up' = up /\ record' = record
            /\ scoreDb' = scoreDb
        BY <2>1, <2>5, <4>1, <4>2 DEF Get, AggregatorT
      <4> QED
        BY <3>1, <4>3 DEF AggregatorT
    <3> QED
      BY <2>5, <3>4 DEF Get, tail, uplink, process, TailT, UplinkT, ProcessT
  <2>6. CASE Upsert(t)
    <3>1. handler' = [handler EXCEPT ![t] = [h EXCEPT !.pc = "save"]]
      BY <2>6 DEF Upsert, AggregatorT
    <3>2. AggregatorT'
      BY <2>1, <2>2, <2>3, <2>6, <3>1 DEF Upsert, AggregatorT
    <3> QED
      BY <2>6, <3>2 DEF Upsert, tail, uplink, process, TailT, UplinkT, ProcessT
  <2>7. CASE SaveReputation(t)
    <3>1. handler' = [handler EXCEPT ![t] = [h EXCEPT !.pc = "reply"]]
      BY <2>7 DEF SaveReputation, AggregatorT
    <3>2. AggregatorT'
      BY <2>1, <2>3, <2>7, <3>1 DEF SaveReputation, AggregatorT
    <3> QED
      BY <2>7, <3>2 DEF SaveReputation, tail, uplink, process, TailT, UplinkT, ProcessT
  <2>9. CASE SaveFails(t)
    <3>1. scoreDb' \in [Nodes -> 0..Top]
      <4> PICK written \in SUBSET Nodes :
            scoreDb' = [m \in Nodes |-> IF m \in written THEN score[m] ELSE scoreDb[m]]
        BY <2>9 DEF SaveFails
      <4> QED
        BY DEF AggregatorT
    <3>2. AggregatorT'
      BY <2>9, <3>1 DEF SaveFails, AggregatorT
    <3> QED
      BY <2>9, <3>2 DEF SaveFails, tail, uplink, process, TailT, UplinkT, ProcessT
  <2>8. CASE Reply(t)
    <3>1. AggregatorT'
      BY <2>8 DEF Reply, AggregatorT
    <3>2. ProcessT'
      <4> DEFINE n == h.node
      <4>1. CASE at[n] # "wait" \/ ~Serves(t, n)
        BY <2>8, <4>1 DEF Reply, process, ProcessT
      <4>2. CASE ~(at[n] # "wait" \/ ~Serves(t, n))
        <5>1. hand[n] \in Seq(Held) /\ hand[n] # <<>>
          BY <2>2, <4>2 DEF ProcessT
        <5>2. Tail(hand[n]) \in Seq(Held) /\ Len(Tail(hand[n])) = Len(hand[n]) - 1
              /\ Len(hand[n]) \in Nat
          BY <5>1, HeadTail
        <5>3. Tail(hand[n]) = <<>> <=> Len(hand[n]) = 1
          <6>1. Tail(hand[n]) = <<>> <=> Len(Tail(hand[n])) = 0
            BY <5>2, EmptySeq
          <6> QED
            BY <5>2, <6>1
        <5>4. /\ hand' = [hand EXCEPT ![n] = Tail(hand[n])] /\ stops' = stops
              /\ at' = [at EXCEPT ![n] = IF ~once[n] THEN "read"
                                         ELSE IF Len(hand[n]) = 1 THEN "down" ELSE "post"]
          BY <2>8, <4>2 DEF Reply
        <5> HIDE DEF n
        <5> QED
          BY <2>2, <5>2, <5>3, <5>4 DEF ProcessT
      <4> QED
        BY <4>1, <4>2
    <3> QED
      BY <2>8, <3>1, <3>2 DEF Reply, tail, uplink, TailT, UplinkT
  <2> QED
    BY <1>3, <2>4, <2>5, <2>6, <2>7, <2>8, <2>9 DEF Handle
<1> QED
  BY <1>1, <1>2, <1>3

LEMMA TypesStep == ASSUME Types, Next PROVE Types'
BY SensorTypes, UplinkTypes, AggregatorTypes DEF Next, Cowrie, CowrieHalf

(* The lines a process has passed while they were written.                 *)
LEMMA LogLengthens ==
    ASSUME Types, NEW n \in Nodes, Appends(n)
    PROVE  \A m \in Nodes : 1..Len(log[m]) \subseteq 1..Len(log'[m])
<1> PICK x \in Lines : log' = [log EXCEPT ![n] = Append(log[n], x)]
  <2> PICK s \in Sessions : log' = [log EXCEPT ![n] = Append(@,
              <<IF <<"open", s>> \in Elements(log[n]) THEN "closed" ELSE "open", s>>)]
    BY DEF Appends
  <2>1. <<IF <<"open", s>> \in Elements(log[n]) THEN "closed" ELSE "open", s>> \in Lines
    BY DEF Lines
  <2> QED
    BY <2>1, Zenon
<1>1. log \in [Nodes -> Seq(Lines)]
  BY DEF Types, TailT
<1>2. Len(Append(log[n], x)) = Len(log[n]) + 1 /\ \A m \in Nodes : Len(log[m]) \in Nat
  BY <1>1, AppendProperties, LenProperties
<1>3. \A m \in Nodes : Len(log'[m]) = IF m = n THEN Len(log[n]) + 1 ELSE Len(log[m])
  BY <1>1, <1>2
<1> QED
  BY <1>2, <1>3

LEMMA WritingStep == ASSUME Types, WritingT, Next PROVE WritingT'
<1>1. half' \in [Nodes -> BOOLEAN]
  <2>1. CASE \E n \in Nodes : CowrieHalf(n) \/ CowrieRest(n)
    BY <2>1 DEF CowrieHalf, CowrieRest, WritingT
  <2>2. CASE ~\E n \in Nodes : CowrieHalf(n) \/ CowrieRest(n)
    <3>1. half' = half
      BY <2>2 DEF Next, Cowrie, Start, ReadTorn, ReadOpen, ReadClosed, Bump, Mark, Eof, Post,
         NoAnswer, SensorDies, Planted, Cooldown, Handle, Refuse, Get, Upsert, SaveReputation,
         SaveFails, Reply, AggregatorDies, AggregatorStarts, world
    <3> QED
      BY <3>1 DEF WritingT
  <2> QED
    BY <2>1, <2>2
<1>2. CASE \E n \in Nodes : Appends(n)
  <2>1. torn' = torn /\ \A m \in Nodes : 1..Len(log[m]) \subseteq 1..Len(log'[m])
    BY <1>2, LogLengthens DEF Appends, tail
  <2> QED
    BY <1>1, <2>1 DEF WritingT
<1>3. CASE \E n \in Nodes : ReadTorn(n)
  <2> PICK n \in Nodes : ReadTorn(n)
    BY <1>3
  <2>1. /\ log' = log /\ torn' = [torn EXCEPT ![n] = torn[n] \cup {pos[n] + 1}]
        /\ pos[n] \in Nat /\ Len(log[n]) \in Nat /\ pos[n] < Len(log[n])
    BY LenProperties DEF ReadTorn, Reads, Types, TailT
  <2> QED
    BY <1>1, <2>1 DEF WritingT
<1>4. CASE ~\E n \in Nodes : Appends(n) \/ ReadTorn(n)
  <2>1. log' = log /\ torn' = torn
    BY <1>4 DEF Next, Cowrie, CowrieHalf, CowrieRest, Start, ReadOpen, ReadClosed, Bump, Mark,
       Eof, Post, NoAnswer, SensorDies, Planted, Cooldown, Handle, Refuse, Get, Upsert,
       SaveReputation, SaveFails, Reply, AggregatorDies, AggregatorStarts, tail
  <2> QED
    BY <1>1, <2>1 DEF WritingT
<1> QED
  BY <1>2, <1>3, <1>4

-----------------------------------------------------------------------------
(* Every key on its way to a campaign is that of a session the node's own  *)
(* log has closed: in the hand of the sensor, in a handler thread, in what *)
(* a thread is about to write.                                             *)
SawIt(n, k)  == Closed(n, k, log[n]) # {}
Shares(n)    == \E m \in Nodes \ {n}, k \in Keys : SawIt(n, k) /\ SawIt(m, k)
HandsAreReal == \A n \in Nodes : \A i \in DOMAIN hand[n] : SawIt(n, hand[n][i].key)
ThreadsAreReal ==
    \A t \in Threads :
        /\ handler[t] # Idle /\ handler[t].key \in TrapKeys => handler[t].pc \in {"get", "refuse"}
        /\ handler[t] # Idle /\ handler[t].key \notin TrapKeys =>
             SawIt(handler[t].node, handler[t].key)
        /\ handler[t] # Idle /\ handler[t].pc = "upsert" =>
             \A m \in handler[t].nodes : SawIt(m, handler[t].key)
CampaignsAreReal == \A k \in Keys : \A n \in record[k] : SawIt(n, k)
ScoresAreReal ==
    \A n \in Nodes : score[n] > Initial \/ scoreDb[n] > Initial => Shares(n)

Real == HandsAreReal /\ ThreadsAreReal /\ CampaignsAreReal /\ ScoresAreReal

LEMMA RealOK == Real => CorroborationIsReal
BY DEF Real, CorroborationIsReal, CampaignsAreReal, ScoresAreReal, Shares, SawIt

LEMMA InitReal == Init => Real
<1> SUFFICES ASSUME Init PROVE Real
  OBVIOUS
<1>1. HandsAreReal
  BY DEF Init, HandsAreReal
<1>2. ThreadsAreReal /\ CampaignsAreReal
  BY DEF Init, ThreadsAreReal, CampaignsAreReal
<1>3. ScoresAreReal
  BY DEF Init, ScoresAreReal, Initial
<1> QED
  BY <1>1, <1>2, <1>3 DEF Real

(* Logs only grow. *)
LEMMA LogGrows ==
    ASSUME Types, Next
    PROVE  \A m \in Nodes, k \in Keys : SawIt(m, k) => SawIt(m, k)'
<1>1. CASE \E n \in Nodes : Appends(n)
  <2> PICK n \in Nodes : Appends(n)
    BY <1>1
  <2> PICK s \in Sessions : log' = [log EXCEPT ![n] = Append(@,
              <<IF <<"open", s>> \in Elements(log[n]) THEN "closed" ELSE "open", s>>)]
    BY DEF Appends
  <2> DEFINE l == <<IF <<"open", s>> \in Elements(log[n]) THEN "closed" ELSE "open", s>>
  <2>1. l \in Lines
    BY DEF Lines
  <2>2. log' = [log EXCEPT ![n] = Append(log[n], l)]
    OBVIOUS
  <2> HIDE DEF l
  <2>3. Elements(log[n]) \subseteq Elements(Append(log[n], l))
    <3>1. /\ log[n] \in Seq(Lines) /\ Append(log[n], l) \in Seq(Lines)
          /\ Len(Append(log[n], l)) = Len(log[n]) + 1
          /\ \A i \in 1..Len(log[n]) : Append(log[n], l)[i] = log[n][i]
      BY <2>1, AppendProperties DEF Types, TailT
    <3>2. /\ DOMAIN log[n] = 1..Len(log[n]) /\ Len(log[n]) \in Nat
          /\ DOMAIN Append(log[n], l) = 1..(Len(log[n]) + 1)
      BY <3>1, LenProperties
    <3> QED
      BY <3>1, <3>2 DEF Elements
  <2>4. \A m \in Nodes : Elements(log[m]) \subseteq Elements(log'[m])
    BY <2>2, <2>3 DEF Types, TailT
  <2> QED
    BY <2>4 DEF SawIt, Closed
<1>2. CASE ~\E n \in Nodes : Appends(n)
  <2>1. log' = log
    BY <1>2 DEF Next, Cowrie, CowrieHalf, CowrieRest, Start, ReadTorn, ReadOpen, ReadClosed,
       Bump, Mark, Eof, Post, NoAnswer, SensorDies, Planted, Cooldown, Handle, Refuse, Get,
       Upsert, SaveReputation, SaveFails, Reply, AggregatorDies, AggregatorStarts
  <2> QED
    BY <2>1 DEF SawIt, Closed
<1> QED
  BY <1>1, <1>2

(* What an observation in hand, a thread or a campaign already has stays real. *)
LEMMA StaysReal ==
    ASSUME Types, Real, Next
    PROVE  /\ (\A n \in Nodes : \A i \in DOMAIN hand'[n] : \E j \in DOMAIN hand[n] :
                  hand'[n][i].key = hand[n][j].key) => HandsAreReal'
           /\ UNCHANGED hand => HandsAreReal'
           /\ UNCHANGED handler => ThreadsAreReal'
           /\ UNCHANGED record => CampaignsAreReal'
           /\ \A n \in Nodes : Shares(n) => Shares(n)'
           /\ UNCHANGED <<score, scoreDb>> => ScoresAreReal'
<1>1. ASSUME NEW m, m \in Nodes, NEW k, k \in Keys, SawIt(m, k) PROVE SawIt(m, k)'
  BY <1>1, LogGrows
<1>2. \A n \in Nodes : \A i \in DOMAIN hand[n] : hand[n][i].key \in Keys
  BY HandItems DEF Types
<1>3. \A m \in Nodes, k \in Keys : Closed(m, k, log[m]) # {} => Closed(m, k, log'[m]) # {}
  BY LogGrows DEF SawIt
<1>4. (\A n \in Nodes : \A i \in DOMAIN hand'[n] : \E j \in DOMAIN hand[n] :
          hand'[n][i].key = hand[n][j].key) => HandsAreReal'
  BY <1>2, <1>3 DEF Real, HandsAreReal, SawIt
<1>5. UNCHANGED hand => HandsAreReal'
  BY <1>2, <1>3 DEF Real, HandsAreReal, SawIt
<1>6. \A t \in Threads : handler[t] # Idle =>
        handler[t].node \in Nodes /\ handler[t].key \in Keys /\ handler[t].nodes \subseteq Nodes
  BY HandlerKinds DEF Types, AggregatorT, Handling
<1>7. UNCHANGED handler => ThreadsAreReal'
  BY <1>3, <1>6 DEF Real, ThreadsAreReal, SawIt
<1>8. UNCHANGED record => CampaignsAreReal'
  BY <1>3 DEF Real, CampaignsAreReal, SawIt, Types, AggregatorT
<1>9. \A n \in Nodes : Shares(n) => Shares(n)'
  BY <1>3 DEF Shares, SawIt
<1>10. UNCHANGED <<score, scoreDb>> => ScoresAreReal'
  BY <1>9 DEF Real, ScoresAreReal
<1> QED
  BY <1>4, <1>5, <1>7, <1>8, <1>9, <1>10

LEMMA SensorReal ==
    ASSUME Types, Real, Next, NEW n \in Nodes,
           \/ Appends(n) \/ CowrieRest(n) \/ Start(n) \/ ReadTorn(n) \/ ReadOpen(n)
           \/ ReadClosed(n) \/ Bump(n) \/ Mark(n) \/ Eof(n)
    PROVE  Real'
<1>0. UNCHANGED aggregator
  BY DEF Appends, CowrieRest, Start, ReadTorn, ReadOpen, ReadClosed, Bump, Mark, Eof
<1>1. ThreadsAreReal' /\ CampaignsAreReal' /\ ScoresAreReal'
  BY <1>0, StaysReal DEF aggregator
<1>2. CASE Appends(n) \/ CowrieRest(n) \/ Start(n) \/ ReadTorn(n) \/ ReadOpen(n) \/ Mark(n)
           \/ Eof(n)
  <2>1. UNCHANGED hand
    BY <1>2 DEF Appends, CowrieRest, Start, ReadTorn, ReadOpen, Mark, Eof, process
  <2> QED
    BY <1>1, <2>1, StaysReal DEF Real
<1>3. CASE Bump(n)
  <2>1. hand[n] \in Seq(Held) /\ hand[n] # <<>> /\ epoch[n] + 1 \in Nat
    BY <1>3 DEF Bump, Types, ProcessT, UplinkT
  <2> DEFINE b == [hand[n] EXCEPT ![Len(hand[n])].epoch = epoch[n] + 1]
  <2>2. /\ b \in Seq(Held) /\ Len(b) = Len(hand[n])
        /\ \A i \in DOMAIN hand[n] : b[i].key = hand[n][i].key
    BY <2>1, BumpHand
  <2>3. hand' = [hand EXCEPT ![n] = b]
    BY <1>3 DEF Bump, Types, ProcessT
  <2>4. DOMAIN b = DOMAIN hand[n]
    OBVIOUS
  <2> HIDE DEF b
  <2>5. \A m \in Nodes : \A i \in DOMAIN hand'[m] : \E j \in DOMAIN hand[m] :
          hand'[m][i].key = hand[m][j].key
    BY <2>2, <2>3, <2>4 DEF Types, ProcessT
  <2> QED
    BY <1>1, <2>5, StaysReal DEF Real
<1>4. CASE ReadClosed(n)
  <2> DEFINE s == Line(n)[2]
             k == KeyOf[s]
             o == [key |-> k, epoch |-> 0]
  <2>1. CASE UNCHANGED hand
    BY <1>1, <2>1, StaysReal DEF Real
  <2>2. CASE hand' = [hand EXCEPT ![n] = Append(hand[n], o)]
    <3>1. /\ log[n] \in Seq(Lines) /\ DOMAIN log[n] = 1..Len(log[n])
          /\ pos[n] + 1 \in DOMAIN log[n]
      BY <1>4, LenProperties DEF ReadClosed, Reads, Types, TailT
    <3>2. Line(n) \in Lines /\ Line(n) \in Elements(log[n])
      BY <3>1, ElementOfSeq DEF Line, Elements
    <3>3. s \in Sessions /\ Line(n)[1] = "closed" /\ Line(n) = <<"closed", s>>
      BY <1>4, <3>2 DEF ReadClosed, Lines
    <3>4. SawIt(n, k) /\ k \in Keys
      BY <3>2, <3>3, MeshAssumption DEF SawIt, Closed
    <3> DEFINE h == Append(hand[n], o)
    <3>5. o \in Held /\ o.key = k
      BY <3>4 DEF Held
    <3>6. hand[n] \in Seq(Held) /\ Len(hand[n]) \in Nat /\ DOMAIN hand[n] = 1..Len(hand[n])
      BY LenProperties DEF Types, ProcessT
    <3> HIDE DEF o
    <3>7. /\ DOMAIN h = 1..(Len(hand[n]) + 1) /\ h[Len(hand[n]) + 1] = o
          /\ \A i \in DOMAIN hand[n] : h[i] = hand[n][i]
      BY <3>5, <3>6, AppendProperties, LenProperties
    <3> HIDE DEF h, k, s
    <3>8. \A i \in DOMAIN h : SawIt(n, h[i].key) /\ h[i].key \in Keys
      <4>1. \A i \in DOMAIN hand[n] : SawIt(n, hand[n][i].key) /\ hand[n][i].key \in Keys
        BY HandItems DEF Real, HandsAreReal, Types
      <4> QED
        BY <3>4, <3>5, <3>6, <3>7, <4>1
    <3>9. HandsAreReal'
      <4>1. \A m \in Nodes : hand'[m] = IF m = n THEN h ELSE hand[m]
        BY <2>2 DEF h, Types, ProcessT
      <4>2. log' = log
        BY <1>4 DEF ReadClosed
      <4> QED
        BY <3>8, <4>1, <4>2 DEF HandsAreReal, SawIt, Real
    <3> QED
      BY <1>1, <3>9 DEF Real
  <2> QED
    BY <1>4, <2>1, <2>2 DEF ReadClosed
<1> QED
  BY <1>2, <1>3, <1>4

LEMMA UplinkReal ==
    ASSUME Types, Real, Next, NEW n \in Nodes,
           \/ Post(n) \/ NoAnswer(n) \/ SensorDies(n) \/ Planted(n)
           \/ \E k \in Keys : Cooldown(n, k)
    PROVE  Real'
<1>0. UNCHANGED <<record, score, scoreDb, log>>
  BY DEF Post, NoAnswer, SensorDies, Planted, Cooldown, aggregator
<1>1. CampaignsAreReal' /\ ScoresAreReal'
  BY <1>0, StaysReal
<1>2. CASE Post(n) \/ Planted(n)
  <2>1. UNCHANGED hand
    BY <1>2 DEF Post, Planted, process
  <2>2. \E k \in Keys, e \in Nat : Receives(n, k, e) /\ (k \notin TrapKeys => SawIt(n, k))
    <3>1. CASE Post(n)
      <4>1. hand[n] # <<>> /\ hand[n] \in Seq(Held)
        BY <3>1 DEF Post, Types, ProcessT
      <4>2. Head(hand[n]) = hand[n][1] /\ 1 \in DOMAIN hand[n]
        BY <4>1, HeadTail
      <4>3. hand[n][1].key \in Keys /\ hand[n][1].epoch \in Nat /\ SawIt(n, hand[n][1].key)
        BY <4>2, HandItems DEF Types, Real, HandsAreReal
      <4> QED
        BY <3>1, <4>2, <4>3 DEF Post
    <3>2. CASE Planted(n)
      BY <3>2, MeshAssumption DEF Planted
    <3> QED
      BY <1>2, <3>1, <3>2
  <2> PICK k \in Keys, e \in Nat : Receives(n, k, e) /\ (k \notin TrapKeys => SawIt(n, k))
    BY <2>2
  <2> PICK t \in Threads : handler' = [handler EXCEPT ![t] =
              [pc |-> "get", node |-> n, key |-> k, epoch |-> e, nodes |-> {}]]
    BY DEF Receives
  <2> DEFINE h == [pc |-> "get", node |-> n, key |-> k, epoch |-> e, nodes |-> {}]
  <2>3. h.pc = "get" /\ h.node = n /\ h.key = k
    OBVIOUS
  <2> HIDE DEF h
  <2>4. \A x \in Threads : handler'[x] = IF x = t THEN h ELSE handler[x]
    BY DEF h, Types, AggregatorT
  <2>5. ThreadsAreReal'
    BY <1>0, <2>3, <2>4 DEF Real, ThreadsAreReal, SawIt
  <2> QED
    BY <1>1, <2>1, <2>5, StaysReal DEF Real
<1>3. CASE NoAnswer(n) \/ SensorDies(n)
  <2>1. hand' = [hand EXCEPT ![n] = <<>>] /\ UNCHANGED handler
    BY <1>3 DEF NoAnswer, SensorDies, Fail, aggregator
  <2>2. HandsAreReal'
    BY <1>0, <2>1 DEF Types, ProcessT, Real, HandsAreReal, SawIt
  <2> QED
    BY <1>1, <2>1, <2>2, StaysReal DEF Real
<1>4. CASE \E k \in Keys : Cooldown(n, k)
  <2>1. UNCHANGED hand /\ UNCHANGED handler
    BY <1>4 DEF Cooldown, process, aggregator
  <2> QED
    BY <1>1, <2>1, StaysReal DEF Real
<1> QED
  BY <1>2, <1>3, <1>4

LEMMA AggregatorReal ==
    ASSUME Types, Real, Next, AggregatorDies \/ AggregatorStarts \/ \E t \in Threads : Handle(t)
    PROVE  Real'
<1>0. UNCHANGED log
  BY DEF AggregatorDies, AggregatorStarts, Handle, Refuse, Get, Upsert, SaveReputation,
     SaveFails, Reply
<1>1. CASE AggregatorDies
  <2>1. UNCHANGED <<hand, record, score, scoreDb>> /\ handler' = [t \in Threads |-> Idle]
    BY <1>1 DEF AggregatorDies, process
  <2>2. ThreadsAreReal'
    BY <2>1 DEF ThreadsAreReal
  <2> QED
    BY <2>1, <2>2, StaysReal DEF Real
<1>2. CASE AggregatorStarts
  <2>1. UNCHANGED <<hand, record, handler, scoreDb>> /\ score' = scoreDb
    BY <1>2 DEF AggregatorStarts, process
  <2>2. ScoresAreReal'
    BY <2>1, StaysReal DEF Real, ScoresAreReal
  <2> QED
    BY <2>1, <2>2, StaysReal DEF Real
<1>3. ASSUME NEW t \in Threads, Handle(t) PROVE Real'
  <2> DEFINE h == handler[t]
  <2>1. h \in Handling /\ h # Idle
    BY <1>3, HandlerKinds DEF Handle, Types, AggregatorT
  <2>2. /\ h.node \in Nodes /\ h.key \in Keys /\ h.nodes \in SUBSET Nodes
        /\ handler \in [Threads -> {Idle} \cup Handling] /\ record \in [Keys -> SUBSET Nodes]
        /\ score \in [Nodes -> 0..Top] /\ scoreDb \in [Nodes -> 0..Top]
    BY <2>1 DEF Handling, Types, AggregatorT
  <2>3. /\ h.key \in TrapKeys => h.pc \in {"get", "refuse"}
        /\ h.key \notin TrapKeys => SawIt(h.node, h.key)
        /\ h.pc = "upsert" => \A m \in h.nodes : SawIt(m, h.key)
    BY <2>1 DEF Real, ThreadsAreReal
  <2>4. ASSUME NEW c, handler' = [handler EXCEPT ![t] = c],
               \/ c = Idle
               \/ /\ c.key = h.key /\ c.node = h.node
                  /\ c.key \in TrapKeys => c.pc \in {"get", "refuse"}
                  /\ c.pc = "upsert" => \A m \in c.nodes : SawIt(m, c.key)
        PROVE  ThreadsAreReal'
    <3>1. \A x \in Threads : handler'[x] = IF x = t THEN c ELSE handler[x]
      BY <2>2, <2>4
    <3> QED
      BY <1>0, <2>3, <2>4, <3>1 DEF Real, ThreadsAreReal, SawIt
  <2>5. \A stage \in {"get", "upsert", "save", "reply", "refuse"}, ns \in SUBSET Nodes :
          LET c == [h EXCEPT !.pc = stage]
              d == [h EXCEPT !.pc = stage, !.nodes = ns]
          IN  /\ c.pc = stage /\ c.key = h.key /\ c.node = h.node
              /\ d.pc = stage /\ d.key = h.key /\ d.node = h.node /\ d.nodes = ns
    BY <2>1 DEF Handling
  <2>6. CASE Refuse(t)
    <3>1. handler' = [handler EXCEPT ![t] = [h EXCEPT !.pc = "refuse"]] /\ h.key \in TrapKeys
      BY <2>2, <2>6 DEF Refuse
    <3>2. ThreadsAreReal'
      BY ZenonT(30), <2>4, <2>5, <3>1
    <3>3. UNCHANGED <<hand, record, scoreDb>>
      BY <2>6 DEF Refuse, process
    <3>4. \A n \in Nodes : score'[n] > Initial => score[n] > Initial
      BY <2>2, <2>6 DEF Refuse, Penalty, Initial, Top
    <3>5. ScoresAreReal'
      BY <3>3, <3>4, StaysReal DEF Real, ScoresAreReal
    <3> QED
      BY <3>2, <3>3, <3>5, StaysReal DEF Real
  <2>7. CASE Get(t)
    <3> DEFINE ns == record[h.key] \cup {h.node}
    <3>1. handler' = [handler EXCEPT ![t] = [h EXCEPT !.pc = "upsert", !.nodes = ns]]
          /\ h.key \notin TrapKeys
      BY <2>2, <2>7 DEF Get
    <3>2. \A m \in ns : SawIt(m, h.key)
      BY <2>2, <2>3, <3>1 DEF Real, CampaignsAreReal
    <3>3. ns \in SUBSET Nodes
      BY <2>2
    <3>4. ThreadsAreReal'
      <4> DEFINE c == [h EXCEPT !.pc = "upsert", !.nodes = ns]
      <4>1. c.pc = "upsert" /\ c.key = h.key /\ c.node = h.node /\ c.nodes = ns
        BY <2>5, <3>3
      <4> HIDE DEF c, ns
      <4>2. handler' = [handler EXCEPT ![t] = c]
        BY <3>1 DEF c
      <4> QED
        BY <2>4, <3>1, <3>2, <4>1, <4>2
    <3>5. UNCHANGED <<hand, record, scoreDb>>
      BY <2>7 DEF Get, process
    <3>6. ASSUME NEW n \in Nodes, score'[n] > Initial, ~(score[n] > Initial) PROVE Shares(n)
      <4>1. n \in Credited(h.key, h.node)
        BY <2>7, <3>6 DEF Get
      <4>2. record[h.key] # {} /\ h.node \notin record[h.key] /\ n \in ns
        BY <4>1 DEF Credited
      <4>3. PICK m \in Nodes \ {n} : m \in ns
        BY <2>2, <4>2
      <4> QED
        BY <2>2, <3>2, <4>2, <4>3 DEF Shares
    <3>7. ScoresAreReal'
      BY <3>5, <3>6, StaysReal DEF Real, ScoresAreReal
    <3> QED
      BY <3>4, <3>5, <3>7, StaysReal DEF Real
  <2>8. CASE Upsert(t)
    <3>1. handler' = [handler EXCEPT ![t] = [h EXCEPT !.pc = "save"]] /\ h.pc = "upsert"
      BY <2>2, <2>8 DEF Upsert
    <3>2. ThreadsAreReal'
      BY <2>3, <2>4, <2>5, <3>1
    <3>3. UNCHANGED <<hand, score, scoreDb>> /\ record' = [record EXCEPT ![h.key] = h.nodes]
      BY <2>8 DEF Upsert, process
    <3>4. CampaignsAreReal'
      BY <1>0, <2>2, <2>3, <3>1, <3>3 DEF Real, CampaignsAreReal, SawIt
    <3> QED
      BY <3>2, <3>3, <3>4, StaysReal DEF Real
  <2>9. CASE SaveReputation(t)
    <3>1. handler' = [handler EXCEPT ![t] = [h EXCEPT !.pc = "reply"]] /\ h.pc = "save"
      BY <2>2, <2>9 DEF SaveReputation
    <3>2. ThreadsAreReal'
      BY <2>3, <2>4, <2>5, <3>1
    <3>3. UNCHANGED <<hand, record, score>> /\ scoreDb' = score
      BY <2>9 DEF SaveReputation, process
    <3>4. ScoresAreReal'
      BY <3>3, StaysReal DEF Real, ScoresAreReal
    <3> QED
      BY <3>2, <3>3, <3>4, StaysReal DEF Real
  <2>11. CASE SaveFails(t)
    <3>1. handler' = [handler EXCEPT ![t] = Idle] /\ UNCHANGED <<hand, record, score>>
      BY <2>11 DEF SaveFails, process
    <3>2. ThreadsAreReal'
      BY <2>4, <3>1
    <3>3. \A m \in Nodes : scoreDb'[m] = score[m] \/ scoreDb'[m] = scoreDb[m]
      <4> PICK written \in SUBSET Nodes :
            scoreDb' = [m \in Nodes |-> IF m \in written THEN score[m] ELSE scoreDb[m]]
        BY <2>11 DEF SaveFails
      <4> QED
        OBVIOUS
    <3>4. ScoresAreReal'
      BY <3>1, <3>3, StaysReal DEF Real, ScoresAreReal
    <3> QED
      BY <3>1, <3>2, <3>4, StaysReal DEF Real
  <2>10. CASE Reply(t)
    <3>1. UNCHANGED <<record, score, scoreDb>> /\ handler' = [handler EXCEPT ![t] = Idle]
      BY <2>10 DEF Reply
    <3>2. ThreadsAreReal'
      BY <2>4, <3>1
    <3>3. HandsAreReal'
      <4>1. CASE UNCHANGED hand
        BY <4>1, StaysReal
      <4>2. CASE at[h.node] = "wait" /\ hand' = [hand EXCEPT ![h.node] = Tail(hand[h.node])]
        <5> PICK n \in Nodes : n = h.node
          BY <2>2
        <5>1. hand[n] \in Seq(Held) /\ hand[n] # <<>>
          BY <4>2 DEF Types, ProcessT
        <5>2. /\ DOMAIN Tail(hand[n]) = 1..Len(Tail(hand[n]))
              /\ \A i \in 1..Len(Tail(hand[n])) : Tail(hand[n])[i] = hand[n][i + 1]
              /\ \A i \in 1..Len(Tail(hand[n])) : i + 1 \in DOMAIN hand[n]
          BY <5>1, HeadTail, LenProperties
        <5>3. \A m \in Nodes : \A i \in DOMAIN hand'[m] : \E j \in DOMAIN hand[m] :
                hand'[m][i].key = hand[m][j].key
          <6>1. \A m \in Nodes : hand'[m] = IF m = n THEN Tail(hand[n]) ELSE hand[m]
            BY <4>2 DEF Types, ProcessT
          <6>2. \A i \in DOMAIN Tail(hand[n]) :
                  i + 1 \in DOMAIN hand[n] /\ Tail(hand[n])[i].key = hand[n][i + 1].key
            BY <5>2
          <6>3. \A i \in DOMAIN hand'[n] : \E j \in DOMAIN hand[n] :
                  hand'[n][i].key = hand[n][j].key
            <7>1. hand'[n] = Tail(hand[n])
              BY <6>1
            <7> QED
              BY <7>1, <6>2
          <6>4. \A m \in Nodes : m # n => hand'[m] = hand[m]
            BY <6>1
          <6> QED
            BY <6>3, <6>4
        <5> QED
          BY <5>3, StaysReal
      <4> QED
        BY <2>10, <4>1, <4>2 DEF Reply, process
    <3> QED
      BY <3>1, <3>2, <3>3, StaysReal DEF Real
  <2> QED
    BY <1>3, <2>6, <2>7, <2>8, <2>9, <2>10, <2>11 DEF Handle
<1> QED
  BY <1>1, <1>2, <1>3

LEMMA RealStep == ASSUME Types, Real, Next PROVE Real'
BY SensorReal, UplinkReal, AggregatorReal DEF Next, Cowrie, CowrieHalf

-----------------------------------------------------------------------------
(* The uplink of one node: where its process is (a), what it holds (h),    *)
(* its cooldowns (c) and epoch (e), and what it has posted (p, t).  Keys   *)
(* in hand are distinct and cooling, and not posted but for the one that   *)
(* waits for its answer; epochs in hand rise from the last one posted.     *)
Stages == {"down", "read", "bump", "mark", "post", "wait"}

FreshKeys(a, h, c, p) ==
    /\ \A k \in Keys : p[k] # {} => k \in c
    /\ \A k \in Keys : \A x, y \in p[k] : x = y
    /\ \A i, j \in DOMAIN h : h[i].key = h[j].key => i = j
    /\ \A i \in DOMAIN h : ~(a \in {"bump", "mark"} /\ i = Len(h)) => h[i].key \in c
    /\ \A i \in DOMAIN h : ~(a = "wait" /\ i = 1) => p[h[i].key] = {}

FreshEpochs(a, h, e, t) ==
    /\ t <= e
    /\ \A i \in DOMAIN h : ~(a = "bump" /\ i = Len(h)) =>
         /\ h[i].epoch <= e
         /\ ~(a = "wait" /\ i = 1) => h[i].epoch > t
         /\ \A j \in DOMAIN h : j < i => h[j].epoch < h[i].epoch

Fresh ==
    \A n \in Nodes :
        /\ FreshKeys(at[n], hand[n], cooling[n], posted[n])
        /\ FreshEpochs(at[n], hand[n], epoch[n], top[n])

LEMMA FreshOK == Types /\ Fresh => UplinksAreFresh
<1> SUFFICES ASSUME Types, Fresh, NEW n \in Nodes
             PROVE  /\ \A k \in Keys : Cardinality(posted[n][k]) <= 1
                    /\ at[n] = "post" => Head(hand[n]).epoch > top[n]
  BY DEF UplinksAreFresh
<1>1. ASSUME NEW k \in Keys PROVE Cardinality(posted[n][k]) <= 1
  <2>1. \A x, y \in posted[n][k] : x = y
    BY DEF Fresh, FreshKeys
  <2>2. CASE posted[n][k] = {}
    BY <2>2, FS_EmptySet
  <2>3. CASE posted[n][k] # {}
    <3> PICK x \in posted[n][k] : posted[n][k] = {x}
      BY <2>1, <2>3
    <3>1. Cardinality({x}) = 1
      BY FS_Singleton
    <3> QED
      BY <3>1
  <2> QED
    BY <2>2, <2>3
<1>2. ASSUME at[n] = "post" PROVE Head(hand[n]).epoch > top[n]
  <2>1. hand[n] \in Seq(Held) /\ hand[n] # <<>>
    BY <1>2 DEF Types, ProcessT
  <2>2. Head(hand[n]) = hand[n][1] /\ 1 \in DOMAIN hand[n]
    BY <2>1, HeadTail
  <2> QED
    BY <1>2, <2>2 DEF Fresh, FreshEpochs
<1> QED
  BY <1>1, <1>2

LEMMA InitFresh == Init => Fresh
<1> SUFFICES ASSUME Init, NEW n \in Nodes
             PROVE  /\ FreshKeys(at[n], hand[n], cooling[n], posted[n])
                    /\ FreshEpochs(at[n], hand[n], epoch[n], top[n])
  BY DEF Fresh
<1>1. /\ hand[n] = <<>> /\ epoch[n] = 0 /\ top[n] = 0
      /\ \A k \in Keys : posted[n][k] = {}
  BY DEF Init
<1> QED
  BY <1>1 DEF FreshKeys, FreshEpochs

(* What each kind of step does to the uplink of a node. *)
LEMMA FreshCalm ==
    ASSUME NEW a \in {"down", "read", "post"}, NEW b \in {"down", "read", "post"},
           NEW h, NEW c, NEW p, NEW e, NEW t, FreshKeys(a, h, c, p), FreshEpochs(a, h, e, t)
    PROVE  FreshKeys(b, h, c, p) /\ FreshEpochs(b, h, e, t)
BY DEF FreshKeys, FreshEpochs

LEMMA FreshFail ==
    ASSUME NEW a, NEW b, NEW h, NEW c, NEW p, NEW e, NEW t,
           FreshKeys(a, h, c, p), FreshEpochs(a, h, e, t)
    PROVE  FreshKeys(b, <<>>, c, p) /\ FreshEpochs(b, <<>>, e, t)
BY DEF FreshKeys, FreshEpochs

LEMMA FreshTake ==
    ASSUME NEW h \in Seq(Held), NEW c, NEW p \in [Keys -> SUBSET Nat], NEW e \in Nat,
           NEW t \in Nat, FreshKeys("read", h, c, p), FreshEpochs("read", h, e, t),
           NEW o \in Held, o.key \notin c
    PROVE  FreshKeys("bump", Append(h, o), c, p) /\ FreshEpochs("bump", Append(h, o), e, t)
<1> DEFINE g == Append(h, o)
           m == Len(h)
<1>1. m \in Nat /\ DOMAIN h = 1..m /\ DOMAIN g = 1..(m + 1) /\ Len(g) = m + 1
      /\ g[m + 1] = o /\ (\A i \in 1..m : g[i] = h[i])
  BY AppendProperties, LenProperties
<1>2. o.key \in Keys
  BY DEF Held
<1> HIDE DEF g, m
<1>3. FreshKeys("bump", g, c, p)
  <2>1. \A i \in 1..m : h[i].key # o.key /\ h[i].key \in c
    BY <1>1 DEF FreshKeys
  <2>2. \A i, j \in DOMAIN g : g[i].key = g[j].key => i = j
    BY <1>1, <2>1 DEF FreshKeys
  <2>3. p[o.key] = {}
    BY <1>2 DEF FreshKeys
  <2>4. \A i \in DOMAIN g : p[g[i].key] = {}
    <3>1. \A i \in 1..m : p[h[i].key] = {}
      BY <1>1 DEF FreshKeys
    <3>2. \A i \in 1..m : p[g[i].key] = {}
      BY <1>1, <3>1
    <3>3. p[g[m + 1].key] = {}
      BY <1>1, <2>3
    <3>4. \A i \in DOMAIN g : i \in 1..m \/ i = m + 1
      BY <1>1
    <3> QED
      BY <3>2, <3>3, <3>4
  <2>5. \A i \in DOMAIN g : i # m + 1 => g[i].key \in c
    BY <1>1, <2>1
  <2> QED
    BY <1>1, <2>2, <2>4, <2>5 DEF FreshKeys
<1>4. FreshEpochs("bump", g, e, t)
  BY <1>1 DEF FreshEpochs
<1> QED
  BY <1>3, <1>4 DEF g

LEMMA FreshBump ==
    ASSUME NEW h \in Seq(Held), h # <<>>, NEW c, NEW p, NEW e \in Nat, NEW t \in Nat,
           FreshKeys("bump", h, c, p), FreshEpochs("bump", h, e, t)
    PROVE  LET g == [h EXCEPT ![Len(h)].epoch = e + 1] IN
           FreshKeys("mark", g, c, p) /\ FreshEpochs("mark", g, e + 1, t)
<1> DEFINE g == [h EXCEPT ![Len(h)].epoch = e + 1]
           m == Len(h)
<1>1. m \in Nat /\ m > 0 /\ DOMAIN h = 1..m /\ Len(g) = m /\ DOMAIN g = 1..m
  BY BumpHand, HeadTail
<1>2. \A i \in 1..m :
        /\ g[i].key = h[i].key
        /\ g[i].epoch = IF i = m THEN e + 1 ELSE h[i].epoch
  BY <1>1, BumpHand
<1>3. \A i \in 1..m : h[i].epoch \in Nat
  BY <1>1, Items
<1> HIDE DEF g, m
<1>4. FreshKeys("mark", g, c, p)
  BY <1>1, <1>2 DEF FreshKeys, m
<1>5. FreshEpochs("mark", g, e + 1, t)
  <2>1. \A i \in 1..m : i # m => h[i].epoch <= e /\ h[i].epoch > t
    BY <1>1 DEF FreshEpochs, m
  <2>2. \A i, j \in 1..m : i # m /\ j < i => h[j].epoch < h[i].epoch
    BY <1>1 DEF FreshEpochs, m
  <2>3. \A i, j \in 1..m : j < i => g[j].epoch < g[i].epoch
    BY <1>1, <1>2, <1>3, <2>1, <2>2
  <2>4. \A i \in 1..m : g[i].epoch <= e + 1 /\ g[i].epoch > t
    BY <1>1, <1>2, <1>3, <2>1 DEF FreshEpochs
  <2> QED
    BY <1>1, <2>3, <2>4 DEF FreshEpochs
<1> QED
  BY <1>4, <1>5 DEF g

LEMMA FreshMark ==
    ASSUME NEW h, NEW c, NEW p, NEW e, NEW t, NEW b \in {"read", "post"},
           FreshKeys("mark", h, c, p), FreshEpochs("mark", h, e, t)
    PROVE  FreshKeys(b, h, c \cup {h[Len(h)].key}, p) /\ FreshEpochs(b, h, e, t)
BY DEF FreshKeys, FreshEpochs

LEMMA FreshPost ==
    ASSUME NEW h \in Seq(Held), h # <<>>, NEW c, NEW p \in [Keys -> SUBSET Nat], NEW e \in Nat,
           NEW t \in Nat, FreshKeys("post", h, c, p), FreshEpochs("post", h, e, t)
    PROVE  LET o == Head(h) IN
           /\ FreshKeys("wait", h, c, [p EXCEPT ![o.key] = @ \cup {o.epoch}])
           /\ FreshEpochs("wait", h, e, o.epoch)
<1>1. Head(h) = h[1] /\ 1 \in DOMAIN h /\ DOMAIN h = 1..Len(h) /\ Len(h) \in Nat
  BY HeadTail
<1>2. h[1].key \in Keys /\ \A i \in DOMAIN h : h[i].epoch \in Nat /\ h[i].key \in Keys
  BY <1>1, Items
<1>3. p[h[1].key] = {} /\ h[1].key \in c
  BY <1>1 DEF FreshKeys
<1> DEFINE q == [p EXCEPT ![h[1].key] = @ \cup {h[1].epoch}]
<1>4. q[h[1].key] = {h[1].epoch} /\ \A k \in Keys : k # h[1].key => q[k] = p[k]
  BY <1>2, <1>3
<1> HIDE DEF q
<1>5. FreshKeys("wait", h, c, q)
  BY <1>1, <1>2, <1>3, <1>4 DEF FreshKeys
<1>6. FreshEpochs("wait", h, e, h[1].epoch)
  BY <1>1, <1>2 DEF FreshEpochs
<1> QED
  BY <1>1, <1>5, <1>6 DEF q

LEMMA FreshReply ==
    ASSUME NEW h \in Seq(Held), h # <<>>, NEW c, NEW p, NEW e, NEW t,
           NEW b \in {"down", "read", "post"},
           FreshKeys("wait", h, c, p), FreshEpochs("wait", h, e, t)
    PROVE  FreshKeys(b, Tail(h), c, p) /\ FreshEpochs(b, Tail(h), e, t)
<1> DEFINE g == Tail(h)
           m == Len(g)
<1>1. m \in Nat /\ DOMAIN g = 1..m /\ DOMAIN h = 1..(m + 1) /\ \A i \in 1..m : g[i] = h[i + 1]
  BY HeadTail, LenProperties
<1> HIDE DEF g, m
<1>2. \A i \in 1..m : i + 1 \in DOMAIN h /\ i + 1 # 1
  BY <1>1
<1>3. FreshKeys(b, g, c, p)
  <2>1. \A i, j \in DOMAIN g : g[i].key = g[j].key => i = j
    <3> SUFFICES ASSUME NEW i \in 1..m, NEW j \in 1..m, h[i + 1].key = h[j + 1].key PROVE i = j
      BY <1>1
    <3>1. i + 1 = j + 1
      BY <1>2 DEF FreshKeys
    <3> QED
      BY <1>1, <3>1
  <2>2. \A i \in DOMAIN g : g[i].key \in c /\ p[g[i].key] = {}
    BY <1>1, <1>2 DEF FreshKeys
  <2> QED
    BY <2>1, <2>2 DEF FreshKeys
<1>4. FreshEpochs(b, g, e, t)
  <2>1. \A i \in DOMAIN g : g[i].epoch <= e /\ g[i].epoch > t
    BY <1>1, <1>2 DEF FreshEpochs
  <2>2. \A i, j \in DOMAIN g : j < i => g[j].epoch < g[i].epoch
    <3> SUFFICES ASSUME NEW i \in 1..m, NEW j \in 1..m, j < i
                 PROVE  h[j + 1].epoch < h[i + 1].epoch
      BY <1>1
    <3>1. j + 1 < i + 1 /\ j + 1 \in DOMAIN h /\ i + 1 \in DOMAIN h
      BY <1>1
    <3> QED
      BY <3>1 DEF FreshEpochs
  <2>3. t <= e
    BY DEF FreshEpochs
  <2> QED
    BY <2>1, <2>2, <2>3 DEF FreshEpochs
<1> QED
  BY <1>3, <1>4 DEF g

LEMMA FreshCool ==
    ASSUME NEW a, NEW h \in Seq(Held), NEW c, NEW p \in [Keys -> SUBSET Nat], NEW k \in Keys,
           \A i \in DOMAIN h : h[i].key # k, FreshKeys(a, h, c, p)
    PROVE  FreshKeys(a, h, c \ {k}, [p EXCEPT ![k] = {}])
<1>1. \A i \in DOMAIN h : h[i].key \in Keys
  BY Items
<1> QED
  BY <1>1 DEF FreshKeys

LEMMA FreshStep == ASSUME Types, Fresh, Next PROVE Fresh'
<1>3. UNCHANGED <<at, hand, uplink>> => Fresh'
  BY DEF uplink, Fresh
<1>4. \A n \in Nodes :
        /\ hand[n] \in Seq(Held) /\ posted[n] \in [Keys -> SUBSET Nat]
        /\ epoch[n] \in Nat /\ top[n] \in Nat
        /\ at[n] \in {"bump", "mark", "post", "wait"} => hand[n] # <<>>
  BY DEF Types, ProcessT, UplinkT
<1> DEFINE Others(n) ==
             \A m \in Nodes \ {n} :
                /\ at'[m] = at[m] /\ hand'[m] = hand[m] /\ cooling'[m] = cooling[m]
                /\ posted'[m] = posted[m] /\ epoch'[m] = epoch[m] /\ top'[m] = top[m]
<1>5. ASSUME NEW n \in Nodes, Others(n),
             FreshKeys(at'[n], hand'[n], cooling'[n], posted'[n]),
             FreshEpochs(at'[n], hand'[n], epoch'[n], top'[n])
      PROVE  Fresh'
  BY <1>5 DEF Fresh
<1>6. /\ at \in [Nodes -> Stages] /\ hand \in [Nodes -> Seq(Held)]
      /\ cooling \in [Nodes -> SUBSET Keys] /\ posted \in [Nodes -> [Keys -> SUBSET Nat]]
      /\ epoch \in [Nodes -> Nat] /\ top \in [Nodes -> Nat]
  BY DEF Types, ProcessT, UplinkT, Stages
<1>7. ASSUME NEW n \in Nodes, NEW b \in {"down", "read", "post"},
             at[n] \in {"down", "read", "post"},
             at' = [at EXCEPT ![n] = b], UNCHANGED <<hand, uplink>>
      PROVE  Fresh'
  <2>1. FreshKeys(b, hand[n], cooling[n], posted[n]) /\ FreshEpochs(b, hand[n], epoch[n], top[n])
    BY <1>7, FreshCalm DEF Fresh
  <2>9. /\ Others(n) /\ at'[n] = b /\ hand'[n] = hand[n]
        /\ cooling'[n] = cooling[n] /\ posted'[n] = posted[n]
        /\ epoch'[n] = epoch[n] /\ top'[n] = top[n]
    BY <1>6, <1>7 DEF uplink
  <2> QED
    BY <1>5, <2>1, <2>9
<1>8. ASSUME NEW n \in Nodes, Fail(n), UNCHANGED uplink PROVE Fresh'
  <2>1. /\ FreshKeys("down", <<>>, cooling[n], posted[n])
        /\ FreshEpochs("down", <<>>, epoch[n], top[n])
    BY FreshFail DEF Fresh
  <2>9. /\ Others(n) /\ at'[n] = "down" /\ hand'[n] = <<>>
        /\ cooling'[n] = cooling[n] /\ posted'[n] = posted[n]
        /\ epoch'[n] = epoch[n] /\ top'[n] = top[n]
    BY <1>6, <1>8 DEF uplink, Fail
  <2> QED
    BY <1>5, <2>1, <2>9
<1>9. ASSUME NEW n \in Nodes, Start(n) \/ Eof(n) PROVE Fresh'
  <2>1. CASE Start(n)
    BY <1>7, <2>1 DEF Start
  <2>2. CASE Eof(n)
    BY <1>7, <2>2 DEF Eof
  <2> QED
    BY <1>9, <2>1, <2>2
<1>10. ASSUME NEW n \in Nodes, ReadClosed(n) PROVE Fresh'
  <2> DEFINE o == [key |-> KeyOf[Line(n)[2]], epoch |-> 0]
  <2>1. CASE UNCHANGED <<at, hand>>
    BY <1>3, <1>10, <2>1 DEF ReadClosed
  <2>2. CASE /\ KeyOf[Line(n)[2]] \notin cooling[n] /\ at' = [at EXCEPT ![n] = "bump"]
             /\ hand' = [hand EXCEPT ![n] = Append(hand[n], o)]
    <3>1. Line(n) \in Lines
      BY <1>10, ElementOfSeq, LenProperties DEF ReadClosed, Reads, Line, Types, TailT
    <3>2. o \in Held /\ o.key = KeyOf[Line(n)[2]]
      BY <3>1, MeshAssumption DEF Lines, Held
    <3> HIDE DEF o
    <3>3. at[n] = "read"
      BY <1>10 DEF ReadClosed, Reads
    <3>4. FreshKeys("read", hand[n], cooling[n], posted[n])
          /\ FreshEpochs("read", hand[n], epoch[n], top[n])
      BY <3>3 DEF Fresh
    <3>5. FreshKeys("bump", Append(hand[n], o), cooling[n], posted[n])
          /\ FreshEpochs("bump", Append(hand[n], o), epoch[n], top[n])
      BY <1>4, <2>2, <3>2, <3>4, FreshTake
    <3>9. /\ Others(n) /\ at'[n] = "bump" /\ hand'[n] = Append(hand[n], o)
          /\ cooling'[n] = cooling[n] /\ posted'[n] = posted[n]
          /\ epoch'[n] = epoch[n] /\ top'[n] = top[n]
      BY <1>6, <1>10, <2>2 DEF ReadClosed, uplink
    <3> QED
      BY <1>5, <3>5, <3>9
  <2> QED
    BY <1>10, <2>1, <2>2 DEF ReadClosed, Uplinks
<1>11. ASSUME NEW n \in Nodes, Bump(n) PROVE Fresh'
  <2> DEFINE g == [hand[n] EXCEPT ![Len(hand[n])].epoch = epoch[n] + 1]
  <2>1. FreshKeys("bump", hand[n], cooling[n], posted[n])
        /\ FreshEpochs("bump", hand[n], epoch[n], top[n])
    BY <1>11 DEF Bump, Fresh
  <2>2. FreshKeys("mark", g, cooling[n], posted[n]) /\ FreshEpochs("mark", g, epoch[n] + 1, top[n])
    BY <1>4, <1>11, <2>1, FreshBump DEF Bump
  <2>3. hand' = [hand EXCEPT ![n] = g] /\ at' = [at EXCEPT ![n] = "mark"]
        /\ epoch' = [epoch EXCEPT ![n] = epoch[n] + 1] /\ UNCHANGED <<cooling, posted, top>>
    BY <1>11 DEF Bump, Types, ProcessT
  <2> HIDE DEF g
  <2>9. /\ Others(n) /\ at'[n] = "mark" /\ hand'[n] = g
        /\ cooling'[n] = cooling[n] /\ posted'[n] = posted[n]
        /\ epoch'[n] = epoch[n] + 1 /\ top'[n] = top[n]
    BY <1>6, <2>3
  <2> QED
    BY <1>5, <2>2, <2>9
<1>12. ASSUME NEW n \in Nodes, Mark(n) PROVE Fresh'
  <2> DEFINE b == IF once[n] THEN "read" ELSE "post"
             c == cooling[n] \cup {hand[n][Len(hand[n])].key}
  <2>1. FreshKeys(b, hand[n], c, posted[n]) /\ FreshEpochs(b, hand[n], epoch[n], top[n])
    BY <1>12, FreshMark DEF Mark, Fresh
  <2>2. /\ at' = [at EXCEPT ![n] = b] /\ cooling' = [cooling EXCEPT ![n] = c]
        /\ UNCHANGED <<hand, posted, epoch, top>>
    BY <1>12 DEF Mark
  <2> HIDE DEF b, c
  <2>9. /\ Others(n) /\ at'[n] = b /\ hand'[n] = hand[n]
        /\ cooling'[n] = c /\ posted'[n] = posted[n]
        /\ epoch'[n] = epoch[n] /\ top'[n] = top[n]
    BY <1>6, <2>2
  <2> QED
    BY <1>5, <2>1, <2>9
<1>13. ASSUME NEW n \in Nodes, Post(n) PROVE Fresh'
  <2> DEFINE o == Head(hand[n])
             q == [posted[n] EXCEPT ![o.key] = @ \cup {o.epoch}]
  <2>0. FreshKeys("post", hand[n], cooling[n], posted[n])
        /\ FreshEpochs("post", hand[n], epoch[n], top[n])
    BY <1>13 DEF Post, Fresh
  <2>1. FreshKeys("wait", hand[n], cooling[n], q) /\ FreshEpochs("wait", hand[n], epoch[n], o.epoch)
    BY <1>4, <1>13, <2>0, FreshPost DEF Post
  <2>2. /\ at' = [at EXCEPT ![n] = "wait"] /\ posted' = [posted EXCEPT ![n] = q]
        /\ top' = [top EXCEPT ![n] = o.epoch] /\ UNCHANGED <<hand, cooling, epoch>>
    BY <1>13 DEF Post
  <2> HIDE DEF o, q
  <2>9. /\ Others(n) /\ at'[n] = "wait" /\ hand'[n] = hand[n]
        /\ cooling'[n] = cooling[n] /\ posted'[n] = q
        /\ epoch'[n] = epoch[n] /\ top'[n] = o.epoch
    BY <1>6, <2>2
  <2> QED
    BY <1>5, <2>1, <2>9
<1>14. ASSUME NEW n \in Nodes, NoAnswer(n) \/ SensorDies(n) PROVE Fresh'
  BY <1>8, <1>14 DEF NoAnswer, SensorDies
<1>15. ASSUME NEW n \in Nodes, NEW k \in Keys, Cooldown(n, k) PROVE Fresh'
  <2>1. FreshKeys(at[n], hand[n], cooling[n] \ {k}, [posted[n] EXCEPT ![k] = {}])
        /\ FreshEpochs(at[n], hand[n], epoch[n], top[n])
    BY <1>4, <1>15, FreshCool DEF Cooldown, Fresh
  <2>2. /\ cooling' = [cooling EXCEPT ![n] = cooling[n] \ {k}]
        /\ posted' = [posted EXCEPT ![n] = [posted[n] EXCEPT ![k] = {}]]
        /\ UNCHANGED <<at, hand, epoch, top>>
    BY <1>15 DEF Cooldown, process
  <2>9. /\ Others(n) /\ at'[n] = at[n] /\ hand'[n] = hand[n]
        /\ cooling'[n] = cooling[n] \ {k} /\ posted'[n] = [posted[n] EXCEPT ![k] = {}]
        /\ epoch'[n] = epoch[n] /\ top'[n] = top[n]
    BY <1>6, <2>2
  <2> QED
    BY <1>5, <2>1, <2>9
<1>16. ASSUME NEW t \in Threads, Reply(t), handler[t] # Idle PROVE Fresh'
  <2> PICK n \in Nodes : n = handler[t].node
    BY <1>16, HandlerKinds DEF Types, AggregatorT, Handling
  <2> DEFINE b == IF ~once[n] THEN "read" ELSE IF Len(hand[n]) = 1 THEN "down" ELSE "post"
  <2>1. CASE at[n] # "wait" \/ ~Serves(t, n)
    BY <1>3, <1>16, <2>1 DEF Reply, process
  <2>2. CASE at[n] = "wait" /\ Serves(t, n)
    <3>1. FreshKeys("wait", hand[n], cooling[n], posted[n])
          /\ FreshEpochs("wait", hand[n], epoch[n], top[n])
      BY <2>2 DEF Fresh
    <3>2. FreshKeys(b, Tail(hand[n]), cooling[n], posted[n])
          /\ FreshEpochs(b, Tail(hand[n]), epoch[n], top[n])
      BY <1>4, <2>2, <3>1, FreshReply
    <3>3. /\ at' = [at EXCEPT ![n] = b] /\ hand' = [hand EXCEPT ![n] = Tail(hand[n])]
          /\ UNCHANGED uplink
      BY <1>16, <2>2 DEF Reply
    <3> HIDE DEF b
    <3>9. /\ Others(n) /\ at'[n] = b /\ hand'[n] = Tail(hand[n])
          /\ cooling'[n] = cooling[n] /\ posted'[n] = posted[n]
          /\ epoch'[n] = epoch[n] /\ top'[n] = top[n]
      BY <1>6, <3>3 DEF uplink
    <3> QED
      BY <1>5, <3>2, <3>9
  <2> QED
    BY <2>1, <2>2
<1>17. ASSUME \/ \E n \in Nodes : \/ Appends(n) \/ CowrieRest(n) \/ ReadTorn(n) \/ ReadOpen(n)
                                   \/ Planted(n)
              \/ AggregatorDies \/ AggregatorStarts
              \/ \E t \in Threads : \/ Refuse(t) \/ Get(t) \/ Upsert(t) \/ SaveReputation(t)
                                    \/ SaveFails(t)
       PROVE  Fresh'
  BY <1>3, <1>17 DEF Appends, CowrieRest, ReadTorn, ReadOpen, Planted, AggregatorDies,
     AggregatorStarts, Refuse, Get, Upsert, SaveReputation, SaveFails, process
<1> QED
  BY <1>9, <1>10, <1>11, <1>12, <1>13, <1>14, <1>15, <1>16, <1>17 DEF Next, Handle, Cowrie,
     CowrieHalf
-----------------------------------------------------------------------------
(* What a rollup counts.  Cowrie writes each line of a session once, its   *)
(* end after its commands.  A pass over the log counts no session twice,   *)
(* so that the rollup is at most the sessions read in this pass, and for   *)
(* each time the process was stopped before all the sessions of the log.   *)
ClosedBy(l, p, k) == {s \in Sessions : KeyOf[s] = k /\ \E i \in 1..p : l[i] = <<"closed", s>>}
Count(l, p, k) == Cardinality(ClosedBy(l, p, k))
Total(n, k) == Count(log[n], Len(log[n]), k)

LogOnce(l) ==
    /\ \A i, j \in 1..Len(l) : l[i] = l[j] => i = j
    /\ \A i \in 1..Len(l) : l[i][1] = "closed" =>
         \E j \in 1..Len(l) : j < i /\ l[j] = <<"open", l[i][2]>>
Place(n) == IF at[n] = "down" THEN saved[n] ELSE pos[n]
Passes(n) ==
    /\ \A k \in Keys : seen[n][k] <= Count(log[n], Place(n), k) + stops[n] * Total(n, k)
    /\ once[n] /\ at[n] \in {"post", "wait"} => saved[n] = pos[n]

(* In its first pass a process knows the sessions whose commands it read   *)
(* whole (r: the lines it did), and has counted those whose end it did.    *)
Opened(l, r)  == {s \in Sessions : \E i \in r : l[i] = <<"open", s>>}
Ended(l, r)   == {s \in Sessions : \E i \in r : l[i] = <<"closed", s>>}
Both(l, r, k) == {s \in Opened(l, r) \cap Ended(l, r) : KeyOf[s] = k}
Intact(n)     == 1..pos[n] \ torn[n]
FirstPass(n) ==
    stops[n] = 0 /\ ~once[n] =>
      /\ at[n] = "down" => pos[n] = 0 /\ saved[n] = 0
      /\ torn[n] \subseteq 1..pos[n]
      /\ open[n] = Opened(log[n], Intact(n)) \ Ended(log[n], Intact(n))
      /\ \A k \in Keys : seen[n][k] = Cardinality(Both(log[n], Intact(n), k))
Rolled(n) == LogOnce(log[n]) /\ Passes(n) /\ FirstPass(n)

LEMMA ClosedByFinite ==
    ASSUME NEW l, NEW p \in Nat, NEW k
    PROVE  IsFiniteSet(ClosedBy(l, p, k)) /\ Count(l, p, k) \in Nat
<1> DEFINE f == [i \in 1..p |-> l[i][2]]
           T == {l[i][2] : i \in 1..p}
<1>1. IsFiniteSet(1..p)
  BY FS_Interval
<1>2. f \in Surjection(1..p, T)
  BY DEF Surjection
<1>3. IsFiniteSet(T)
  BY <1>1, <1>2, FS_Surjection
<1>4. ClosedBy(l, p, k) \subseteq T
  BY DEF ClosedBy
<1> HIDE DEF T
<1>5. IsFiniteSet(ClosedBy(l, p, k))
  BY <1>3, <1>4, FS_Subset
<1> QED
  BY <1>5, FS_CardinalityType DEF Count

LEMMA ClosedIs ==
    ASSUME NEW l \in Seq(Lines), NEW n, NEW k
    PROVE  Closed(n, k, l) = ClosedBy(l, Len(l), k)
<1>1. DOMAIN l = 1..Len(l)
  BY LenProperties
<1> QED
  BY <1>1 DEF Closed, ClosedBy, Elements

LEMMA CountGrows ==
    ASSUME NEW l, NEW p \in Nat, NEW q \in Nat, p <= q, NEW k
    PROVE  Count(l, p, k) <= Count(l, q, k)
<1>1. 1..p \subseteq 1..q
  OBVIOUS
<1>2. ClosedBy(l, p, k) \subseteq ClosedBy(l, q, k)
  BY <1>1 DEF ClosedBy
<1> QED
  BY <1>2, ClosedByFinite, FS_Subset DEF Count

(* A new session counts once, a line that is no end of one does not.       *)
LEMMA CountLine ==
    ASSUME NEW l, LogOnce(l), Len(l) \in Nat, NEW p \in Nat, p + 1 <= Len(l), NEW k, NEW s \in Sessions
    PROVE  /\ l[p + 1] = <<"closed", s>> =>
                Count(l, p + 1, k) = IF KeyOf[s] = k THEN Count(l, p, k) + 1 ELSE Count(l, p, k)
           /\ l[p + 1][1] # "closed" => Count(l, p + 1, k) = Count(l, p, k)
<1>1. \A i : i \in 1..(p + 1) <=> i \in 1..p \/ i = p + 1
  OBVIOUS
<1>2. CASE l[p + 1] = <<"closed", s>>
  <2>1. \A i \in 1..p : l[i] # <<"closed", s>>
    <3>1. \A i \in 1..p : i \in 1..Len(l) /\ i # p + 1
      OBVIOUS
    <3>2. p + 1 \in 1..Len(l)
      OBVIOUS
    <3> QED
      BY <1>2, <3>1, <3>2 DEF LogOnce
  <2>2. \A r \in Sessions : l[p + 1] = <<"closed", r>> <=> r = s
    BY <1>2
  <2>3. s \notin ClosedBy(l, p, k)
    BY <2>1 DEF ClosedBy
  <2>4. KeyOf[s] = k => ClosedBy(l, p + 1, k) = ClosedBy(l, p, k) \cup {s}
    BY <1>1, <2>2 DEF ClosedBy
  <2>5. KeyOf[s] # k => ClosedBy(l, p + 1, k) = ClosedBy(l, p, k)
    BY <1>1, <2>2 DEF ClosedBy
  <2> QED
    BY <1>2, <2>3, <2>4, <2>5, ClosedByFinite, FS_AddElement DEF Count
<1>3. CASE l[p + 1][1] # "closed"
  <2>1. \A r \in Sessions : l[p + 1] # <<"closed", r>>
    BY <1>3
  <2>2. ClosedBy(l, p + 1, k) = ClosedBy(l, p, k)
    BY <1>1, <2>1 DEF ClosedBy
  <2> QED
    BY <1>3, <2>2 DEF Count
<1> QED
  BY <1>2, <1>3

(* What one more line read whole adds to the sessions opened and ended.    *)
Follows(q, r, x, l) ==
    /\ q \in 1..Len(l) /\ r \subseteq 1..Len(l) /\ \A i \in r : i < q
    /\ x = r \cup {q} /\ Len(l) \in Nat /\ LogOnce(l)

Opens(l, r, x, s) ==
    /\ Opened(l, x) = Opened(l, r) \cup {s} /\ Ended(l, x) = Ended(l, r) /\ s \notin Ended(l, r)
Ends(l, r, x, s) ==
    /\ Opened(l, x) = Opened(l, r) /\ Ended(l, x) = Ended(l, r) \cup {s} /\ s \notin Ended(l, r)

LEMMA OpenRead ==
    ASSUME NEW l, NEW q, NEW r, NEW x, Follows(q, r, x, l), NEW s \in Sessions,
           l[q] = <<"open", s>>
    PROVE  Opens(l, r, x, s)
<1>0. \A i \in r : i # q /\ ~(q < i) /\ i \in 1..Len(l)
  BY DEF Follows
<1>1. q \in 1..Len(l) /\ x = r \cup {q} /\ LogOnce(l)
  BY DEF Follows
<1>2. ASSUME NEW i \in r, l[i] = <<"closed", s>> PROVE FALSE
  <2>1. l[i][1] = "closed" /\ l[i][2] = s /\ i \in 1..Len(l)
    BY <1>0, <1>2
  <2>2. PICK j \in 1..Len(l) : j < i /\ l[j] = <<"open", l[i][2]>>
    BY <1>1, <2>1 DEF LogOnce
  <2>3. j = q
    BY <1>1, <2>1, <2>2 DEF LogOnce
  <2> QED
    BY <1>0, <2>2, <2>3
<1>3. \A z \in Sessions : (l[q] = <<"open", z>> <=> z = s) /\ l[q] # <<"closed", z>>
  OBVIOUS
<1> QED
  BY <1>1, <1>2, <1>3 DEF Opens, Opened, Ended

LEMMA EndRead ==
    ASSUME NEW l, NEW q, NEW r, NEW x, Follows(q, r, x, l), NEW s \in Sessions,
           l[q] = <<"closed", s>>
    PROVE  Ends(l, r, x, s)
<1>0. \A i \in r : i # q /\ i \in 1..Len(l)
  BY DEF Follows
<1>1. q \in 1..Len(l) /\ x = r \cup {q} /\ LogOnce(l)
  BY DEF Follows
<1>2. ASSUME NEW i \in r, l[i] = <<"closed", s>> PROVE FALSE
  BY <1>0, <1>1, <1>2 DEF LogOnce
<1>3. \A z \in Sessions : (l[q] = <<"closed", z>> <=> z = s) /\ l[q] # <<"open", z>>
  OBVIOUS
<1> QED
  BY <1>1, <1>2, <1>3 DEF Ends, Opened, Ended

LEMMA BothFinite ==
    ASSUME NEW l, NEW p \in Nat, NEW r \in SUBSET (1..p), NEW k
    PROVE  IsFiniteSet(Both(l, r, k)) /\ Cardinality(Both(l, r, k)) \in Nat
<1>1. Both(l, r, k) \subseteq ClosedBy(l, p, k)
  BY DEF Both, Ended, ClosedBy
<1> QED
  BY <1>1, ClosedByFinite, FS_Subset, FS_CardinalityType

LEMMA LogStaysOnce ==
    ASSUME NEW l \in Seq(Lines), LogOnce(l), NEW s \in Sessions,
           <<"closed", s>> \notin Elements(l), NEW x,
           x = <<IF <<"open", s>> \in Elements(l) THEN "closed" ELSE "open", s>>
    PROVE  /\ LogOnce(Append(l, x)) /\ Len(Append(l, x)) = Len(l) + 1
           /\ \A i \in 1..Len(l) : Append(l, x)[i] = l[i]
<1> DEFINE m == Append(l, x)
           len == Len(l)
<1>1. len \in Nat /\ DOMAIN l = 1..len
  BY LenProperties
<1>2. Len(m) = len + 1 /\ m[len + 1] = x /\ \A i \in 1..len : m[i] = l[i]
  BY AppendProperties
<1>3. \A i \in 1..len : l[i] # x
  BY <1>1 DEF Elements
<1>4. x[1] = "closed" => \E j \in 1..len : l[j] = <<"open", s>>
  BY <1>1 DEF Elements
<1>5. x[2] = s
  OBVIOUS
<1>6. \A i : i \in 1..(len + 1) <=> i \in 1..len \/ i = len + 1
  BY <1>1
<1>7. \A i \in 1..len : i < len + 1
  BY <1>1
<1> HIDE DEF m, len
<1>8. \A i, j \in 1..Len(m) : m[i] = m[j] => i = j
  BY <1>2, <1>3, <1>6 DEF LogOnce, len
<1>9. \A i \in 1..Len(m) : m[i][1] = "closed" =>
         \E j \in 1..Len(m) : j < i /\ m[j] = <<"open", m[i][2]>>
  <2> SUFFICES ASSUME NEW i \in 1..(len + 1), m[i][1] = "closed"
               PROVE  \E j \in 1..len : j < i /\ m[j] = <<"open", m[i][2]>>
    BY <1>2, <1>6
  <2>1. CASE i \in 1..len
    BY <1>2, <2>1 DEF LogOnce, len
  <2>2. CASE i = len + 1
    BY <1>2, <1>4, <1>5, <1>7, <2>2
  <2> QED
    BY <1>6, <2>1, <2>2
<1> QED
  BY <1>2, <1>8, <1>9 DEF LogOnce, m, len

(* A node that reads nothing, and is neither started nor stopped.          *)
LEMMA RolledStays ==
    ASSUME NEW n \in Nodes, Rolled(n),
           UNCHANGED <<log[n], saved[n], pos[n], open[n], seen[n], once[n], torn[n], stops[n]>>,
           at'[n] = "down" <=> at[n] = "down",
           once[n] /\ at'[n] \in {"post", "wait"} => at[n] \in {"post", "wait"}
    PROVE  Rolled(n)'
<1>1. LogOnce(log[n])'
  BY DEF Rolled
<1>2. \A p, k : Count(log[n], p, k)' = Count(log[n], p, k)
  BY DEF Count, ClosedBy
<1>3. Place(n)' = Place(n)
  BY DEF Place
<1>4. \A k : Total(n, k)' = Total(n, k) /\ Count(log[n], Place(n), k)' = Count(log[n], Place(n), k)
             /\ Count(log[n], pos[n], k)' = Count(log[n], pos[n], k)
  BY <1>3 DEF Total, Count, ClosedBy
<1>5. Passes(n)'
  BY <1>4 DEF Rolled, Passes
<1>6. FirstPass(n)'
  <2>1. Intact(n)' = Intact(n)
    BY DEF Intact
  <2>2. \A r, k : /\ Opened(log'[n], r) = Opened(log[n], r)
                 /\ Ended(log'[n], r) = Ended(log[n], r) /\ Both(log'[n], r, k) = Both(log[n], r, k)
    OBVIOUS
  <2> QED
    BY <2>1, <2>2 DEF Rolled, FirstPass
<1> QED
  BY <1>1, <1>5, <1>6 DEF Rolled

LEMMA Places ==
    ASSUME Types, NEW n \in Nodes
    PROVE  /\ log[n] \in Seq(Lines) /\ Len(log[n]) \in Nat /\ pos[n] \in Nat /\ saved[n] \in Nat
           /\ saved[n] <= pos[n] /\ pos[n] <= Len(log[n]) /\ stops[n] \in Nat
           /\ Place(n) \in Nat /\ Place(n) <= pos[n]
           /\ \A k \in Keys : seen[n][k] \in Nat
           /\ \A k : Total(n, k) \in Nat
BY LenProperties, ClosedByFinite DEF Types, TailT, ProcessT, Place, Total

LEMMA RolledWrite == ASSUME Types, NEW n \in Nodes, Rolled(n), Appends(n) PROVE Rolled(n)'
<1>1. UNCHANGED <<saved, pos, open, seen, once, torn, at, stops>>
  BY DEF Appends, tail, process
<1> PICK s \in Sessions :
      /\ <<"closed", s>> \notin Elements(log[n])
      /\ log' = [log EXCEPT ![n] = Append(@,
           <<IF <<"open", s>> \in Elements(log[n]) THEN "closed" ELSE "open", s>>)]
  BY DEF Appends
<1> PICK x : x = <<IF <<"open", s>> \in Elements(log[n]) THEN "closed" ELSE "open", s>>
  OBVIOUS
<1>2. log'[n] = Append(log[n], x)
  BY DEF Types, TailT
<1>3. /\ LogOnce(log'[n]) /\ Len(log'[n]) = Len(log[n]) + 1
      /\ \A i \in 1..Len(log[n]) : log'[n][i] = log[n][i]
  BY <1>2, Places, LogStaysOnce DEF Rolled
<1>4. \A p \in 0..Len(log[n]) : \A i \in 1..p : i \in 1..Len(log[n])
  BY Places
<1>5. \A p \in 0..Len(log[n]) : \A k : Count(log'[n], p, k) = Count(log[n], p, k)
  BY <1>3, <1>4 DEF Count, ClosedBy
<1>6. /\ pos[n] \in 0..Len(log[n]) /\ Place(n) \in 0..Len(log[n]) /\ Place(n)' = Place(n)
      /\ Len(log[n]) \in 0..Len(log[n])
  BY <1>1, Places DEF Place
<1>7. \A k : Total(n, k)' \in Nat /\ Total(n, k) <= Total(n, k)'
  <2> TAKE k
  <2>1. Total(n, k) = Count(log'[n], Len(log[n]), k)
    BY <1>5, <1>6 DEF Total
  <2>2. Total(n, k)' = Count(log'[n], Len(log[n]) + 1, k)
    BY <1>3 DEF Total
  <2>3. Len(log[n]) + 1 \in Nat /\ Len(log[n]) <= Len(log[n]) + 1 /\ Len(log[n]) \in Nat
    BY Places
  <2> QED
    BY <2>1, <2>2, <2>3, CountGrows, ClosedByFinite
<1>8. \A k \in Keys : seen'[n][k] <= Count(log'[n], Place(n), k) + stops'[n] * Total(n, k)'
  <2> SUFFICES ASSUME NEW k \in Keys
               PROVE  seen[n][k] <= Count(log[n], Place(n), k) + stops[n] * Total(n, k)'
    BY <1>1, <1>5, <1>6
  <2>1. seen[n][k] <= Count(log[n], Place(n), k) + stops[n] * Total(n, k)
    BY DEF Rolled, Passes
  <2>2. \A a, b, c \in Nat : b <= c => a * b \in Nat /\ a * c \in Nat /\ a * b <= a * c
    <3> SUFFICES ASSUME NEW a \in Nat, NEW b \in Nat, NEW c \in Nat, b <= c
                 PROVE  a * b \in Nat /\ a * c \in Nat /\ a * b <= a * c
      OBVIOUS
    <3> PICK d \in Nat : c = b + d
      <4>1. c - b \in Nat /\ c = b + (c - b)
        OBVIOUS
      <4> QED BY <4>1
    <3>1. a * d \in Nat /\ a * b \in Nat /\ a * (b + d) = a * b + a * d
      OBVIOUS
    <3> QED
      BY <3>1
  <2>3. stops[n] * Total(n, k) \in Nat /\ stops[n] * Total(n, k)' \in Nat
        /\ stops[n] * Total(n, k) <= stops[n] * Total(n, k)'
    BY <1>7, <2>2, Places
  <2>4. Count(log[n], Place(n), k) \in Nat /\ seen[n][k] \in Nat
    BY Places, ClosedByFinite
  <2> QED
    BY <2>1, <2>3, <2>4
<1>9. Passes(n)'
  BY <1>1, <1>6, <1>8 DEF Rolled, Passes
<1>10. FirstPass(n)'
  <2>1. \A i \in Intact(n) : log'[n][i] = log[n][i]
    BY <1>3, <1>4, <1>6 DEF Intact
  <2>2. /\ Opened(log'[n], Intact(n)) = Opened(log[n], Intact(n))
        /\ Ended(log'[n], Intact(n)) = Ended(log[n], Intact(n))
    BY <2>1 DEF Opened, Ended
  <2>3. \A k : Both(log'[n], Intact(n), k) = Both(log[n], Intact(n), k)
    BY <2>2 DEF Both
  <2>4. Intact(n)' = Intact(n)
    BY <1>1 DEF Intact
  <2> QED
    BY <1>1, <2>2, <2>3, <2>4 DEF Rolled, FirstPass
<1> QED
  BY <1>3, <1>9, <1>10 DEF Rolled

LEMMA RolledStart == ASSUME Types, NEW n \in Nodes, Rolled(n), Start(n) PROVE Rolled(n)'
<1>1. /\ at[n] = "down" /\ at'[n] = "read" /\ pos'[n] = saved[n]
      /\ open'[n] = {} /\ UNCHANGED <<log, saved, seen, once, torn, stops>>
  BY DEF Start, Types, TailT, ProcessT
<1>2. Place(n)' = Place(n) /\ Place(n) = saved[n]
  BY <1>1 DEF Place
<1>3. Passes(n)'
  BY <1>1, <1>2 DEF Rolled, Passes, Total
<1>4. FirstPass(n)'
  <2> SUFFICES ASSUME stops[n] = 0, ~once[n]
               PROVE  /\ torn[n] \subseteq 1..pos'[n]
                      /\ {} = Opened(log[n], Intact(n)') \ Ended(log[n], Intact(n)')
                      /\ \A k \in Keys : seen[n][k] = Cardinality(Both(log[n], Intact(n)', k))
    BY <1>1 DEF FirstPass
  <2>1. pos[n] = 0 /\ saved[n] = 0 /\ pos'[n] = pos[n] /\ Intact(n)' = Intact(n)
    BY <1>1 DEF Rolled, FirstPass, Intact
  <2>2. Intact(n) = {}
    BY <2>1 DEF Intact
  <2> QED
    BY <1>1, <2>1, <2>2 DEF Rolled, FirstPass, Opened
<1> QED
  BY <1>1, <1>3, <1>4 DEF Rolled

LEMMA RolledEof == ASSUME Types, NEW n \in Nodes, Rolled(n), Eof(n) PROVE Rolled(n)'
<1>1. /\ at[n] = "read" /\ saved'[n] = pos[n]
      /\ UNCHANGED <<log, pos, open, seen, once, torn, stops>>
      /\ ~once[n] => at'[n] = "read"
  BY DEF Eof, Types, TailT, ProcessT
<1>2. Place(n)' = Place(n) /\ Place(n) = pos[n]
  BY <1>1 DEF Place
<1>3. Passes(n)'
  BY <1>1, <1>2 DEF Rolled, Passes, Total
<1>4. FirstPass(n)'
  BY <1>1 DEF Rolled, FirstPass, Intact
<1> QED
  BY <1>1, <1>3, <1>4 DEF Rolled

(* A process that is stopped may count again all it has read since it saved. *)
LEMMA RolledFail ==
    ASSUME Types, NEW n \in Nodes, Rolled(n), at[n] # "down", Fail(n), UNCHANGED <<log, tail>>
    PROVE  Rolled(n)'
<1>1. /\ at'[n] = "down" /\ stops'[n] = stops[n] + 1
      /\ UNCHANGED <<log, saved, pos, open, seen, once>>
  BY DEF Fail, Types, ProcessT, tail
<1>2. Place(n) = pos[n] /\ Place(n)' = saved[n] /\ stops'[n] # 0
  BY <1>1, Places DEF Place
<1>3. \A k \in Keys : seen[n][k] <= Count(log[n], saved[n], k) + (stops[n] + 1) * Total(n, k)
  <2> TAKE k \in Keys
  <2>1. seen[n][k] <= Count(log[n], pos[n], k) + stops[n] * Total(n, k)
    BY <1>2 DEF Rolled, Passes
  <2>2. Count(log[n], pos[n], k) <= Total(n, k)
    BY Places, CountGrows DEF Total
  <2>3. \A a, b \in Nat : a * b \in Nat /\ (a + 1) * b = a * b + b
    OBVIOUS
  <2>4. /\ stops[n] * Total(n, k) \in Nat
        /\ (stops[n] + 1) * Total(n, k) = stops[n] * Total(n, k) + Total(n, k)
    BY <2>3, Places
  <2>5. /\ Count(log[n], pos[n], k) \in Nat /\ Count(log[n], saved[n], k) \in Nat
        /\ seen[n][k] \in Nat /\ Total(n, k) \in Nat
    BY Places, ClosedByFinite
  <2> QED
    BY <2>1, <2>2, <2>4, <2>5
<1>4. Passes(n)'
  BY <1>1, <1>2, <1>3 DEF Passes, Total
<1>5. FirstPass(n)'
  BY <1>2 DEF FirstPass
<1> QED
  BY <1>1, <1>4, <1>5 DEF Rolled

LEMMA NextLine ==
    ASSUME Types, NEW n \in Nodes, Reads(n)
    PROVE  /\ pos[n] + 1 \in 1..Len(log[n]) /\ Line(n) = log[n][pos[n] + 1] /\ Line(n) \in Lines
           /\ Line(n)[2] \in Sessions /\ Line(n) = <<Line(n)[1], Line(n)[2]>>
           /\ Line(n)[1] \in {"open", "closed"}
           /\ at[n] = "read" /\ pos'[n] = pos[n] + 1 /\ Place(n) = pos[n]
<1>1. log[n] \in Seq(Lines) /\ pos[n] + 1 \in 1..Len(log[n])
  BY Places DEF Reads
<1>2. Line(n) = log[n][pos[n] + 1] /\ Line(n) \in Lines
  BY <1>1, ElementOfSeq DEF Line
<1>3. at[n] = "read" /\ pos'[n] = pos[n] + 1 /\ Place(n) = pos[n]
  BY DEF Reads, Types, TailT, Place
<1> QED
  BY <1>1, <1>2, <1>3 DEF Lines

LEMMA MoreRead ==
    ASSUME Types, NEW n \in Nodes, NEW q, q = pos[n] + 1
    PROVE  \A k \in Keys : seen[n][k] <= Count(log[n], pos[n], k) + stops[n] * Total(n, k) =>
              seen[n][k] <= Count(log[n], q, k) + stops[n] * Total(n, k)
<1> TAKE k \in Keys
<1>1. \A a, b \in Nat : a * b \in Nat
  OBVIOUS
<1>2. stops[n] * Total(n, k) \in Nat /\ seen[n][k] \in Nat /\ pos[n] \in Nat
  BY <1>1, Places
<1>3. /\ Count(log[n], pos[n], k) <= Count(log[n], q, k)
      /\ Count(log[n], pos[n], k) \in Nat /\ Count(log[n], q, k) \in Nat
  BY <1>2, CountGrows, ClosedByFinite
<1> QED
  BY <1>2, <1>3

(* A line read while it was written adds nothing.                          *)
LEMMA RolledReadTorn ==
    ASSUME Types, WritingT, NEW n \in Nodes, Rolled(n), ReadTorn(n) PROVE Rolled(n)'
<1> PICK q : q = pos[n] + 1
  OBVIOUS
<1>1. /\ q \in 1..Len(log[n]) /\ pos'[n] = q /\ Place(n) = pos[n] /\ Place(n)' = q
      /\ at[n] = "read" /\ at'[n] = "read" /\ torn'[n] = torn[n] \cup {q}
      /\ UNCHANGED <<log, saved, open, seen, once, stops>>
  BY NextLine DEF ReadTorn, WritingT, process, Place
<1>2. Passes(n)'
  <2>1. \A k \in Keys : seen[n][k] <= Count(log[n], q, k) + stops[n] * Total(n, k)
    BY <1>1, MoreRead, Places DEF Rolled, Passes
  <2> QED
    BY <1>1, <2>1 DEF Passes, Total
<1>3. FirstPass(n)'
  <2>1. 1..q = (1..pos[n]) \cup {q} /\ q \notin 1..pos[n]
    BY Places
  <2>2. Intact(n)' = Intact(n)
    BY <1>1, <2>1 DEF Intact
  <2> QED
    BY <1>1, <2>1, <2>2 DEF Rolled, FirstPass
<1> QED
  BY <1>1, <1>2, <1>3 DEF Rolled

(* The lines read whole, after one more.                                   *)
LEMMA OneMore ==
    ASSUME Types, NEW n \in Nodes, Rolled(n), stops[n] = 0, ~once[n],
           NEW q, q = pos[n] + 1, q \in 1..Len(log[n]),
           NEW x, x = 1..q \ torn[n], NEW s \in Sessions
    PROVE  /\ torn[n] \subseteq 1..q
           /\ open[n] = Opened(log[n], Intact(n)) \ Ended(log[n], Intact(n))
           /\ \A k \in Keys : /\ seen[n][k] = Cardinality(Both(log[n], Intact(n), k))
                               /\ IsFiniteSet(Both(log[n], Intact(n), k))
           /\ log[n][q] = <<"open", s>> => Opens(log[n], Intact(n), x, s)
           /\ log[n][q] = <<"closed", s>> => Ends(log[n], Intact(n), x, s)
<1>1. /\ pos[n] \in Nat /\ Len(log[n]) \in Nat /\ pos[n] + 1 <= Len(log[n]) /\ LogOnce(log[n])
      /\ 1..q = (1..pos[n]) \cup {q} /\ q \notin 1..pos[n]
  BY Places DEF Rolled
<1>2. /\ torn[n] \subseteq 1..pos[n] /\ Intact(n) \in SUBSET (1..pos[n])
      /\ x = Intact(n) \cup {q}
  BY <1>1 DEF Rolled, FirstPass, Intact
<1>3. \A k : IsFiniteSet(Both(log[n], Intact(n), k))
  BY <1>1, <1>2, BothFinite
<1>4. Follows(q, Intact(n), x, log[n])
  BY <1>1, <1>2 DEF Follows
<1>5. /\ open[n] = Opened(log[n], Intact(n)) \ Ended(log[n], Intact(n))
      /\ \A k \in Keys : seen[n][k] = Cardinality(Both(log[n], Intact(n), k))
  BY DEF Rolled, FirstPass
<1>6. torn[n] \subseteq 1..q
  BY <1>1, <1>2
<1> QED
  BY <1>3, <1>4, <1>5, <1>6, OpenRead, EndRead

LEMMA RolledReadOpen == ASSUME Types, NEW n \in Nodes, Rolled(n), ReadOpen(n) PROVE Rolled(n)'
<1> PICK s : s = Line(n)[2]
  OBVIOUS
<1> PICK q : q = pos[n] + 1
  OBVIOUS
<1>1. /\ s \in Sessions /\ q \in 1..Len(log[n]) /\ pos'[n] = q /\ Place(n) = pos[n]
      /\ at'[n] = "read" /\ at[n] = "read" /\ Place(n)' = q
      /\ UNCHANGED <<log, saved, seen, once, torn, stops>>
      /\ \/ log[n][q] = <<"open", s>> /\ open'[n] = open[n] \cup {s}
         \/ log[n][q] = <<"closed", s>> /\ s \notin open[n] /\ open'[n] = open[n]
  BY NextLine DEF ReadOpen, Types, TailT, process, Place
<1>2. Passes(n)'
  <2>1. \A k \in Keys : seen[n][k] <= Count(log[n], q, k) + stops[n] * Total(n, k)
    BY <1>1, MoreRead, Places DEF Rolled, Passes
  <2> QED
    BY <1>1, <2>1 DEF Passes, Total
<1>3. FirstPass(n)'
  <2> SUFFICES ASSUME stops[n] = 0, ~once[n]
               PROVE  /\ torn[n] \subseteq 1..q
                      /\ open'[n] = Opened(log[n], Intact(n)') \ Ended(log[n], Intact(n)')
                      /\ \A k \in Keys : seen[n][k] = Cardinality(Both(log[n], Intact(n)', k))
    BY <1>1 DEF FirstPass
  <2> PICK x : x = Intact(n)'
    OBVIOUS
  <2>0. x = 1..q \ torn[n]
    BY <1>1 DEF Intact
  <2>1. /\ torn[n] \subseteq 1..q
        /\ open[n] = Opened(log[n], Intact(n)) \ Ended(log[n], Intact(n))
        /\ \A k \in Keys : /\ seen[n][k] = Cardinality(Both(log[n], Intact(n), k))
                            /\ IsFiniteSet(Both(log[n], Intact(n), k))
        /\ log[n][q] = <<"open", s>> => Opens(log[n], Intact(n), x, s)
        /\ log[n][q] = <<"closed", s>> => Ends(log[n], Intact(n), x, s)
    BY <1>1, <2>0, OneMore
  <2>2. /\ open'[n] = Opened(log[n], x) \ Ended(log[n], x)
        /\ Opened(log[n], x) \cap Ended(log[n], x)
             = Opened(log[n], Intact(n)) \cap Ended(log[n], Intact(n))
    <3>1. CASE log[n][q] = <<"open", s>> /\ open'[n] = open[n] \cup {s}
      BY <2>1, <3>1 DEF Opens
    <3>2. CASE log[n][q] = <<"closed", s>> /\ s \notin open[n] /\ open'[n] = open[n]
      BY <2>1, <3>2 DEF Ends
    <3> QED
      BY <1>1, <3>1, <3>2
  <2>3. \A k : Both(log[n], x, k) = Both(log[n], Intact(n), k)
    BY <2>2 DEF Both
  <2> QED
    BY <2>1, <2>2, <2>3
<1> QED
  BY <1>1, <1>2, <1>3 DEF Rolled

LEMMA RolledReadClosed == ASSUME Types, NEW n \in Nodes, Rolled(n), ReadClosed(n) PROVE Rolled(n)'
<1> PICK s : s = Line(n)[2]
  OBVIOUS
<1> PICK q : q = pos[n] + 1
  OBVIOUS
<1> PICK c : c = KeyOf[s]
  OBVIOUS
<1>1. /\ s \in Sessions /\ c \in Keys /\ q \in 1..Len(log[n]) /\ pos'[n] = q /\ Place(n) = pos[n]
      /\ at[n] = "read" /\ at'[n] \in {"read", "bump"}
      /\ UNCHANGED <<log, saved, once, torn, stops>>
      /\ log[n][q] = <<"closed", s>> /\ s \in open[n] /\ open'[n] = open[n] \ {s}
      /\ seen'[n] = [seen[n] EXCEPT ![c] = @ + 1]
  <2>1. /\ Reads(n) /\ UNCHANGED <<log, saved, once, torn, stops>> /\ Line(n)[1] = "closed"
        /\ s \in open[n] /\ seen' = [seen EXCEPT ![n][c] = seen[n][c] + 1] /\ open' = [open EXCEPT ![n] = @ \ {s}]
        /\ at' = at \/ at' = [at EXCEPT ![n] = "bump"]
    BY DEF ReadClosed
  <2>2. c \in Keys
    BY <2>1, NextLine, MeshAssumption
  <2>3. seen'[n] = [seen[n] EXCEPT ![c] = seen[n][c] + 1]
    BY <2>1 DEF Types, TailT
  <2> QED
    BY <2>1, <2>2, <2>3, NextLine DEF Types, TailT, ProcessT
<1>2. /\ Place(n)' = q /\ q \in Nat /\ pos[n] \in Nat /\ pos[n] + 1 <= Len(log[n])
      /\ 1..q = (1..pos[n]) \cup {q}
  BY <1>1, Places DEF Place
<1>3. \A k \in Keys : /\ seen'[n][k] = IF c = k THEN seen[n][k] + 1 ELSE seen[n][k]
                      /\ seen[n][k] \in Nat
  BY <1>1, Places DEF Types, TailT
<1>4. \A k : /\ Count(log[n], q, k) = IF c = k THEN Count(log[n], pos[n], k) + 1
                                      ELSE Count(log[n], pos[n], k)
             /\ Count(log[n], pos[n], k) \in Nat
  <2>1. LogOnce(log[n]) /\ log[n][pos[n] + 1] = <<"closed", s>> /\ Len(log[n]) \in Nat
    BY <1>1, Places DEF Rolled
  <2>2. \A k : Count(log[n], pos[n] + 1, k) = IF KeyOf[s] = k THEN Count(log[n], pos[n], k) + 1
                                              ELSE Count(log[n], pos[n], k)
    <3> PICK l : l = log[n]
      OBVIOUS
    <3> PICK p : p = pos[n]
      OBVIOUS
    <3>1. /\ LogOnce(l) /\ l[p + 1] = <<"closed", s>> /\ Len(l) \in Nat /\ s \in Sessions
          /\ p \in Nat /\ p + 1 <= Len(l)
      BY <1>1, <1>2, <2>1
    <3>2. \A k : Count(l, p + 1, k) = IF KeyOf[s] = k THEN Count(l, p, k) + 1 ELSE Count(l, p, k)
      BY <3>1, CountLine
    <3> QED
      BY <3>2
  <2> QED
    BY <1>2, <2>2, ClosedByFinite
<1>5. Passes(n)'
  <2> SUFFICES ASSUME NEW k \in Keys
               PROVE  seen'[n][k] <= Count(log[n], q, k) + stops[n] * Total(n, k)
    BY <1>1, <1>2 DEF Passes, Total
  <2>1. seen[n][k] <= Count(log[n], pos[n], k) + stops[n] * Total(n, k)
    BY <1>1 DEF Rolled, Passes
  <2>2. \A a, b \in Nat : a * b \in Nat
    OBVIOUS
  <2>3. stops[n] * Total(n, k) \in Nat
    BY <2>2, Places
  <2> QED
    BY <1>3, <1>4, <2>1, <2>3
<1>6. FirstPass(n)'
  <2> SUFFICES ASSUME stops[n] = 0, ~once[n]
               PROVE  /\ torn[n] \subseteq 1..q
                      /\ open'[n] = Opened(log[n], Intact(n)') \ Ended(log[n], Intact(n)')
                      /\ \A k \in Keys : seen'[n][k] = Cardinality(Both(log[n], Intact(n)', k))
    BY <1>1 DEF FirstPass
  <2> PICK x : x = Intact(n)'
    OBVIOUS
  <2>0. x = 1..q \ torn[n]
    BY <1>1 DEF Intact
  <2>1. /\ torn[n] \subseteq 1..q /\ open[n] = Opened(log[n], Intact(n)) \ Ended(log[n], Intact(n))
        /\ \A k \in Keys : /\ seen[n][k] = Cardinality(Both(log[n], Intact(n), k))
                            /\ IsFiniteSet(Both(log[n], Intact(n), k))
        /\ Ends(log[n], Intact(n), x, s)
    BY <1>1, <1>2, <2>0, OneMore
  <2> PICK l, r : l = log[n] /\ r = Intact(n)
    OBVIOUS
  <2>2. /\ open[n] = Opened(l, r) \ Ended(l, r) /\ Opened(l, x) = Opened(l, r)
        /\ s \in Opened(l, r) /\ s \notin Ended(l, r) /\ Ended(l, x) = Ended(l, r) \cup {s}
    BY <1>1, <2>1 DEF Ends
  <2>3. open'[n] = Opened(l, x) \ Ended(l, x)
    BY <1>1, <2>2
  <2>4. ASSUME NEW k \in Keys PROVE seen'[n][k] = Cardinality(Both(l, x, k))
    <3>1. seen[n][k] = Cardinality(Both(l, r, k)) /\ IsFiniteSet(Both(l, r, k))
      BY <2>1
    <3>2. CASE c = k
      <4>1. Both(l, x, k) = Both(l, r, k) \cup {s} /\ s \notin Both(l, r, k)
        <5>1. KeyOf[s] = k /\ \A z : z \in Ended(l, x) <=> z \in Ended(l, r) \/ z = s
          BY <2>2, <3>2
        <5>2. s \notin Both(l, r, k)
          BY <2>2 DEF Both
        <5>3. \A z : z \in Both(l, x, k) <=> z \in Both(l, r, k) \/ z = s
          BY <2>2, <5>1 DEF Both
        <5> QED
          BY <5>2, <5>3
      <4>2. Cardinality(Both(l, r, k) \cup {s}) = Cardinality(Both(l, r, k)) + 1
        BY <3>1, <4>1, FS_AddElement
      <4> QED
        BY <1>3, <3>1, <3>2, <4>1, <4>2
    <3>3. CASE c # k
      <4>1. Both(l, x, k) = Both(l, r, k)
        BY <2>2, <3>3 DEF Both
      <4> QED
        BY <1>3, <3>1, <3>3, <4>1
    <3> QED
      BY <3>2, <3>3
  <2> QED
    BY <2>1, <2>3, <2>4
<1> QED
  BY <1>1, <1>5, <1>6 DEF Rolled

LEMMA RolledStep ==
    ASSUME Types, WritingT, \A n \in Nodes : Rolled(n), Next PROVE \A n \in Nodes : Rolled(n)'
<1> DEFINE Still(m) == UNCHANGED <<log[m], saved[m], pos[m], open[m], seen[m], once[m], torn[m],
                                   stops[m]>>
           Stands(m) == /\ at'[m] = "down" <=> at[m] = "down"
                        /\ once[m] /\ at'[m] \in {"post", "wait"} => at[m] \in {"post", "wait"}
<1>1. \A m \in Nodes : Still(m) /\ Stands(m) => Rolled(m)'
  BY RolledStays
<1>2. /\ log \in [Nodes -> Seq(Lines)] /\ saved \in [Nodes -> Nat] /\ pos \in [Nodes -> Nat]
      /\ open \in [Nodes -> SUBSET Sessions] /\ seen \in [Nodes -> [Keys -> Nat]]
      /\ at \in [Nodes -> {"down", "read", "bump", "mark", "post", "wait"}]
      /\ stops \in [Nodes -> Nat] /\ torn \in [Nodes -> SUBSET Nat]
  BY DEF Types, TailT, ProcessT, WritingT
<1>3. ASSUME NEW n \in Nodes, Rolled(n)', \A m \in Nodes \ {n} : Still(m) /\ at'[m] = at[m]
      PROVE  \A m \in Nodes : Rolled(m)'
  BY <1>1, <1>3
<1>4. ASSUME NEW n \in Nodes, Appends(n) PROVE \A m \in Nodes : Rolled(m)'
  <2>1. \A m \in Nodes \ {n} : Still(m) /\ at'[m] = at[m]
    BY <1>2, <1>4 DEF Appends, tail, process
  <2> QED
    BY <1>3, <1>4, <2>1, RolledWrite
<1>5. ASSUME NEW n \in Nodes, Start(n) \/ Eof(n) PROVE \A m \in Nodes : Rolled(m)'
  <2>1. \A m \in Nodes \ {n} : Still(m) /\ at'[m] = at[m]
    BY <1>2, <1>5 DEF Start, Eof
  <2> QED
    BY <1>3, <1>5, <2>1, RolledStart, RolledEof
<1>6. ASSUME NEW n \in Nodes, ReadTorn(n) \/ ReadOpen(n) \/ ReadClosed(n)
      PROVE  \A m \in Nodes : Rolled(m)'
  <2>1. \A m \in Nodes \ {n} : Still(m) /\ at'[m] = at[m]
    <3>1. CASE ReadOpen(n)
      BY <1>2, <3>1 DEF ReadOpen, Reads, process
    <3>2. CASE ReadClosed(n)
      BY <1>2, <3>2 DEF ReadClosed, Reads
    <3>3. CASE ReadTorn(n)
      BY <1>2, <3>3 DEF ReadTorn, Reads, process
    <3> QED
      BY <1>6, <3>1, <3>2, <3>3
  <2> QED
    BY <1>3, <1>6, <2>1, RolledReadTorn, RolledReadOpen, RolledReadClosed
<1>7. ASSUME NEW n \in Nodes, NoAnswer(n) \/ SensorDies(n) PROVE \A m \in Nodes : Rolled(m)'
  <2>1. at[n] # "down" /\ Fail(n) /\ UNCHANGED <<log, tail>>
    BY <1>7 DEF NoAnswer, SensorDies
  <2>2. \A m \in Nodes \ {n} : Still(m) /\ at'[m] = at[m]
    BY <1>2, <2>1 DEF Fail, tail
  <2> QED
    BY <1>3, <2>1, <2>2, RolledFail
<1>8. ASSUME UNCHANGED <<log, tail, stops>>, \A m \in Nodes : Stands(m)
      PROVE  \A m \in Nodes : Rolled(m)'
  BY <1>1, <1>8 DEF tail
<1>9. ASSUME NEW n \in Nodes, Bump(n) \/ Mark(n) \/ Post(n) PROVE \A m \in Nodes : Rolled(m)'
  <2>1. UNCHANGED <<log, tail, stops>>
    BY <1>9 DEF Bump, Mark, Post
  <2>2. \A m \in Nodes : Stands(m)
    BY <1>2, <1>9 DEF Bump, Mark, Post
  <2> QED
    BY <1>8, <2>1, <2>2
<1>10. ASSUME UNCHANGED <<log, tail, process>> PROVE \A m \in Nodes : Rolled(m)'
  BY <1>8, <1>10 DEF process
<1>11. ASSUME NEW t \in Threads, Reply(t), handler[t] # Idle PROVE \A m \in Nodes : Rolled(m)'
  <2> PICK n \in Nodes : n = handler[t].node
    BY <1>11, HandlerKinds DEF Types, AggregatorT, Handling
  <2>1. CASE UNCHANGED process
    BY <1>10, <1>11, <2>1 DEF Reply
  <2>2. CASE /\ at[n] = "wait" /\ UNCHANGED stops
             /\ at' = [at EXCEPT ![n] = IF ~once[n] THEN "read"
                                        ELSE IF Len(hand[n]) = 1 THEN "down" ELSE "post"]
    <3>1. UNCHANGED <<log, tail, stops>>
      BY <1>11, <2>2 DEF Reply
    <3>2. CASE ~(once[n] /\ at'[n] = "down")
      <4>1. \A m \in Nodes : Stands(m)
        BY <1>2, <2>2, <3>2
      <4> QED
        BY <1>8, <3>1, <4>1
    <3>3. CASE once[n] /\ at'[n] = "down"
      <4>1. Place(n) = pos[n] /\ Place(n)' = saved[n] /\ saved[n] = pos[n] /\ Rolled(n)
        BY <2>2, <3>1, <3>3 DEF Place, Rolled, Passes, tail
      <4>2. Passes(n)' /\ FirstPass(n)' /\ LogOnce(log[n])'
        BY <3>1, <3>3, <4>1 DEF Rolled, Passes, FirstPass, Total, tail
      <4>3. \A m \in Nodes \ {n} : Still(m) /\ at'[m] = at[m]
        BY <1>2, <2>2, <3>1 DEF tail
      <4> QED
        BY <1>3, <4>2, <4>3 DEF Rolled
    <3> QED
      BY <3>2, <3>3
  <2> QED
    BY <1>11, <2>1, <2>2 DEF Reply
<1>12. ASSUME \/ \E n \in Nodes : \/ CowrieRest(n) \/ Planted(n)
                                   \/ \E k \in Keys : Cooldown(n, k)
              \/ AggregatorDies \/ AggregatorStarts
              \/ \E t \in Threads : \/ Refuse(t) \/ Get(t) \/ Upsert(t) \/ SaveReputation(t)
                                    \/ SaveFails(t)
       PROVE  \A m \in Nodes : Rolled(m)'
  <2>1. UNCHANGED <<log, tail, process>>
    BY <1>12 DEF CowrieRest, Planted, Cooldown, AggregatorDies, AggregatorStarts, Refuse, Get,
       Upsert, SaveReputation, SaveFails
  <2> QED
    BY <1>10, <2>1
<1> QED
  BY <1>4, <1>5, <1>6, <1>7, <1>9, <1>11, <1>12 DEF Next, Handle, Cowrie, CowrieHalf

LEMMA RolledStutter ==
    ASSUME UNCHANGED vars, \A n \in Nodes : Rolled(n) PROVE \A n \in Nodes : Rolled(n)'
<1>1. \A n \in Nodes :
        /\ UNCHANGED <<log[n], saved[n], pos[n], open[n], seen[n], once[n], torn[n], stops[n]>>
        /\ at'[n] = at[n]
  BY DEF vars, tail, process
<1> QED
  BY <1>1, RolledStays

LEMMA InitRolled == Init => \A n \in Nodes : Rolled(n)
<1> SUFFICES ASSUME Init, NEW n \in Nodes PROVE Rolled(n)
  OBVIOUS
<1>1. /\ log[n] = <<>> /\ Len(log[n]) = 0 /\ pos[n] = 0 /\ saved[n] = 0 /\ stops[n] = 0
      /\ at[n] = "down" /\ \A k \in Keys : seen[n][k] = 0
      /\ torn[n] = {} /\ open[n] = {}
  BY EmptySeq DEF Init
<1>2. \A k : Count(log[n], 0, k) = 0
  <2>1. \A k : ClosedBy(log[n], 0, k) = {}
    BY DEF ClosedBy
  <2> QED
    BY <2>1, FS_EmptySet DEF Count
<1>3. Passes(n)
  BY <1>1, <1>2 DEF Passes, Place, Total
<1>4. FirstPass(n)
  <2>1. Intact(n) = {} /\ \A k : Both(log[n], {}, k) = {}
    BY <1>1 DEF Intact, Both, Opened
  <2> QED
    BY <1>1, <2>1, FS_EmptySet DEF FirstPass, Opened
<1>5. LogOnce(log[n])
  BY <1>1 DEF LogOnce
<1> QED
  BY <1>3, <1>4, <1>5 DEF Rolled

LEMMA RollupCountsOK == ASSUME Types, \A n \in Nodes : Rolled(n) PROVE RollupCounts
<1> SUFFICES ASSUME NEW n \in Nodes, NEW k \in Keys
             PROVE  /\ seen[n][k] <= (1 + stops[n]) * Cardinality(Closed(n, k, log[n]))
                    /\ stops[n] = 0 /\ ~once[n] => seen[n][k] = Cardinality(Whole(n, k))
  BY DEF RollupCounts
<1>1. pos[n] \in 0..Len(log[n]) /\ Rolled(n)
  BY Places
<1>2. /\ Cardinality(Closed(n, k, log[n])) = Total(n, k)
      /\ Whole(n, k) = Both(log[n], Intact(n), k)
  BY <1>1, ClosedIs, Places DEF Total, Count, Whole, Both, Opened, Ended, Intact
<1>3. seen[n][k] <= (1 + stops[n]) * Total(n, k)
  <2>1. seen[n][k] <= Count(log[n], Place(n), k) + stops[n] * Total(n, k)
    BY <1>1 DEF Rolled, Passes
  <2>2. Count(log[n], Place(n), k) <= Total(n, k) /\ Count(log[n], Place(n), k) \in Nat
    <3>1. Place(n) \in Nat /\ Len(log[n]) \in Nat /\ Place(n) <= Len(log[n])
      BY Places
    <3> QED
      BY <3>1, CountGrows, ClosedByFinite DEF Total
  <2>3. \A a, b \in Nat : a * b \in Nat /\ (1 + a) * b = a * b + b
    OBVIOUS
  <2>4. /\ stops[n] * Total(n, k) \in Nat /\ seen[n][k] \in Nat /\ Total(n, k) \in Nat
        /\ (1 + stops[n]) * Total(n, k) = stops[n] * Total(n, k) + Total(n, k)
    BY <2>3, Places
  <2> QED
    BY <2>1, <2>2, <2>4
<1> QED
  BY <1>1, <1>2, <1>3 DEF Rolled, FirstPass

-----------------------------------------------------------------------------
MeshInv == Types /\ WritingT /\ Real /\ Fresh /\ \A n \in Nodes : Rolled(n)

LEMMA MeshInvStep == MeshInv /\ [Next]_vars => MeshInv'
<1> SUFFICES ASSUME MeshInv, [Next]_vars PROVE MeshInv'
  OBVIOUS
<1>1. CASE Next
  BY <1>1, TypesStep, WritingStep, RealStep, FreshStep, RolledStep DEF MeshInv
<1>2. CASE UNCHANGED vars
  <2>1. Types'
    BY <1>2 DEF vars, tail, uplink, process, aggregator, MeshInv, Types, TailT, UplinkT,
       ProcessT, AggregatorT
  <2>2. Real'
    BY <1>2 DEF vars, process, aggregator, MeshInv, Real, HandsAreReal, ThreadsAreReal,
       CampaignsAreReal, ScoresAreReal, Shares, SawIt
  <2>3. Fresh'
    BY <1>2 DEF vars, uplink, process, MeshInv, Fresh
  <2>4. \A n \in Nodes : Rolled(n)'
    BY <1>2, RolledStutter DEF MeshInv
  <2>5. WritingT'
    BY <1>2 DEF vars, tail, world, MeshInv, WritingT
  <2> QED
    BY <2>1, <2>2, <2>3, <2>4, <2>5 DEF MeshInv
<1> QED
  BY <1>1, <1>2

LEMMA SpecMeshInv == Spec => []MeshInv
<1>1. Init => MeshInv
  <2>1. Init => WritingT
    BY DEF Init, WritingT
  <2> QED
    BY <2>1, InitTypes, InitReal, InitFresh, InitRolled DEF MeshInv
<1> QED
  BY <1>1, MeshInvStep, PTL DEF Spec

(* Offsets stay within the log, a sensor that is down holds nothing, and   *)
(* scores stay between 0 and 1, through every crash and restart.           *)
THEOREM MeshTypeCorrect == Spec => []TypeOK
<1>1. MeshInv => TypeOK
  BY TypesOK DEF MeshInv
<1> QED
  BY <1>1, SpecMeshInv, PTL

(* A campaign only ever names nodes whose own log has closed a session of  *)
(* that key, and a score rises only with such company: the aggregator's    *)
(* threads may overwrite what another has merged, and never invent.        *)
THEOREM CorroborationNeverInvented == Spec => []CorroborationIsReal
<1>1. MeshInv => CorroborationIsReal
  BY RealOK DEF MeshInv
<1> QED
  BY <1>1, SpecMeshInv, PTL

(* Whatever is killed or read again, a node posts a key once in a cooldown *)
(* and each time with a higher epoch than any it has posted before.        *)
THEOREM UplinksNeverStale == Spec => []UplinksAreFresh
<1>1. MeshInv => UplinksAreFresh
  BY FreshOK DEF MeshInv
<1> QED
  BY <1>1, SpecMeshInv, PTL

(* Whatever is killed, restarted and read again, a rollup counts each      *)
(* session of the log at most once, and once more for each time the        *)
(* process was stopped; of a process that never was, exactly the sessions  *)
(* whose lines it read whole: one that Cowrie was writing is lost.         *)
THEOREM RollupsCountSessions == Spec => []RollupCounts
<1>1. MeshInv => RollupCounts
  BY RollupCountsOK DEF MeshInv
<1> QED
  BY <1>1, SpecMeshInv, PTL
=============================================================================
