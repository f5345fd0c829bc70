------------------------ MODULE CredentialLuresProofs ------------------------
(***************************************************************************)
(* Proofs about CredentialLures and the bus under it, for any number of    *)
(* workers, addresses, lures and calls: the type invariant; that what the  *)
(* bus claims is true and no pivot is missed; that a lure's record counts  *)
(* each of its triggers; and that a lure is quiet once it is gone.         *)
(***************************************************************************)
EXTENDS CredentialLures, SequenceTheorems, FiniteSetTheorems, TLAPS

----------------------------------------------------------------------------
(* The bus. *)

(***************************************************************************)
(* A publish in hand has an address, and what it read of the chain is not  *)
(* younger than the address's events: no tick passes while it is in hand.  *)
(***************************************************************************)
InHand(w) ==
    bus[w].at # "idle" =>
        /\ bus[w].ip \in Ips
        /\ bus[w].at = "write" => StageOf(bus[w].kind) \in Stages
        /\ StageOf(bus[w].kind) \in Stages => hit[bus[w].ip][StageOf(bus[w].kind)] = 0
        /\ \A s \in Stages : hit[bus[w].ip][s] <= bus[w].chain[s]
        /\ bus[w].at = "full" => \A s \in Stages : hit[bus[w].ip][s] <= Day

\* No stage of a chain is younger than the address's last event of it.
ChainFollows == \A i \in Ips : \A s \in Stages : hit[i][s] <= chain[i][s]

BusInv == BusTypeOK /\ (\A w \in Workers : InHand(w)) /\ ChainFollows /\ ChainIsEarned

LEMMA StageType == \A k : StageOf(k) \in Stages \/ StageOf(k) = NoStage
  BY DEF StageOf, Stages

LEMMA NoStageApart == NoStage \notin Stages
  BY DEF NoStage, Stages

\* The times of the stages.
LEMMA AgeType ==
    /\ Day \in Nat /\ Unseen = Day + 2 /\ Ages \cup {Unseen} = 0..(Day + 2)
    /\ 0 \in Ages \cup {Unseen}
    /\ Blank \in [Stages -> Ages \cup {Unseen}] /\ \A s \in Stages : Blank[s] = Day + 2
  <1>1. Day \in Nat
    BY BusBounds
  <1>2. Unseen \in Ages \cup {Unseen} /\ Ages \cup {Unseen} = 0..(Day + 2)
    BY <1>1 DEF Ages, Unseen
  <1> QED BY <1>1, <1>2 DEF Unseen, Blank

LEMMA NewestType ==
    ASSUME NEW S, NEW q \in Seq(S), NEW n \in Nat
    PROVE  Newest(q, n) \in Seq(S) /\ Len(Newest(q, n)) <= n
  <1> DEFINE m == IF Len(q) < n THEN Len(q) ELSE n
  <1>1. m \in Int /\ m <= Len(q) /\ m <= n /\ 0 <= m
    BY LenProperties
  <1>2. \A i \in 1..m : q[i] \in S
    BY <1>1, ElementOfSeq
  <1>3. /\ SubSeq(q, 1, m) \in Seq(S)
        /\ Len(SubSeq(q, 1, m)) = IF 1 <= m THEN m - 1 + 1 ELSE 0
    BY <1>1, <1>2, SubSeqProperties
  <1> QED BY <1>1, <1>3 DEF Newest

\* A stage added to a chain: nothing gets older, and the stage is there.
LEMMA ExtendedType ==
    ASSUME NEW c \in [Stages -> Ages \cup {Unseen}], NEW s \in Stages
    PROVE  /\ Extended(c, s) \in [Stages -> Ages \cup {Unseen}]
           /\ \A z \in Stages \ {s} : Extended(c, s)[z] = c[z]
           /\ 0 <= Extended(c, s)[s]
  <1>1. 0 \in Ages \cup {Unseen} /\ \A n \in Ages \cup {Unseen} : 0 <= n
    BY AgeType
  <1> HIDE DEF Ages, Unseen
  <1> QED BY <1>1 DEF Extended

\* An event is published: the last events get younger, and the publish is in hand.
LEMMA PublishBus ==
    ASSUME BusInv, NEW w \in Workers, NEW i \in Ips, NEW k \in AllKinds, Publish(w, i, k)
    PROVE  BusInv'
  <1> USE DEF BusInv, BusTypeOK
  <1>0. /\ bus[w].at = "idle" /\ UNCHANGED <<seen, seenLife, chain, chainLife>>
        /\ UNCHANGED <<pivotKey, chainKey, pivoted>>
    BY DEF Publish, At, redis, claims
  <1>1. bus' = [bus EXCEPT ![w] = [at |-> "push", ip |-> i, kind |-> k, chain |-> Blank]]
    BY DEF Publish
  <1>2. bus' \in [Workers -> Pub]
    BY <1>1, AgeType DEF Pub, Points
  <1>3. /\ hit' \in [Ips -> [Stages -> Ages \cup {Unseen}]]
        /\ \A j \in Ips : \A s \in Stages :
              /\ hit'[j][s] <= hit[j][s] /\ (hit[j][s] = 0 => hit'[j][s] = 0)
        /\ StageOf(k) \in Stages => hit'[i][StageOf(k)] = 0
    <2>0. \A j \in Ips : \A s \in Stages : hit[j][s] \in 0..(Day + 2)
      BY AgeType
    <2>1. CASE StageOf(k) = NoStage
      BY <2>0, <2>1, NoStageApart, AgeType DEF Publish
    <2>2. CASE StageOf(k) # NoStage
      <3>1. hit' = [hit EXCEPT ![i][StageOf(k)] = 0] /\ StageOf(k) \in Stages
        BY <2>2, StageType DEF Publish
      <3>3. hit' \in [Ips -> [Stages -> Ages \cup {Unseen}]]
        BY <3>1, AgeType
      <3>4. hit'[i][StageOf(k)] = 0
        BY <3>1
      <3>5. \A j \in Ips : \A s \in Stages : hit'[j][s] \in {0, hit[j][s]}
        BY <3>1
      <3> HIDE DEF BusInv, BusTypeOK
      <3> QED BY <2>0, <3>3, <3>4, <3>5, AgeType
    <2> QED BY <2>1, <2>2
  <1>4. \A j \in Ips : \A s \in Stages :
            /\ hit[j][s] \in 0..(Day + 2) /\ hit'[j][s] \in 0..(Day + 2)
            /\ chain[j][s] \in 0..(Day + 2)
    BY <1>3, AgeType
  <1>5. ASSUME NEW v \in Workers PROVE InHand(v)'
    <2>1. CASE v = w
      BY <1>1, <1>3, <1>4, <2>1, AgeType DEF InHand
    <2>2. CASE v # w
      <3>1. bus'[v] = bus[v] /\ bus[v].chain \in [Stages -> 0..(Day + 2)]
        BY <1>1, <2>2, AgeType DEF Pub
      <3>2. SUFFICES ASSUME bus[v].at # "idle" PROVE InHand(v)'
        BY <3>1 DEF InHand
      <3>3. InHand(v) /\ bus[v].ip \in Ips
        BY <3>2 DEF InHand
      <3>s. ASSUME NEW s \in Stages
            PROVE  /\ hit'[bus[v].ip][s] <= bus[v].chain[s]
                   /\ bus[v].at = "full" => hit'[bus[v].ip][s] <= Day
        <4>1. /\ hit[bus[v].ip][s] <= bus[v].chain[s]
              /\ bus[v].at = "full" => hit[bus[v].ip][s] <= Day
          BY <3>2, <3>3 DEF InHand
        <4>2. /\ hit[bus[v].ip][s] \in Int /\ hit'[bus[v].ip][s] \in Int
              /\ hit'[bus[v].ip][s] <= hit[bus[v].ip][s]
              /\ bus[v].chain[s] \in Int /\ Day \in Int
          BY <1>3, <1>4, <3>1, <3>3, AgeType
        <4> HIDE DEF BusInv, BusTypeOK
        <4> QED BY <4>1, <4>2
      <3>4. \A s \in Stages : hit'[bus[v].ip][s] <= bus[v].chain[s]
        BY <3>s
      <3>5. bus[v].at = "full" => \A s \in Stages : hit'[bus[v].ip][s] <= Day
        BY <3>s
      <3>6. StageOf(bus[v].kind) \in Stages => hit'[bus[v].ip][StageOf(bus[v].kind)] = 0
        BY <1>3, <3>2, <3>3 DEF InHand
      <3> QED BY <3>1, <3>2, <3>3, <3>4, <3>5, <3>6 DEF InHand
    <2> QED BY <2>1, <2>2
  <1>6. ChainFollows'
    BY <1>0, <1>3, <1>4 DEF ChainFollows
  <1>7. ChainIsEarned'
    BY <1>0, <1>3, <1>4, AgeType DEF ChainIsEarned
  <1> QED BY <1>0, <1>2, <1>3, <1>5, <1>6, <1>7

\* The steps of a publish, and its end when a call of it fails.
LEMMA StepBus ==
    ASSUME BusInv, NEW w \in Workers, BusStep(w) \/ BusFails(w) \/ ReadChainFails(w)
    PROVE  BusInv'
  <1> USE DEF BusInv, BusTypeOK
  <1>0. /\ hit' = hit /\ InHand(w) /\ bus[w].ip \in Ips
        /\ bus[w].at \in Points \ {"idle"} /\ bus[w].kind \in AllKinds
        /\ bus[w].chain \in [Stages -> Ages \cup {Unseen}]
    <2>1. hit' = hit /\ bus[w].at # "idle"
      BY DEF BusStep, Push, LookBack, ClaimPivot, ReadChain, WriteChain, ClaimChain,
             BusFails, ReadChainFails, At
    <2> QED BY <2>1 DEF InHand, Pub
  <1>a. Rest \in Pub /\ Rest.at = "idle"
    BY AgeType DEF Rest, Pub, Points, AllKinds
  <1>n. \A i \in Ips : \A s \in Stages :
            hit[i][s] \in 0..(Day + 2) /\ chain[i][s] \in 0..(Day + 2)
    BY AgeType
  <1>1. ASSUME NEW p \in Points, p \notin {"write", "full"}, GoTo(w, p)
        PROVE  bus' \in [Workers -> Pub] /\ \A v \in Workers : InHand(v)'
    <2>1. bus' = [bus EXCEPT ![w].at = p]
      BY <1>1 DEF GoTo
    <2>2. bus' \in [Workers -> Pub]
      BY <1>1, <2>1 DEF Pub
    <2>3. \A v \in Workers : /\ bus'[v].ip = bus[v].ip /\ bus'[v].kind = bus[v].kind
                             /\ bus'[v].chain = bus[v].chain
                             /\ bus'[v].at = IF v = w THEN p ELSE bus[v].at
      BY <2>1 DEF Pub
    <2>4. ASSUME NEW v \in Workers PROVE InHand(v)'
      <3>1. InHand(v) /\ (v = w => bus[v].at # "idle")
        BY <1>0
      <3>2. hit' = hit
        BY <1>0
      <3> HIDE DEF BusInv, BusTypeOK
      <3> QED BY <1>1, <2>3, <3>1, <3>2 DEF InHand
    <2> QED BY <2>2, <2>4
  <1>2. ASSUME Done(w)
        PROVE  bus' \in [Workers -> Pub] /\ \A v \in Workers : InHand(v)'
    <2>1. bus' = [bus EXCEPT ![w] = Rest]
      BY <1>2 DEF Done
    <2> QED BY <1>0, <1>a, <2>1 DEF InHand
  <1>3. CASE Push(w)
    <2>1. seen' \in [Ips -> Seq(AllKinds)] /\ \A i \in Ips : Len(seen'[i]) <= IpMax
      <3> DEFINE q == <<bus[w].kind>> \o seen[bus[w].ip]
      <3>1. q \in Seq(AllKinds) /\ IpMax \in Nat
        BY <1>0, ConcatProperties, BusBounds
      <3>2. Newest(q, IpMax) \in Seq(AllKinds) /\ Len(Newest(q, IpMax)) <= IpMax
        BY <3>1, NewestType
      <3>3. seen' = [seen EXCEPT ![bus[w].ip] = Newest(q, IpMax)]
        BY <1>3 DEF Push
      <3> HIDE DEF q
      <3> QED BY <1>0, <3>2, <3>3
    <2>2. seenLife' \in [Ips -> 0..Day]
      BY <1>0, <1>3, AgeType DEF Push
    <2>3. bus' \in [Workers -> Pub] /\ \A v \in Workers : InHand(v)'
      BY <1>1, <1>3 DEF Push, Points
    <2>4. UNCHANGED <<chain, chainLife, pivotKey, chainKey, pivoted, hit>>
      BY <1>3 DEF Push, claims
    <2> QED BY <2>1, <2>2, <2>3, <2>4 DEF ChainFollows, ChainIsEarned
  <1>4. CASE LookBack(w)
    <2>1. bus' \in [Workers -> Pub] /\ \A v \in Workers : InHand(v)'
      BY <1>1, <1>4 DEF LookBack, Points
    <2>2. UNCHANGED <<seen, seenLife, chain, chainLife, pivotKey, chainKey, pivoted, hit>>
      BY <1>4 DEF LookBack, redis, claims
    <2> QED BY <2>1, <2>2 DEF ChainFollows, ChainIsEarned
  <1>5. CASE ClaimPivot(w)
    <2>1. bus' \in [Workers -> Pub] /\ \A v \in Workers : InHand(v)'
      BY <1>1, <1>5 DEF ClaimPivot, Points
    <2>2. UNCHANGED <<seen, seenLife, chain, chainLife, chainKey, hit>>
      BY <1>5 DEF ClaimPivot, redis
    <2>3. pivotKey' \subseteq Ips /\ pivoted' \subseteq Ips
      BY <1>0, <1>5 DEF ClaimPivot
    <2> QED BY <2>1, <2>2, <2>3 DEF ChainFollows, ChainIsEarned
  <1>6. CASE ReadChain(w) \/ ReadChainFails(w)
    <2>1. UNCHANGED <<seen, seenLife, chain, chainLife, pivotKey, chainKey, pivoted, hit>>
      BY <1>6 DEF ReadChain, ReadChainFails, redis, claims
    <2>2. bus' \in [Workers -> Pub] /\ \A v \in Workers : InHand(v)'
      <3>1. CASE StageOf(bus[w].kind) = NoStage
        BY <1>2, <1>6, <3>1 DEF ReadChain, ReadChainFails
      <3>2. CASE StageOf(bus[w].kind) # NoStage
        <4>1. PICK c \in {bus[w].chain, chain[bus[w].ip]} :
                 bus' = [bus EXCEPT ![w].at = "write", ![w].chain = c]
          <5>1. CASE ReadChain(w)
            BY <3>2, <5>1 DEF ReadChain
          <5>2. CASE ReadChainFails(w)
            <6>1. [bus EXCEPT ![w].at = "write"]
                    = [bus EXCEPT ![w].at = "write", ![w].chain = bus[w].chain]
              BY DEF Pub
            <6> QED BY <5>2, <6>1 DEF ReadChainFails, GoTo
          <5> QED BY <1>6, <5>1, <5>2
        <4>2. c \in [Stages -> Ages \cup {Unseen}] /\ \A s \in Stages : hit[bus[w].ip][s] <= c[s]
          BY <1>0 DEF InHand, ChainFollows
        <4>3. bus' \in [Workers -> Pub]
          <5>1. [bus[w] EXCEPT !.at = "write", !.chain = c] \in Pub
            <6>1. bus[w] \in Pub
              OBVIOUS
            <6> HIDE DEF BusInv, BusTypeOK
            <6> QED BY <4>2, <6>1 DEF Pub, Points
          <5>2. bus' = [bus EXCEPT ![w] = [bus[w] EXCEPT !.at = "write", !.chain = c]]
            BY <4>1 DEF Pub
          <5> QED BY <5>1, <5>2
        <4>4. InHand(w)'
          BY <1>0, <2>1, <3>2, <4>1, <4>2, StageType DEF InHand, Pub
        <4>5. \A v \in Workers \ {w} : bus'[v] = bus[v]
          BY <4>1
        <4> QED BY <2>1, <4>3, <4>4, <4>5 DEF InHand
      <3> QED BY <3>1, <3>2
    <2> QED BY <2>1, <2>2 DEF ChainFollows, ChainIsEarned
  <1>7. CASE WriteChain(w)
    <2> DEFINE i == bus[w].ip
               s == StageOf(bus[w].kind)
               c == Extended(bus[w].chain, s)
    <2>1. UNCHANGED <<seen, seenLife, pivotKey, chainKey, pivoted, hit>>
      BY <1>7 DEF WriteChain, claims
    <2>2. s \in Stages /\ hit[i][s] = 0 /\ c \in [Stages -> Ages \cup {Unseen}]
          /\ \A z \in Stages : hit[i][z] <= c[z]
      <3>1. s \in Stages /\ hit[i][s] = 0
        BY <1>0, <1>7 DEF WriteChain, InHand, At
      <3> HIDE DEF s
      <3>2. c \in [Stages -> Ages \cup {Unseen}] /\ 0 <= c[s]
            /\ \A z \in Stages \ {s} : c[z] = bus[w].chain[z]
        BY <1>0, <3>1, ExtendedType
      <3>3. \A z \in Stages : hit[i][z] <= bus[w].chain[z]
        BY <1>0 DEF InHand
      <3> HIDE DEF c
      <3>4. ASSUME NEW z \in Stages PROVE hit[i][z] <= c[z]
        BY <3>1, <3>2, <3>3
      <3> QED BY <3>1, <3>2, <3>4
    <2>3. chain' = [chain EXCEPT ![i] = c] /\ chainLife' \in [Ips -> 0..Day]
      BY <1>0, <1>7, AgeType DEF WriteChain
    <2>4. IF IsFull(c) THEN bus' = [bus EXCEPT ![w].at = "full"] ELSE Done(w)
      BY <1>7 DEF WriteChain, GoTo
    <2> HIDE DEF c, s
    <2>5. bus' \in [Workers -> Pub] /\ \A v \in Workers : InHand(v)'
      <3>1. CASE ~IsFull(c)
        BY <1>2, <2>4, <3>1
      <3>2. CASE IsFull(c)
        <4>1. bus' = [bus EXCEPT ![w].at = "full"]
          BY <2>4, <3>2
        <4>2. bus' \in [Workers -> Pub]
          <5>1. bus \in [Workers -> Pub] /\ "full" \in Points
            BY DEF Points
          <5> HIDE DEF BusInv, BusTypeOK
          <5> QED BY <4>1, <5>1 DEF Pub
        <4>3. \A z \in Stages : hit[i][z] <= Day
          <5>1. ASSUME NEW z \in Stages PROVE hit[i][z] <= Day
            <6>1. c[z] \in 0..(Day + 2) /\ hit[i][z] \in 0..(Day + 2)
              BY <1>0, <1>n, <2>2, AgeType
            <6>2. c[z] <= Day /\ hit[i][z] <= c[z]
              BY <2>2, <3>2 DEF IsFull
            <6> HIDE DEF BusInv, BusTypeOK
            <6> QED BY <6>1, <6>2, AgeType
          <5> QED BY <5>1
        <4>4. InHand(w)'
          BY <1>0, <2>1, <4>1, <4>3 DEF InHand, Pub
        <4>5. \A v \in Workers \ {w} : bus'[v] = bus[v]
          BY <4>1
        <4> QED BY <2>1, <4>2, <4>4, <4>5 DEF InHand
      <3> QED BY <3>1, <3>2
    <2>6. ChainFollows' /\ chain' \in [Ips -> [Stages -> Ages \cup {Unseen}]]
      BY <1>0, <2>1, <2>2, <2>3 DEF ChainFollows
    <2> QED BY <2>1, <2>3, <2>5, <2>6 DEF ChainIsEarned
  <1>8. CASE ClaimChain(w)
    <2>1. bus' \in [Workers -> Pub] /\ \A v \in Workers : InHand(v)'
      BY <1>2, <1>8 DEF ClaimChain
    <2>2. UNCHANGED <<seen, seenLife, chain, chainLife, pivotKey, pivoted, hit>>
      BY <1>8 DEF ClaimChain, redis
    <2>3. chainKey' = chainKey \cup {bus[w].ip} /\ bus[w].at = "full"
      BY <1>8 DEF ClaimChain, At
    <2>4. ChainIsEarned' /\ chainKey' \subseteq Ips
      BY <1>0, <2>2, <2>3 DEF ChainIsEarned, InHand
    <2> QED BY <2>1, <2>2, <2>4 DEF ChainFollows
  <1>9. CASE BusFails(w)
    <2>1. bus' \in [Workers -> Pub] /\ \A v \in Workers : InHand(v)'
      BY <1>2, <1>9 DEF BusFails
    <2>2. UNCHANGED <<seen, seenLife, chain, chainLife, pivotKey, chainKey, pivoted, hit>>
      BY <1>9 DEF BusFails, redis, claims
    <2> QED BY <2>1, <2>2 DEF ChainFollows, ChainIsEarned
  <1> QED BY <1>3, <1>4, <1>5, <1>6, <1>7, <1>8, <1>9 DEF BusStep

\* Older keeps the order of two ages.
LEMMA OlderType ==
    \A m, n \in 0..(Day + 2) :
        Older(m) \in 0..(Day + 2) /\ m <= Older(m) /\ (m <= n => Older(m) <= Older(n))
  BY AgeType DEF Older

LEMMA AgedType ==
    ASSUME NEW c \in [Stages -> Ages \cup {Unseen}]
    PROVE  Aged(c) \in [Stages -> Ages \cup {Unseen}] /\ \A s \in Stages : Aged(c)[s] = Older(c[s])
  <1>1. \A n \in Ages \cup {Unseen} : Older(n) \in Ages \cup {Unseen}
    BY OlderType, AgeType
  <1> HIDE DEF Ages, Unseen
  <1> QED BY <1>1 DEF Aged

\* Time, with no publish in hand.
LEMMA TickBus == BusInv /\ BusTick => BusInv'
  <1> SUFFICES ASSUME BusInv, BusTick PROVE BusInv'
    OBVIOUS
  <1> USE DEF BusInv, BusTypeOK
  <1>0. /\ bus' = bus /\ \A w \in Workers : bus[w].at = "idle"
        /\ pivotKey' = {} /\ chainKey' = {} /\ pivoted' \subseteq Ips
    BY DEF BusTick, At
  <1>1. seenLife' \in [Ips -> 0..Day] /\ chainLife' \in [Ips -> 0..Day]
    BY AgeType DEF BusTick, Less
  <1>2. seen' \in [Ips -> Seq(AllKinds)] /\ \A i \in Ips : Len(seen'[i]) <= IpMax
    <2>1. <<>> \in Seq(AllKinds) /\ Len(<<>>) = 0
      BY EmptySeq
    <2>2. seen' = [i \in Ips |-> IF seenLife'[i] = 0 THEN <<>> ELSE seen[i]]
      BY DEF BusTick
    <2> QED BY <2>1, <2>2, BusBounds
  <1>3. \A i \in Ips : /\ hit'[i] = Aged(hit[i])
                       /\ chain'[i] = Blank \/ chain'[i] = Aged(chain[i])
    BY DEF BusTick
  <1>4. hit' \in [Ips -> [Stages -> Ages \cup {Unseen}]]
    <2>1. hit' = [i \in Ips |-> Aged(hit[i])]
      BY DEF BusTick
    <2> QED BY <2>1, AgedType
  <1>5. chain' \in [Ips -> [Stages -> Ages \cup {Unseen}]]
    <2>1. chain' = [i \in Ips |-> IF chainLife'[i] = 0 THEN Blank ELSE Aged(chain[i])]
      BY DEF BusTick
    <2> QED BY <2>1, AgedType, AgeType
  <1>6. ASSUME NEW i \in Ips, NEW s \in Stages PROVE hit'[i][s] <= chain'[i][s]
    <2>1. hit[i][s] \in 0..(Day + 2) /\ chain[i][s] \in 0..(Day + 2) /\ hit[i][s] <= chain[i][s]
      BY AgeType DEF ChainFollows
    <2>2. hit'[i][s] = Older(hit[i][s])
      BY <1>3, AgedType
    <2>3. chain'[i][s] = Day + 2 \/ chain'[i][s] = Older(chain[i][s])
      <3>1. Aged(chain[i])[s] = Older(chain[i][s])
        BY AgedType
      <3>2. chain'[i] = Blank \/ chain'[i] = Aged(chain[i])
        BY <1>3
      <3>3. Blank[s] = Day + 2
        BY AgeType
      <3> QED BY <3>1, <3>2, <3>3
    <2> HIDE DEF BusInv, BusTypeOK
    <2> QED BY <2>1, <2>2, <2>3, OlderType, AgeType
  <1> QED BY <1>0, <1>1, <1>2, <1>4, <1>5, <1>6 DEF InHand, ChainFollows, ChainIsEarned

LEMMA OtherBus ==
    BusInv /\ ((\E i \in Ips : PivotKeyExpires(i)) \/ BusCrash \/ UNCHANGED busVars) => BusInv'
  <1> SUFFICES ASSUME BusInv, (\E i \in Ips : PivotKeyExpires(i)) \/ BusCrash \/ UNCHANGED busVars
               PROVE  BusInv'
    OBVIOUS
  <1> USE DEF BusInv, BusTypeOK
  <1>1. /\ UNCHANGED <<seen, seenLife, chain, chainLife, chainKey, pivoted, hit>>
        /\ pivotKey' \subseteq pivotKey
        /\ bus' = bus \/ bus' = [w \in Workers |-> Rest]
    BY DEF PivotKeyExpires, BusCrash, busVars, redis, claims
  <1>2. Rest \in Pub /\ Rest.at = "idle"
    BY AgeType DEF Rest, Pub, Points, AllKinds
  <1> QED BY <1>1, <1>2 DEF InHand, ChainFollows, ChainIsEarned

LEMMA InitBus == BusInit => BusInv
  <1> SUFFICES ASSUME BusInit PROVE BusInv
    OBVIOUS
  <1>1. Rest \in Pub /\ Rest.at = "idle"
    BY AgeType DEF Rest, Pub, Points, AllKinds
  <1>2. <<>> \in Seq(AllKinds) /\ Len(<<>>) = 0
    BY EmptySeq
  <1>3. BusTypeOK
    BY <1>1, <1>2, AgeType, BusBounds DEF BusInit, BusTypeOK
  <1>4. ChainFollows
    BY AgeType DEF BusInit, ChainFollows
  <1> QED BY <1>1, <1>3, <1>4 DEF BusInit, BusInv, InHand, ChainIsEarned

----------------------------------------------------------------------------
(* No pivot is missed: as long as no publish is cut short, every step leaves *)
(* an address claimed, or with a publish that is about to look.              *)

Covered(i) ==
    IsPivot(i) => \/ i \in pivoted
                  \/ \E w \in Workers : bus[w].ip = i /\ bus[w].at \in {"look", "pivot"}

LEMMA SameList == ASSUME NEW i, seen'[i] = seen[i] PROVE IsPivot(i)' <=> IsPivot(i)
  BY DEF IsPivot, Looked, Newest

LEMMA EmptyNewest == Len(Newest(<<>>, Look)) = 0
  <1>1. Len(<<>>) = 0 /\ Look \in Nat /\ Look # 0
    BY BusBounds, EmptySeq
  <1>2. Newest(<<>>, Look) = SubSeq(<<>>, 1, 0)
    BY <1>1 DEF Newest
  <1>3. Len(SubSeq(<<>>, 1, 0)) = 0
    OBVIOUS
  <1> QED BY <1>2, <1>3

LEMMA PublishCovers ==
    ASSUME BusTypeOK, PivotIsClaimed, NEW w \in Workers,
           \/ \E i \in Ips : \E k \in AllKinds : Publish(w, i, k)
           \/ BusStep(w)
    PROVE  PivotIsClaimed'
  <1> SUFFICES ASSUME NEW i \in Ips PROVE Covered(i)'
    BY DEF PivotIsClaimed, Covered
  <1>0. Covered(i)
    BY DEF PivotIsClaimed, Covered
  <1>1. CASE Push(w)
    <2>1. CASE bus[w].ip = i
      BY <1>1, <2>1 DEF Push, GoTo, Covered, BusTypeOK, Pub
    <2>2. CASE bus[w].ip # i
      <3>1. seen'[i] = seen[i] /\ pivoted' = pivoted
        BY <1>1, <2>2 DEF Push, BusTypeOK, claims
      <3>2. \A v \in Workers : bus[v].ip = i => bus'[v] = bus[v]
        BY <1>1, <2>2 DEF Push, GoTo, BusTypeOK
      <3> QED BY <1>0, <3>1, <3>2, SameList DEF Covered
    <2> QED BY <2>1, <2>2
  <1>2. CASE LookBack(w)
    <2>1. seen' = seen /\ pivoted' = pivoted
      BY <1>2 DEF LookBack, redis, claims
    <2>2. CASE IsPivot(bus[w].ip)
      <3>1. bus' = [bus EXCEPT ![w].at = "pivot"]
        BY <1>2, <2>2 DEF LookBack, GoTo
      <3> QED BY <1>0, <2>1, <3>1, SameList DEF Covered, BusTypeOK, Pub
    <2>3. CASE ~IsPivot(bus[w].ip)
      <3>1. bus' = [bus EXCEPT ![w].at = "read"]
        BY <1>2, <2>3 DEF LookBack, GoTo
      <3> QED BY <1>0, <2>1, <2>3, <3>1, SameList DEF Covered, BusTypeOK, Pub
    <2> QED BY <2>2, <2>3
  <1>3. CASE ClaimPivot(w)
    <2>1. seen' = seen /\ pivoted' = pivoted \cup {bus[w].ip} /\ bus' = [bus EXCEPT ![w].at = "read"]
      BY <1>3 DEF ClaimPivot, GoTo, redis
    <2> QED BY <1>0, <2>1, SameList DEF Covered, BusTypeOK
  <1>4. ASSUME seen' = seen, pivoted' = pivoted, bus[w].at \notin {"look", "pivot"},
               \A v \in Workers \ {w} : bus'[v] = bus[v]
        PROVE  Covered(i)'
    BY <1>0, <1>4, SameList DEF Covered
  <1>5. CASE ReadChain(w) \/ WriteChain(w) \/ ClaimChain(w)
    <2>1. seen' = seen /\ pivoted' = pivoted /\ bus[w].at \notin {"look", "pivot"}
      BY <1>5 DEF ReadChain, WriteChain, ClaimChain, redis, claims, At
    <2>2. \A v \in Workers \ {w} : bus'[v] = bus[v]
      <3>1. CASE ReadChain(w)
        BY <3>1 DEF ReadChain, Done, BusTypeOK
      <3>2. CASE WriteChain(w)
        BY <3>2 DEF WriteChain, Done, GoTo, BusTypeOK
      <3>3. CASE ClaimChain(w)
        BY <3>3 DEF ClaimChain, Done, BusTypeOK
      <3> QED BY <1>5, <3>1, <3>2, <3>3
    <2> QED BY <1>4, <2>1, <2>2
  <1>6. ASSUME NEW a \in Ips, NEW k \in AllKinds, Publish(w, a, k) PROVE Covered(i)'
    <2>1. seen' = seen /\ pivoted' = pivoted /\ bus[w].at \notin {"look", "pivot"}
      BY <1>6 DEF Publish, redis, claims, At
    <2>2. \A v \in Workers \ {w} : bus'[v] = bus[v]
      BY <1>6 DEF Publish
    <2> QED BY <1>4, <2>1, <2>2
  <1> QED BY <1>1, <1>2, <1>3, <1>5, <1>6 DEF BusStep

LEMMA TimeCovers ==
    ASSUME BusTypeOK, PivotIsClaimed,
           BusTick \/ (\E i \in Ips : PivotKeyExpires(i)) \/ UNCHANGED busVars
    PROVE  PivotIsClaimed'
  <1> SUFFICES ASSUME NEW i \in Ips PROVE Covered(i)'
    BY DEF PivotIsClaimed, Covered
  <1>0. Covered(i)
    BY DEF PivotIsClaimed, Covered
  <1>1. CASE BusTick
    <2>1. \A w \in Workers : bus[w].at = "idle"
      BY <1>1 DEF BusTick, At
    <2>2. CASE seenLife'[i] = 0
      <3>1. seen'[i] = <<>>
        BY <1>1, <2>2 DEF BusTick
      <3> QED BY <3>1, EmptyNewest DEF Covered, IsPivot, Looked
    <2>3. CASE seenLife'[i] # 0
      <3>1. seen'[i] = seen[i]
        BY <1>1, <2>3 DEF BusTick
      <3>2. seenLife'[i] > 0
        BY <1>1, <2>3, AgeType DEF BusTick, Less, BusTypeOK
      <3>3. i \in pivoted => i \in pivoted'
        BY <1>1, <3>2 DEF BusTick
      <3> QED BY <1>0, <2>1, <3>1, <3>3, SameList DEF Covered
    <2> QED BY <2>2, <2>3
  <1>2. CASE (\E a \in Ips : PivotKeyExpires(a)) \/ UNCHANGED busVars
    <2>1. bus' = bus /\ seen' = seen /\ pivoted' = pivoted
      BY <1>2 DEF PivotKeyExpires, busVars, redis
    <2> QED BY <1>0, <2>1, SameList DEF Covered
  <1> QED BY <1>1, <1>2

----------------------------------------------------------------------------
(* The lures. *)

Holding  == {"read", "write", "mark", "tell"}
Logins   == {"scan", "get", "lock"} \cup Holding
Known    == {"get", "lock", "check", "delete", "unlist", "forget"} \cup Holding
Planting == {"set", "add"}

(***************************************************************************)
(* The job of a worker: a trigger is counted under the lock, from a count  *)
(* that is up to date; what a job has looked up was stored before, what it *)
(* plants was not; and a login that began after its lure was gone gets no  *)
(* further than lures:active.                                              *)
(***************************************************************************)
JobOK(w) ==
    /\ job[w].at # "idle" => job[w].lure \in Lures
    /\ job[w].at \in Logins => job[w].ip \in Ips
    /\ job[w].at \in Holding => lock = {w}
    /\ job[w].at \in Known => stamp[job[w].lure] > 0
    /\ job[w].at \in Planting => job[w].lure \in made /\ stamp[job[w].lure] = 0
    /\ job[w].at = "write" => job[w].n = hits[job[w].lure]
    /\ \A l \in job[w].old : stamp[l] > 0
    /\ job[w].late => job[w].at = "scan" /\ job[w].lure \in gone

\* No two workers plant the same lure.
JobsApart ==
    \A v, w \in Workers :
        v # w /\ job[v].at \in Planting /\ job[w].at \in Planting => job[v].lure # job[w].lure

\* A lure is planted, stored, and perhaps gone, in this order.
LuresInOrder ==
    \A l \in Lures :
        /\ stamp[l] > 0 => l \in made
        /\ stamp[l] = 0 => hits[l] = 0 /\ l \notin active /\ l \notin gone
        /\ l \in gone => l \notin active

LureTypeOK ==
    /\ job \in [Workers -> Job] /\ lock \subseteq Workers
    /\ count \in [Lures -> Nat \cup {NoRecord}]
    /\ active \subseteq Lures /\ stamp \in [Lures -> Nat] /\ triggered \subseteq Lures
    /\ calls \in Nat /\ crashes \in Nat /\ faults \in Nat
    /\ made \subseteq Lures /\ gone \subseteq made
    /\ hits \in [Lures -> Nat]

JobsInv == (\A w \in Workers : JobOK(w)) /\ JobsApart
LureInv == LureTypeOK /\ JobsInv /\ LuresInOrder /\ TriggersCounted
Inv == BusInv /\ LureInv

LEMMA TypeParts == Inv => TypeOK
  BY DEF Inv, BusInv, LureInv, LureTypeOK, TypeOK

LEMMA NoJobType == NoJob \in Job /\ NoJob.at = "idle" /\ NoJob.old = {} /\ NoJob.late = FALSE
  BY DEF NoJob, Free, Job, JobPoints

\* A step of one worker that moves its own job and nothing another job rests on.
LEMMA OneJobMoves ==
    ASSUME LureTypeOK, JobsInv, NEW w \in Workers, job' \in [Workers -> Job],
           \A v \in Workers \ {w} : job'[v] = job[v],
           \A v \in Workers \ {w} : lock = {v} => lock' = {v},
           made \subseteq made', gone \subseteq gone',
           \A l \in Lures : stamp[l] > 0 => stamp'[l] > 0,
           \A v \in Workers \ {w} :
               /\ job[v].at \in Planting => stamp'[job[v].lure] = 0
               /\ job[v].at = "write" => hits'[job[v].lure] = hits[job[v].lure],
           JobOK(w)',
           \/ job'[w].at \notin Planting
           \/ job[w].at \in Planting /\ job'[w].lure = job[w].lure
           \/ \A v \in Workers \ {w} : job[v].at \in Planting => job[v].lure # job'[w].lure
    PROVE  JobsInv'
  <1>1. ASSUME NEW v \in Workers \ {w} PROVE JobOK(v)'
    <2>1. JobOK(v) /\ job'[v] = job[v] /\ job[v] \in Job
      BY DEF JobsInv, LureTypeOK
    <2>2. \A l \in job[v].old : stamp'[l] > 0
      BY <2>1 DEF JobOK, Job
    <2>3. job[v].at \in Known => stamp'[job[v].lure] > 0
      BY <2>1 DEF JobOK, Known, Holding
    <2> QED BY <2>1, <2>2, <2>3 DEF JobOK, Planting
  <1>2. JobsApart'
    BY DEF JobsInv, JobsApart
  <1> QED BY <1>1, <1>2 DEF JobsInv

LEMMA JobToType ==
    ASSUME LureTypeOK, NEW w \in Workers, NEW p \in JobPoints, JobTo(w, p)
    PROVE  /\ job' \in [Workers -> Job] /\ \A v \in Workers \ {w} : job'[v] = job[v]
           /\ job'[w].at = p /\ job'[w].lure = job[w].lure /\ job'[w].ip = job[w].ip
           /\ job'[w].n = job[w].n /\ job'[w].old = job[w].old /\ job'[w].late = job[w].late
  BY DEF JobTo, LureTypeOK, Job

LEMMA JobEndsType ==
    ASSUME LureTypeOK, NEW w \in Workers, JobEnds(w)
    PROVE  /\ job' \in [Workers -> Job] /\ \A v \in Workers \ {w} : job'[v] = job[v]
           /\ job'[w].at = "idle" /\ job'[w].old = {} /\ ~job'[w].late /\ JobOK(w)'
  BY NoJobType DEF JobEnds, LureTypeOK, JobOK, Holding, Logins, Known, Planting

\* Only a job and the lock change.
LEMMA JobStep ==
    ASSUME LureInv, NEW w \in Workers,
           \/ Scan(w) \/ Get(w) \/ Acquire(w) \/ Read(w) \/ Told(w)
           \/ Card(w) \/ Excess(w) \/ Check(w) \/ JobFails(w)
    PROVE  LureInv'
  <1> USE DEF LureInv
  <1>0. /\ UNCHANGED <<count, active, stamp, triggered, made, gone, hits>>
        /\ calls' \in Nat /\ crashes' \in Nat /\ faults' \in Nat
    BY DEF Scan, Get, Acquire, Read, Told, Card, Excess, Check, JobFails, Fault,
           store, env, history, LureTypeOK
  <1>j. JobOK(w) /\ job[w] \in Job
    BY DEF JobsInv, LureTypeOK
  <1>1. ASSUME job' \in [Workers -> Job], \A v \in Workers \ {w} : job'[v] = job[v],
               lock' \subseteq Workers, \A v \in Workers \ {w} : lock = {v} => lock' = {v},
               JobOK(w)', job'[w].at \notin Planting
        PROVE  LureInv'
    <2>1. JobsInv'
      BY <1>0, <1>1, OneJobMoves DEF JobsInv, JobOK
    <2> QED BY <1>0, <1>1, <2>1 DEF LureTypeOK, LuresInOrder, TriggersCounted
  <1>2. ASSUME JobEnds(w), lock' \subseteq Workers,
               \A v \in Workers \ {w} : lock = {v} => lock' = {v}
        PROVE  LureInv'
    BY <1>1, <1>2, JobEndsType DEF Planting
  <1>3. ASSUME NEW p \in JobPoints \ Planting, JobTo(w, p), lock' = lock, JobOK(w)'
        PROVE  LureInv'
    BY <1>1, <1>3, JobToType DEF LureTypeOK
  <1> USE DEF JobAt
  <1>4. CASE Scan(w)
    <2>1. lock' = lock
      BY <1>4 DEF Scan
    <2>2. CASE job[w].lure \in active
      <3>1. JobTo(w, "get") /\ job[w].at = "scan"
        BY <1>4, <2>2 DEF Scan
      <3>2. stamp[job[w].lure] > 0 /\ job[w].lure \notin gone
        BY <2>2 DEF LuresInOrder, LureTypeOK
      <3>3. JobOK(w)'
        BY <1>0, <1>j, <2>1, <3>1, <3>2, JobToType
           DEF JobOK, JobPoints, Holding, Logins, Known, Planting
      <3> QED BY <1>3, <2>1, <3>1, <3>3 DEF JobPoints, Planting
    <2>3. CASE job[w].lure \notin active
      BY <1>2, <1>4, <2>1, <2>3 DEF Scan, LureTypeOK
    <2> QED BY <2>2, <2>3
  <1>5. CASE Get(w)
    <2>1. lock' = lock /\ job[w].at = "get" /\ (JobTo(w, "lock") \/ JobEnds(w))
      BY <1>5 DEF Get
    <2>2. CASE JobTo(w, "lock")
      <3>1. JobOK(w)'
        BY <1>0, <1>j, <2>1, <2>2, JobToType
           DEF JobOK, JobPoints, Holding, Logins, Known, Planting
      <3> QED BY <1>3, <2>1, <2>2, <3>1 DEF JobPoints, Planting
    <2> QED BY <1>2, <2>1, <2>2 DEF LureTypeOK
  <1>6. CASE Acquire(w)
    <2>1. lock = {} /\ lock' = {w} /\ job[w].at = "lock" /\ JobTo(w, "read")
      BY <1>6 DEF Acquire
    <2>2. JobOK(w)'
      BY <1>0, <1>j, <2>1, JobToType DEF JobOK, JobPoints, Holding, Logins, Known, Planting
    <2> QED BY <1>1, <2>1, <2>2, JobToType DEF JobPoints, Planting
  <1>7. CASE Read(w)
    <2>1. job[w].at = "read" /\ lock = {w} /\ job[w].lure \in Lures
      BY <1>7, <1>j DEF Read, JobOK, Holding
    <2>2. CASE count[job[w].lure] # NoRecord
      <3>1. job' = [job EXCEPT ![w].at = "write", ![w].n = count[job[w].lure]] /\ lock' = lock
        BY <1>7, <2>2 DEF Read
      <3>2. count[job[w].lure] \in Nat /\ count[job[w].lure] = hits[job[w].lure]
        BY <2>1, <2>2 DEF TriggersCounted, LureTypeOK
      <3>3. job'[w] = [job[w] EXCEPT !.at = "write", !.n = count[job[w].lure]]
        BY <3>1 DEF LureTypeOK, Job
      <3>4. job'[w] \in Job
        BY <1>j, <3>2, <3>3 DEF Job, JobPoints
      <3>5. job' \in [Workers -> Job]
        BY <3>1, <3>3, <3>4 DEF LureTypeOK
      <3>6. JobOK(w)'
        <4>1. /\ job'[w].at = "write" /\ job'[w].n = hits[job[w].lure] /\ lock' = {w}
              /\ job'[w].lure = job[w].lure /\ job'[w].ip = job[w].ip
              /\ job'[w].old = job[w].old /\ job'[w].late = job[w].late
          <5>1. lock' = {w}
            BY <2>1, <3>1
          <5> HIDE DEF LureInv
          <5>2. job'[w].n = hits[job[w].lure]
            BY <1>j, <3>2, <3>3 DEF Job
          <5> QED BY <1>j, <3>3, <5>1, <5>2 DEF Job
        <4> HIDE DEF LureInv
        <4> QED BY <1>0, <1>j, <2>1, <4>1 DEF JobOK, Holding, Logins, Known, Planting
      <3> QED BY <1>1, <3>1, <3>3, <3>5, <3>6 DEF Planting, LureTypeOK, Job
    <2>3. CASE count[job[w].lure] = NoRecord
      BY <1>2, <1>7, <2>1, <2>3 DEF Read
    <2> QED BY <2>2, <2>3
  <1>8. CASE Told(w)
    <2>1. JobEnds(w) /\ lock' = {} /\ lock = {w}
      BY <1>8, <1>j DEF Told, JobOK, Holding
    <2> QED BY <1>2, <2>1
  <1>9. CASE Card(w)
    <2>1. lock' = lock /\ job[w].at = "card"
      BY <1>9 DEF Card
    <2>2. CASE Cardinality(active) > MaxActive
      <3> DEFINE m == Cardinality(active) - MaxActive
      <3>1. job' = [job EXCEPT ![w].at = "excess", ![w].n = m]
        BY <1>9, <2>2 DEF Card
      <3>2. m \in Nat
        <4>1. Cardinality(active) \in Nat
          BY LureBounds, FS_Subset, FS_CardinalityType DEF LureTypeOK
        <4> QED BY <2>2, <4>1, LureBounds
      <3> HIDE DEF m
      <3>3. job'[w] = [job[w] EXCEPT !.at = "excess", !.n = m]
        BY <3>1 DEF LureTypeOK, Job
      <3>4. job'[w] \in Job
        BY <1>j, <3>2, <3>3 DEF Job, JobPoints
      <3>5. job' \in [Workers -> Job]
        BY <3>1, <3>3, <3>4 DEF LureTypeOK
      <3>6. JobOK(w)'
        BY <1>0, <1>j, <2>1, <3>3 DEF JobOK, Job, Holding, Logins, Known, Planting
      <3> QED BY <1>1, <2>1, <3>1, <3>3, <3>5, <3>6 DEF Planting, LureTypeOK, Job
    <2>3. CASE ~(Cardinality(active) > MaxActive)
      BY <1>2, <1>9, <2>1, <2>3 DEF Card, LureTypeOK
    <2> QED BY <2>2, <2>3
  <1>10. CASE Excess(w)
    <2>1. lock' = lock /\ job[w].at = "excess"
          /\ job' = [job EXCEPT ![w].at = "evict", ![w].old = Lowest(job[w].n)]
      BY <1>10 DEF Excess
    <2>2. Lowest(job[w].n) \subseteq Lures /\ \A l \in Lowest(job[w].n) : stamp[l] > 0
      BY DEF Lowest, LuresInOrder, LureTypeOK
    <2>3. job'[w] = [job[w] EXCEPT !.at = "evict", !.old = Lowest(job[w].n)]
      BY <2>1 DEF LureTypeOK, Job
    <2>4. job'[w] \in Job
      BY <1>j, <2>2, <2>3 DEF Job, JobPoints
    <2>5. job' \in [Workers -> Job]
      BY <2>1, <2>3, <2>4 DEF LureTypeOK
    <2>6. JobOK(w)'
      <3>1. /\ job'[w].at = "evict" /\ job'[w].old = Lowest(job[w].n)
            /\ job'[w].lure = job[w].lure /\ job'[w].ip = job[w].ip
            /\ job'[w].late = job[w].late
        BY <1>j, <2>3 DEF Job
      <3> HIDE DEF LureInv
      <3> QED BY <1>0, <1>j, <2>1, <2>2, <3>1 DEF JobOK, Holding, Logins, Known, Planting
    <2> QED BY <1>1, <2>1, <2>3, <2>5, <2>6 DEF Planting, LureTypeOK, Job
  <1>11. CASE Check(w)
    <2>1. lock' = lock /\ job[w].at = "check" /\ (JobTo(w, "delete") \/ JobEnds(w))
      BY <1>11 DEF Check
    <2>2. CASE JobTo(w, "delete")
      <3>1. JobOK(w)'
        BY <1>0, <1>j, <2>1, <2>2, JobToType
           DEF JobOK, JobPoints, Holding, Logins, Known, Planting
      <3> QED BY <1>3, <2>1, <2>2, <3>1 DEF JobPoints, Planting
    <2> QED BY <1>2, <2>1, <2>2 DEF LureTypeOK
  <1>12. CASE JobFails(w)
    <2>1. JobEnds(w) /\ lock' = lock \ {w}
      BY <1>12 DEF JobFails
    <2> QED BY <1>2, <2>1 DEF LureTypeOK
  <1> QED BY <1>4, <1>5, <1>6, <1>7, <1>8, <1>9, <1>10, <1>11, <1>12

\* The steps of a trigger and of a deletion that change what is stored.
LEMMA StoreStep ==
    ASSUME LureInv, NEW w \in Workers,
           \/ Write(w) \/ Mark(w) \/ DeleteRecord(w) \/ Unlist(w) \/ Forget(w)
    PROVE  LureInv'
  <1> USE DEF LureInv, JobAt
  <1>0. lock' = lock /\ stamp' = stamp /\ made' = made /\ UNCHANGED <<calls, crashes, faults>>
    BY DEF Write, Mark, DeleteRecord, Unlist, Forget, env, history
  <1>j. JobOK(w) /\ job[w] \in Job
    BY DEF JobsInv, LureTypeOK
  <1>k. job[w].lure \in Lures /\ stamp[job[w].lure] > 0 /\ job[w].lure \in made
    <2>1. job[w].at \in Known
      BY DEF Write, Mark, DeleteRecord, Unlist, Forget, Known, Holding
    <2> QED BY <1>j, <2>1 DEF JobOK, Known, Holding, LuresInOrder
  <1>1. ASSUME NEW p \in {"mark", "tell", "unlist", "forget"}, JobTo(w, p), gone \subseteq gone',
               \A v \in Workers \ {w} :
                   job[v].at = "write" => hits'[job[v].lure] = hits[job[v].lure],
               job[w].at \in Known, p \in Holding => job[w].at \in Holding
        PROVE  JobsInv' /\ job' \in [Workers -> Job]
    <2>1. p \in JobPoints \ Planting
      BY DEF JobPoints, Planting
    <2>2. JobOK(w)'
      BY <1>0, <1>1, <1>j, <2>1, JobToType DEF JobOK, Holding, Logins, Known, Planting
    <2> QED BY <1>0, <1>1, <2>1, <2>2, OneJobMoves, JobToType DEF JobsInv, JobOK
  <1>2. CASE Write(w)
    <2>1. /\ job[w].at = "write" /\ JobTo(w, "mark")
          /\ count' = [count EXCEPT ![job[w].lure] = job[w].n + 1]
          /\ hits' = [hits EXCEPT ![job[w].lure] = @ + 1]
          /\ UNCHANGED <<active, stamp, triggered, made, gone>>
      BY <1>2 DEF Write
    <2>2. \A v \in Workers \ {w} : job[v].at # "write"
      BY <1>j, <2>1 DEF JobsInv, JobOK, Holding
    <2>3. JobsInv' /\ job' \in [Workers -> Job]
      BY <1>1, <2>1, <2>2 DEF Known, Holding
    <2>4. job[w].n = hits[job[w].lure] /\ job[w].n + 1 \in Nat
      BY <1>j, <2>1 DEF JobOK, Job
    <2>5. hits' \in [Lures -> Nat] /\ count' \in [Lures -> Nat \cup {NoRecord}]
      BY <1>k, <2>1, <2>4 DEF LureTypeOK
    <2>6. TriggersCounted'
      BY <1>k, <2>1, <2>4 DEF TriggersCounted, LureTypeOK
    <2>7. LuresInOrder'
      BY <1>k, <2>1 DEF LuresInOrder, LureTypeOK
    <2> QED BY <1>0, <2>1, <2>3, <2>5, <2>6, <2>7 DEF LureTypeOK
  <1>3. CASE Mark(w) \/ Forget(w)
    <2>1. UNCHANGED <<count, active, stamp, made, gone, hits>> /\ triggered' \subseteq Lures
      BY <1>3, <1>k DEF Mark, Forget, history, LureTypeOK
    <2>2. JobsInv' /\ job' \in [Workers -> Job]
      <3>1. CASE Mark(w)
        BY <1>1, <2>1, <3>1 DEF Mark, Known, Holding
      <3>2. CASE Forget(w)
        BY <1>0, <2>1, <3>2, OneJobMoves, JobEndsType DEF Forget, JobsInv, JobOK, Planting
      <3> QED BY <1>3, <3>1, <3>2
    <2> QED BY <1>0, <2>1, <2>2 DEF LureTypeOK, LuresInOrder, TriggersCounted
  <1>4. CASE DeleteRecord(w)
    <2>1. /\ job[w].at = "delete" /\ JobTo(w, "unlist")
          /\ count' = [count EXCEPT ![job[w].lure] = NoRecord]
          /\ UNCHANGED <<active, stamp, triggered, made, gone, hits>>
      BY <1>4 DEF DeleteRecord, history
    <2>2. JobsInv' /\ job' \in [Workers -> Job]
      BY <1>1, <2>1 DEF Known, Holding
    <2>3. count' \in [Lures -> Nat \cup {NoRecord}] /\ TriggersCounted'
      BY <2>1 DEF LureTypeOK, TriggersCounted
    <2> QED BY <1>0, <2>1, <2>2, <2>3 DEF LureTypeOK, LuresInOrder
  <1>5. CASE Unlist(w)
    <2>1. /\ job[w].at = "unlist" /\ JobTo(w, "forget")
          /\ active' = active \ {job[w].lure} /\ gone' = gone \cup {job[w].lure}
          /\ UNCHANGED <<count, stamp, triggered, made, hits>>
      BY <1>5 DEF Unlist
    <2>2. JobsInv' /\ job' \in [Workers -> Job]
      BY <1>1, <2>1 DEF Known, Holding
    <2>3. LuresInOrder' /\ gone' \subseteq made
      BY <1>k, <2>1 DEF LuresInOrder, LureTypeOK
    <2> QED BY <1>0, <2>1, <2>2, <2>3 DEF LureTypeOK, TriggersCounted
  <1> QED BY <1>2, <1>3, <1>4, <1>5

\* The steps of planting: a lure is stored, and the oldest are evicted.
LEMMA PlantStep ==
    ASSUME LureInv, NEW w \in Workers,
           SetRecord(w) \/ Add(w) \/ Evict(w) \/ Drop(w)
    PROVE  LureInv'
  <1> USE DEF LureInv, JobAt
  <1>0. lock' = lock /\ triggered' = triggered /\ made' = made /\ hits' = hits
        /\ UNCHANGED <<calls, crashes, faults>>
    BY DEF SetRecord, Add, Evict, Drop, env, history
  <1>j. JobOK(w) /\ job[w] \in Job
    BY DEF JobsInv, LureTypeOK
  <1>1. CASE SetRecord(w)
    <2>1. /\ job[w].at = "set" /\ JobTo(w, "add")
          /\ count' = [count EXCEPT ![job[w].lure] = 0] /\ UNCHANGED <<active, stamp, gone>>
      BY <1>1 DEF SetRecord, history
    <2>2. job[w].lure \in Lures /\ stamp[job[w].lure] = 0 /\ hits[job[w].lure] = 0
      BY <1>j, <2>1 DEF JobOK, Planting, LuresInOrder
    <2>3. JobOK(w)' /\ job' \in [Workers -> Job]
      BY <1>0, <1>j, <2>1, JobToType DEF JobOK, JobPoints, Holding, Logins, Known, Planting
    <2>4. JobsInv'
      BY <1>0, <2>1, <2>3, OneJobMoves, JobToType DEF JobsInv, JobOK, Planting, JobPoints
    <2>5. count' \in [Lures -> Nat \cup {NoRecord}] /\ TriggersCounted'
      BY <1>0, <2>1, <2>2 DEF LureTypeOK, TriggersCounted
    <2> QED BY <1>0, <2>1, <2>3, <2>4, <2>5 DEF LureTypeOK, LuresInOrder
  <1>2. CASE Add(w)
    <2> DEFINE m == 1 + Cardinality({l \in Lures : stamp[l] > 0})
    <2>1. /\ job[w].at = "add" /\ JobTo(w, "card") /\ active' = active \cup {job[w].lure}
          /\ stamp' = [stamp EXCEPT ![job[w].lure] = m] /\ UNCHANGED <<count, gone>>
      BY <1>2 DEF Add, history
    <2>2. m \in Nat /\ m > 0
      <3>1. Cardinality({l \in Lures : stamp[l] > 0}) \in Nat
        BY LureBounds, FS_Subset, FS_CardinalityType
      <3> QED BY <3>1
    <2> HIDE DEF m
    <2>3. job[w].lure \in Lures \cap made /\ stamp[job[w].lure] = 0 /\ job[w].lure \notin gone
      BY <1>j, <2>1 DEF JobOK, Planting, LuresInOrder
    <2>4. stamp' \in [Lures -> Nat] /\ \A l \in Lures : stamp[l] > 0 => stamp'[l] > 0
      BY <2>1, <2>2 DEF LureTypeOK
    <2>5. job' \in [Workers -> Job] /\ \A v \in Workers \ {w} : job'[v] = job[v]
      BY <2>1, JobToType DEF JobPoints
    <2>6. JobOK(w)'
      <3>1. \A l \in job[w].old : stamp'[l] > 0
        BY <1>j, <2>4 DEF JobOK, Job
      <3> QED BY <1>0, <1>j, <2>1, <3>1, JobToType
              DEF JobOK, JobPoints, Holding, Logins, Known, Planting
    <2>7. \A v \in Workers \ {w} : job[v].at \in Planting => stamp'[job[v].lure] = 0
      <3>1. \A v \in Workers \ {w} : job[v].at \in Planting =>
               job[v].lure # job[w].lure /\ stamp[job[v].lure] = 0 /\ job[v].lure \in Lures
        BY <2>1 DEF JobsInv, JobsApart, JobOK, Planting
      <3> QED BY <2>1, <3>1 DEF LureTypeOK
    <2>8. job'[w].at \notin Planting
      BY <2>1, JobToType DEF JobPoints, Planting
    <2>9. JobsInv'
      BY <1>0, <2>1, <2>4, <2>5, <2>6, <2>7, <2>8, OneJobMoves
    <2>10. LuresInOrder'
      <3> SUFFICES ASSUME NEW l \in Lures
                   PROVE  /\ stamp'[l] > 0 => l \in made
                          /\ stamp'[l] = 0 => hits[l] = 0 /\ l \notin active' /\ l \notin gone
                          /\ l \in gone => l \notin active'
        BY <1>0, <2>1 DEF LuresInOrder
      <3>1. CASE l = job[w].lure
        BY <2>1, <2>2, <2>3, <3>1 DEF LureTypeOK
      <3>2. CASE l # job[w].lure
        BY <2>1, <3>2 DEF LureTypeOK, LuresInOrder
      <3> QED BY <3>1, <3>2
    <2> QED BY <1>0, <2>1, <2>3, <2>4, <2>5, <2>9, <2>10 DEF LureTypeOK, TriggersCounted
  <1>3. CASE Evict(w)
    <2>1. UNCHANGED <<active, stamp, gone>> /\ job[w].at = "evict"
          /\ (JobEnds(w) \/ JobTo(w, "drop"))
      BY <1>3 DEF Evict, history
    <2>2. count' \in [Lures -> Nat \cup {NoRecord}]
          /\ \A l \in Lures : count'[l] # NoRecord => count'[l] = count[l]
      BY <1>3 DEF Evict, LureTypeOK
    <2>3. JobsInv' /\ job' \in [Workers -> Job]
      <3>1. CASE JobEnds(w)
        BY <1>0, <2>1, <3>1, OneJobMoves, JobEndsType DEF JobsInv, JobOK, Planting
      <3>2. CASE JobTo(w, "drop")
        <4>1. JobOK(w)'
          BY <1>0, <1>j, <2>1, <3>2, JobToType
             DEF JobOK, JobPoints, Holding, Logins, Known, Planting
        <4> QED BY <1>0, <2>1, <3>2, <4>1, OneJobMoves, JobToType
                DEF JobsInv, JobOK, Planting, JobPoints
      <3> QED BY <2>1, <3>1, <3>2
    <2> QED BY <1>0, <2>1, <2>2, <2>3 DEF LureTypeOK, LuresInOrder, TriggersCounted
  <1>4. CASE Drop(w)
    <2>1. PICK l \in First(job[w].old) :
             /\ job' = [job EXCEPT ![w].at = "evict", ![w].old = @ \ {l}]
             /\ active' = active \ {l} /\ gone' = gone \cup {l}
      BY <1>4 DEF Drop
    <2>2. job[w].at = "drop" /\ UNCHANGED <<count, stamp>>
      BY <1>4 DEF Drop
    <2>3. l \in Lures /\ stamp[l] > 0 /\ l \in made
      BY <1>j DEF First, JobOK, Job, LuresInOrder
    <2>4. job'[w] = [job[w] EXCEPT !.at = "evict", !.old = @ \ {l}]
      BY <2>1 DEF LureTypeOK, Job
    <2>5. /\ job'[w] \in Job /\ job'[w].at = "evict" /\ job'[w].lure = job[w].lure
          /\ job'[w].old \subseteq job[w].old /\ job'[w].late = job[w].late
      BY <1>j, <2>4 DEF Job, JobPoints
    <2>6. job' \in [Workers -> Job] /\ \A v \in Workers \ {w} : job'[v] = job[v]
      BY <2>1, <2>4, <2>5 DEF LureTypeOK
    <2>7. JobOK(w)'
      BY <1>0, <1>j, <2>2, <2>5 DEF JobOK, Holding, Logins, Known, Planting
    <2>8. JobsInv'
      BY <1>0, <2>1, <2>2, <2>5, <2>6, <2>7, OneJobMoves DEF JobsInv, JobOK, Planting
    <2>9. LuresInOrder' /\ gone' \subseteq made /\ active' \subseteq Lures
      BY <1>0, <2>1, <2>2, <2>3 DEF LuresInOrder, LureTypeOK
    <2> QED BY <1>0, <2>2, <2>6, <2>8, <2>9 DEF LureTypeOK, TriggersCounted
  <1> QED BY <1>1, <1>2, <1>3, <1>4

\* A worker takes a login, a plant or a deletion on.
LEMMA TakeUp ==
    ASSUME LureInv, NEW w \in Workers, NEW l \in Lures,
           \/ Plant(w, l) \/ Delete(w, l) \/ \E i \in Ips : Login(w, l, i)
    PROVE  LureInv'
  <1>a. LureTypeOK /\ calls \in Nat /\ crashes \in Nat /\ faults \in Nat
    BY DEF LureInv, LureTypeOK
  <1>b. /\ lock' = lock /\ UNCHANGED <<count, active, stamp, triggered, crashes, faults, gone, hits>>
        /\ calls' = calls + 1
    BY DEF Plant, Delete, Login, Begin, store, history
  <1>c. calls' \in Nat
    BY <1>a, <1>b
  <1>0. /\ lock' = lock /\ UNCHANGED <<count, active, stamp, triggered, crashes, faults, gone, hits>>
        /\ calls' \in Nat
    BY <1>b, <1>c
  <1> USE DEF LureInv
  <1>1. ASSUME NEW j \in Job, job' = [job EXCEPT ![w] = j], j.lure = l, j.old = {},
               made' = made \/ made' = made \cup {l},
               \/ j.at = "scan" /\ j.ip \in Ips /\ (j.late => l \in gone)
               \/ j.at = "check" /\ stamp[l] > 0 /\ ~j.late
               \/ j.at = "set" /\ l \notin made /\ l \in made' /\ ~j.late
        PROVE  LureInv'
    <2>1. job' \in [Workers -> Job] /\ job'[w] = j /\ \A v \in Workers \ {w} : job'[v] = job[v]
      BY <1>1 DEF LureTypeOK
    <2>2. l \notin made => stamp[l] = 0
      BY DEF LuresInOrder, LureTypeOK
    <2>3. JobOK(w)'
      BY <1>0, <1>1, <2>1, <2>2 DEF JobOK, Holding, Logins, Known, Planting
    <2>4. \A v \in Workers : job[v].at \in Planting => job[v].lure \in made
      BY DEF JobsInv, JobOK
    <2>5. \A v \in Workers : job[v].at \in Planting => stamp[job[v].lure] = 0
      BY DEF JobsInv, JobOK
    <2>6. \/ job'[w].at \notin Planting
          \/ \A v \in Workers \ {w} : job[v].at \in Planting => job[v].lure # job'[w].lure
      BY <1>1, <2>1, <2>4 DEF Planting
    <2>7. JobsInv'
      BY <1>0, <1>1, <2>1, <2>3, <2>5, <2>6, OneJobMoves
    <2> QED BY <1>0, <1>1, <2>1, <2>7 DEF LureTypeOK, LuresInOrder, TriggersCounted
  <1>2. CASE Plant(w, l)
    <2> DEFINE j == [Free(l) EXCEPT !.at = "set"]
    <2>1. j \in Job /\ j.at = "set" /\ j.lure = l /\ j.old = {} /\ ~j.late
      BY DEF Free, Job, JobPoints
    <2>2. job' = [job EXCEPT ![w] = j] /\ l \notin made /\ made' = made \cup {l}
      BY <1>2 DEF Plant
    <2> QED BY <1>1, <2>1, <2>2
  <1>3. CASE Delete(w, l)
    <2> DEFINE j == [Free(l) EXCEPT !.at = "check"]
    <2>1. j \in Job /\ j.at = "check" /\ j.lure = l /\ j.old = {} /\ ~j.late
      BY DEF Free, Job, JobPoints
    <2>2. job' = [job EXCEPT ![w] = j] /\ stamp[l] > 0 /\ made' = made
      BY <1>3 DEF Delete, history
    <2> QED BY <1>1, <2>1, <2>2
  <1>4. ASSUME NEW i \in Ips, Login(w, l, i) PROVE LureInv'
    <2> DEFINE j == [Free(l) EXCEPT !.at = "scan", !.ip = i, !.late = l \in gone]
    <2>1. (l \in gone) \in BOOLEAN
      OBVIOUS
    <2>2. ASSUME NEW b \in BOOLEAN
          PROVE  [Free(l) EXCEPT !.at = "scan", !.ip = i, !.late = b] \in Job
      <3> HIDE DEF LureInv
      <3> QED BY DEF Free, Job, JobPoints
    <2>3. j \in Job
      BY <2>1, <2>2, Zenon
    <2>4. j.at = "scan" /\ j.lure = l /\ j.old = {} /\ j.ip = i /\ (j.late => l \in gone)
      BY DEF Free
    <2>5. job' = [job EXCEPT ![w] = j] /\ made' = made
      BY <1>4 DEF Login, history
    <2> HIDE DEF j
    <2> QED BY <1>1, <2>3, <2>4, <2>5
  <1> QED BY <1>2, <1>3, <1>4

\* Steps that touch no job: of the bus, of time, and of a record that expires.
LEMMA JobsRest ==
    ASSUME LureInv, UNCHANGED <<job, lock, active, stamp, triggered, history>>,
           calls' \in Nat, crashes' \in Nat, faults' \in Nat,
           \/ count' = count
           \/ \E l \in Lures : count' = [count EXCEPT ![l] = NoRecord]
    PROVE  LureInv'
  <1>1. UNCHANGED <<made, gone, hits>>
    BY DEF history
  <1>2. count' \in [Lures -> Nat \cup {NoRecord}] /\ TriggersCounted'
    BY <1>1 DEF LureInv, LureTypeOK, TriggersCounted
  <1> QED BY <1>1, <1>2 DEF LureInv, LureTypeOK, JobsInv, JobOK, JobsApart, LuresInOrder

LEMMA CrashLures == LureInv /\ Crash => LureInv'
  <1> SUFFICES ASSUME LureInv, Crash PROVE LureInv'
    OBVIOUS
  <1>1. /\ job' = [w \in Workers |-> NoJob] /\ lock' = {} /\ crashes' \in Nat
        /\ UNCHANGED <<count, active, stamp, triggered, calls, faults, made, gone, hits>>
    BY DEF Crash, store, history, LureInv, LureTypeOK
  <1>2. job' \in [Workers -> Job] /\ JobsInv'
    BY <1>1, NoJobType DEF JobsInv, JobOK, JobsApart, Holding, Logins, Known, Planting
  <1> QED BY <1>1, <1>2 DEF LureInv, LureTypeOK, LuresInOrder, TriggersCounted

LEMMA StepInv == Inv /\ [Next]_vars => Inv'
  <1> SUFFICES ASSUME Inv, [Next]_vars PROVE Inv'
    OBVIOUS
  <1> USE DEF Inv
  <1>t. calls \in Nat /\ crashes \in Nat /\ faults \in Nat
    BY DEF LureInv, LureTypeOK
  <1>1. ASSUME NEW w \in Workers, NEW i \in Ips, NEW k \in Kinds, Event(w, i, k) PROVE Inv'
    <2>1. k \in AllKinds
      BY BusBounds
    <2>2. BusInv'
      BY <1>1, <2>1, PublishBus DEF Event
    <2>3. LureInv'
      BY <1>t, <1>1, JobsRest DEF Event, Begin, store
    <2> QED BY <2>2, <2>3
  <1>2. ASSUME NEW w \in Workers, NEW l \in Lures,
               Plant(w, l) \/ Delete(w, l) \/ \E i \in Ips : Login(w, l, i)
        PROVE  Inv'
    <2>1. UNCHANGED busVars
      BY <1>2 DEF Plant, Delete, Login
    <2> QED BY <1>2, <2>1, OtherBus, TakeUp
  <1>3. ASSUME NEW w \in Workers, Publishing(w) \/ PublishFails(w) PROVE Inv'
    <2>1. BusInv'
      BY <1>3, StepBus DEF Publishing, PublishFails
    <2>2. LureInv'
      BY <1>t, <1>3, JobsRest DEF Publishing, PublishFails, Fault, store, env
    <2> QED BY <2>1, <2>2
  <1>4. ASSUME NEW w \in Workers, Trigger(w) \/ Store(w) \/ Deletion(w) \/ JobFails(w)
        PROVE  Inv'
    <2>1. LureInv'
      BY <1>4, JobStep, StoreStep, PlantStep DEF Trigger, Store, Deletion
    <2>2. BusInv'
      <3>1. CASE Mark(w)
        <4>1. job[w].at = "mark" /\ JobOK(w)
          BY <3>1 DEF Mark, JobAt, LureInv, JobsInv
        <4>2. job[w].ip \in Ips /\ "lure" \in AllKinds
          BY <4>1 DEF JobOK, Logins, Holding, AllKinds
        <4> QED BY <3>1, <4>2, PublishBus DEF Mark
      <3>2. CASE ~Mark(w)
        <4>1. UNCHANGED busVars
          BY <1>4, <3>2
             DEF Trigger, Store, Deletion, Scan, Get, Acquire, Read, Write, Told, SetRecord, Add,
                 Card, Excess, Evict, Drop, Check, DeleteRecord, Unlist, Forget, JobFails
        <4> QED BY <4>1, OtherBus
      <3> QED BY <3>1, <3>2
    <2> QED BY <2>1, <2>2
  <1>5. ASSUME NEW l \in Lures, Expire(l) PROVE Inv'
    <2>1. UNCHANGED busVars
      BY <1>5 DEF Expire
    <2>2. LureInv'
      BY <1>t, <1>5, JobsRest DEF Expire, env
    <2> QED BY <2>1, <2>2, OtherBus
  <1>6. CASE Passing
    <2>1. BusInv'
      BY <1>6, TickBus, OtherBus DEF Passing
    <2>2. LureInv'
      BY <1>t, <1>6, JobsRest DEF Passing, store, env
    <2> QED BY <2>1, <2>2
  <1>7. CASE Crash
    BY <1>7, CrashLures, OtherBus DEF Crash
  <1>8. CASE UNCHANGED vars
    <2>1. LureInv'
      BY <1>t, <1>8, JobsRest DEF vars, store, env
    <2> QED BY <1>8, <2>1, OtherBus DEF vars
  <1> QED BY <1>1, <1>2, <1>3, <1>4, <1>5, <1>6, <1>7, <1>8 DEF Next

LEMMA InitInv == Init => Inv
  <1> SUFFICES ASSUME Init PROVE Inv
    OBVIOUS
  <1>1. BusInv
    BY InitBus DEF Init
  <1>2. job \in [Workers -> Job] /\ JobsInv
    BY NoJobType DEF Init, JobsInv, JobOK, JobsApart, Holding, Logins, Known, Planting
  <1> QED BY <1>1, <1>2 DEF Init, Inv, LureInv, LureTypeOK, LuresInOrder, TriggersCounted

\* Every variable of the lures and of the bus keeps its type: the list of an
\* address never holds more than IpMax events, and what is gone was planted.
THEOREM LureTypeCorrect == Spec => []TypeOK
  BY InitInv, StepInv, TypeParts, PTL DEF Spec

\* What the bus claims is so: a full chain only for an address that hit all
\* three stages within a day; and as long as no publish is cut short, an
\* address whose list shows a pivot is claimed once its publishes are through.
THEOREM ClaimsAreSound == Spec => []ClaimsAreTrue
  <1> DEFINE Undisturbed == crashes = 0 /\ faults = 0
             Claimed == Undisturbed => PivotIsClaimed
  <1>1. Init => Claimed
    <2> SUFFICES ASSUME Init, NEW i \in Ips PROVE ~IsPivot(i)
      BY DEF PivotIsClaimed
    <2>1. seen[i] = <<>>
      BY DEF Init, BusInit
    <2> QED BY <2>1, EmptyNewest DEF IsPivot, Looked
  <1>2. Inv /\ Claimed /\ [Next]_vars => Claimed'
    <2> SUFFICES ASSUME Inv, Claimed, Undisturbed', [Next]_vars PROVE PivotIsClaimed'
      OBVIOUS
    <2>t. BusTypeOK /\ crashes \in Nat /\ faults \in Nat
      BY DEF Inv, BusInv, LureInv, LureTypeOK
    <2>1. ASSUME UNCHANGED <<crashes, faults>> PROVE PivotIsClaimed
      BY <2>1
    <2>2. ASSUME NEW w \in Workers, NEW i \in Ips, NEW k \in Kinds, Event(w, i, k)
          PROVE  PivotIsClaimed'
      <3>1. k \in AllKinds /\ Publish(w, i, k) /\ PivotIsClaimed
        BY <2>1, <2>2, BusBounds DEF Event
      <3> QED BY <2>t, <3>1, PublishCovers
    <2>3. ASSUME NEW w \in Workers, Publishing(w) \/ Mark(w) PROVE PivotIsClaimed'
      <3>1. PivotIsClaimed
        BY <2>1, <2>3 DEF Publishing, Mark, env
      <3>2. CASE Publishing(w)
        BY <2>t, <3>1, <3>2, PublishCovers DEF Publishing
      <3>3. CASE Mark(w)
        <4>1. job[w].ip \in Ips /\ "lure" \in AllKinds
          BY <3>3 DEF Mark, JobAt, Inv, LureInv, JobsInv, JobOK, Logins, Holding, AllKinds
        <4> QED BY <2>t, <3>1, <3>3, <4>1, PublishCovers DEF Mark
      <3> QED BY <2>3, <3>2, <3>3
    <2>4. ASSUME UNCHANGED busVars, UNCHANGED <<crashes, faults>> PROVE PivotIsClaimed'
      BY <2>t, <2>1, <2>4, TimeCovers
    <2>5. ASSUME NEW w \in Workers, Trigger(w) \/ Store(w) \/ Deletion(w), ~Mark(w)
          PROVE  PivotIsClaimed'
      <3>1. UNCHANGED busVars /\ UNCHANGED <<crashes, faults>>
        BY <2>5
           DEF Trigger, Store, Deletion, Scan, Get, Acquire, Read, Write, Told, SetRecord, Add,
               Card, Excess, Evict, Drop, Check, DeleteRecord, Unlist, Forget, env
      <3> QED BY <2>4, <3>1
    <2>6. ASSUME NEW w \in Workers, NEW l \in Lures,
                 Plant(w, l) \/ Delete(w, l) \/ \E i \in Ips : Login(w, l, i)
          PROVE  PivotIsClaimed'
      <3>1. UNCHANGED busVars /\ UNCHANGED <<crashes, faults>>
        BY <2>6 DEF Plant, Delete, Login
      <3> QED BY <2>4, <3>1
    <2>7. ASSUME NEW l \in Lures, Expire(l) PROVE PivotIsClaimed'
      BY <2>4, <2>7 DEF Expire, env
    <2>8. CASE Passing
      BY <2>t, <2>1, <2>8, TimeCovers DEF Passing, env
    <2>9. CASE Crash \/ \E w \in Workers : JobFails(w) \/ PublishFails(w)
      BY <2>t, <2>9 DEF Crash, JobFails, PublishFails, Fault
    <2>10. CASE UNCHANGED vars
      BY <2>4, <2>10 DEF vars, env
    <2> QED BY <2>2, <2>3, <2>5, <2>6, <2>7, <2>8, <2>9, <2>10 DEF Next, Trigger
  <1>3. Inv /\ Claimed => ClaimsAreTrue
    BY DEF Inv, BusInv, ClaimsAreTrue
  <1> QED BY <1>1, <1>2, <1>3, InitInv, StepInv, PTL DEF Spec

\* As long as a lure has a record, the record counts each of its triggers.
THEOREM TriggersNeverLost == Spec => []TriggersCounted
  <1>1. Inv => TriggersCounted
    BY DEF Inv, LureInv
  <1> QED BY <1>1, InitInv, StepInv, PTL DEF Spec

\* A login that begins after its lure was deleted or evicted never counts on
\* it, even when a trigger has written the lure's record back.
THEOREM GoneIsQuiet == Spec => QuietOnceGone
  <1> DEFINE Quiet == \A l \in Lures : hits'[l] > hits[l] =>
                 \E w \in Workers : job[w].lure = l /\ job[w].at = "write" /\ ~job[w].late
  <1>1. Inv /\ [Next]_vars => [Quiet]_vars
    <2> SUFFICES ASSUME Inv, Next, NEW l \in Lures, hits'[l] > hits[l]
                 PROVE  \E w \in Workers :
                            job[w].lure = l /\ job[w].at = "write" /\ ~job[w].late
      OBVIOUS
    <2>0. hits \in [Lures -> Nat]
      BY DEF Inv, LureInv, LureTypeOK
    <2>1. hits' # hits
      BY <2>0
    <2>2. PICK w \in Workers : Write(w)
      <3>1. ASSUME NEW w \in Workers, Trigger(w) \/ Store(w) \/ Deletion(w) PROVE Write(w)
        BY <2>1, <3>1
           DEF Trigger, Store, Deletion, Scan, Get, Acquire, Read, Mark, Told, SetRecord, Add,
               Card, Excess, Evict, Drop, Check, DeleteRecord, Unlist, Forget, history
      <3>2. ASSUME NEW w \in Workers,
                   \/ \E i \in Ips : \E k \in Kinds : Event(w, i, k)
                   \/ \E l2 \in Lures : \/ Plant(w, l2) \/ Delete(w, l2)
                                        \/ \E i \in Ips : Login(w, l2, i)
                   \/ Publishing(w) \/ JobFails(w) \/ PublishFails(w)
            PROVE  FALSE
        BY <2>1, <3>2
           DEF Event, Plant, Delete, Login, Publishing, JobFails, PublishFails, history
      <3>3. ~(\E l2 \in Lures : Expire(l2)) /\ ~Passing /\ ~Crash
        BY <2>1 DEF Expire, Passing, Crash, history
      <3> QED BY <3>1, <3>2, <3>3 DEF Next
    <2>3. job[w].at = "write" /\ hits' = [hits EXCEPT ![job[w].lure] = @ + 1]
      BY <2>2 DEF Write, JobAt
    <2>4. job[w].lure = l
      BY <2>0, <2>3
    <2>5. ~job[w].late
      BY <2>3 DEF Inv, LureInv, JobsInv, JobOK
    <2> QED BY <2>3, <2>4, <2>5
  <1> QED BY <1>1, InitInv, StepInv, PTL DEF Spec, QuietOnceGone

----------------------------------------------------------------------------
(***************************************************************************)
(* How many lures are active.  A plant counts them before it evicts, so    *)
(* that the bound is not inductive: a plant that ends may leave more than  *)
(* the maximum when another has added since it counted.  What is inductive *)
(* is said of every set S of plants that have counted: had they evicted    *)
(* what they are about to, the plants outside S would account for all that *)
(* is active beyond the maximum, and the last plant of S to count sees it. *)
(***************************************************************************)
Storing  == {w \in Workers : job[w].at \in {"card", "excess", "evict", "drop"}}
Evicting == {w \in Workers : job[w].at \in {"excess", "evict", "drop"}}
Losses   == faults + crashes * Cardinality(Workers)
Room(S)  == MaxActive + Cardinality(Storing \ S) + Losses

\* What is active once the plant in hand has evicted what it counted.
Kept(w) == IF job[w].at = "excess" THEN Cardinality(active) - job[w].n
                                   ELSE Cardinality(active \ job[w].old)

EvictsEnough ==
    \A S \in SUBSET Evicting : Cardinality(active) <= Room(S) \/ \E v \in S : Kept(v) <= Room(S)

LEMMA SizeType ==
    /\ \A A \in SUBSET Lures : IsFiniteSet(A) /\ Cardinality(A) \in Nat
    /\ \A S \in SUBSET Workers : IsFiniteSet(S) /\ Cardinality(S) \in Nat
  BY LureBounds, FS_Subset, FS_CardinalityType

LEMMA SubsetSize ==
    /\ \A A \in SUBSET Lures : \A B \in SUBSET A : Cardinality(B) <= Cardinality(A)
    /\ \A S \in SUBSET Workers : \A T \in SUBSET S : Cardinality(T) <= Cardinality(S)
  BY SizeType, FS_Subset

LEMMA RoomType ==
    ASSUME LureTypeOK
    PROVE  /\ Losses \in Nat
           /\ \A S : Room(S) \in Nat /\ MaxActive <= Room(S)
           /\ \A w \in Workers : Kept(w) \in Int /\ Kept(w) <= Cardinality(active)
  <1>1. Cardinality(Workers) \in Nat /\ \A S : Cardinality(Storing \ S) \in Nat
    BY SizeType DEF Storing
  <1>2. Losses \in Nat
    <2>1. \A a, b \in Nat : a * b \in Nat
      OBVIOUS
    <2> QED BY <1>1, <2>1 DEF Losses, LureTypeOK
  <1>3. ASSUME NEW w \in Workers PROVE Kept(w) \in Int /\ Kept(w) <= Cardinality(active)
    <2>1. Cardinality(active) \in Nat /\ job[w].n \in Nat
      BY SizeType DEF LureTypeOK, Job
    <2>2. /\ Cardinality(active \ job[w].old) \in Nat
          /\ Cardinality(active \ job[w].old) <= Cardinality(active)
      BY SizeType, SubsetSize DEF LureTypeOK
    <2> QED BY <2>1, <2>2 DEF Kept
  <1> QED BY <1>1, <1>2, <1>3, LureBounds DEF Room

\* ZRANGE gives as many of the oldest as it is asked for, if there are so many.
LEMMA LowestSize ==
    ASSUME LureTypeOK, NEW n \in Nat
    PROVE  \/ Cardinality(active \ Lowest(n)) = 0
           \/ Cardinality(active \ Lowest(n)) <= Cardinality(active) - n
  <1> DEFINE Below(l) == {m \in active : stamp[m] < stamp[l]}
             high     == active \ Lowest(n)
             T        == {Below(l) : l \in high}
  <1>1. CASE high = {}
    BY <1>1, FS_EmptySet
  <1>2. CASE high # {}
    <2>1. IsFiniteSet(active)
      BY SizeType DEF LureTypeOK
    <2>2. IsWellFoundedOn(StrictSubsetOrdering(active), SUBSET active)
      BY <2>1, FS_StrictSubsetOrderingWellFounded, FS_FiniteSubsetsOfFinite
    <2>3. T \subseteq SUBSET active /\ T # {}
      BY <1>2
    <2>4. PICK x \in T : \A y \in T : ~(<<y, x>> \in StrictSubsetOrdering(active))
      BY <2>2, <2>3, WFMin
    <2>5. PICK l \in high : x = Below(l)
      BY <2>4
    <2>6. ASSUME NEW m \in Below(l), m \notin Lowest(n) PROVE FALSE
      <3>1. m \in high /\ Below(m) \in T
        BY <2>6
      <3>2. Below(m) \subseteq Below(l)
        BY <2>6, <3>1 DEF LureTypeOK
      <3>3. m \notin Below(m) /\ m \in Below(l)
        BY <2>6 DEF LureTypeOK
      <3>4. <<Below(m), Below(l)>> \in StrictSubsetOrdering(active)
        BY <3>2, <3>3 DEF StrictSubsetOrdering
      <3> QED BY <2>4, <2>5, <3>1, <3>4
    <2>7. Below(l) \subseteq Lowest(n) /\ Lowest(n) \subseteq active /\ active \subseteq Lures
      BY <2>6 DEF Lowest, LureTypeOK
    <2>8. ~(Cardinality(Below(l)) < n)
      BY <2>5 DEF Lowest
    <2>9. /\ Cardinality(Below(l)) \in Nat /\ Cardinality(Lowest(n)) \in Nat
          /\ Cardinality(active) \in Nat
          /\ Cardinality(Below(l)) <= Cardinality(Lowest(n))
      BY <2>7, SizeType, SubsetSize
    <2>10. Cardinality(active \ Lowest(n)) = Cardinality(active) - Cardinality(Lowest(n))
      <3>1. active \cap Lowest(n) = Lowest(n)
        BY <2>7
      <3> QED BY <2>1, <3>1, FS_Difference
    <2> HIDE DEF Below
    <2> QED BY <2>8, <2>9, <2>10
  <1> QED BY <1>1, <1>2

\* Steps in which no plant begins to store, counts or ends.
LEMMA NoneEnds ==
    ASSUME LureTypeOK, LureTypeOK', EvictsEnough, Losses' = Losses,
           active' \subseteq active, Storing' = Storing, Evicting' = Evicting,
           \A v \in Evicting : Kept(v)' <= Kept(v) \/ Kept(v)' <= MaxActive
    PROVE  EvictsEnough'
  <1> SUFFICES ASSUME NEW S \in SUBSET Evicting
               PROVE  \/ Cardinality(active') <= Room(S)'
                      \/ \E v \in S : Kept(v)' <= Room(S)'
    BY DEF EvictsEnough
  <1>1. Room(S)' = Room(S) /\ Room(S) \in Nat /\ MaxActive <= Room(S)
    BY RoomType DEF Room
  <1>2. /\ Cardinality(active) \in Nat /\ Cardinality(active') \in Nat
        /\ Cardinality(active') <= Cardinality(active)
    BY SizeType, SubsetSize DEF LureTypeOK
  <1>3. CASE Cardinality(active) <= Room(S)
    BY <1>1, <1>2, <1>3
  <1>4. ASSUME NEW v \in S, Kept(v) <= Room(S) PROVE Kept(v)' <= Room(S)'
    <2>1. Kept(v) \in Int /\ Kept(v)' \in Int
      <3>1. v \in Workers
        BY DEF Evicting
      <3>2. Cardinality(active \ job[v].old) \in Nat /\ Cardinality(active' \ job'[v].old) \in Nat
        BY SizeType DEF LureTypeOK
      <3>3. job[v].n \in Nat /\ job'[v].n \in Nat
        BY <3>1 DEF LureTypeOK, Job
      <3> QED BY <1>2, <3>2, <3>3 DEF Kept
    <2>2. Kept(v)' <= Kept(v) \/ Kept(v)' <= MaxActive
      BY DEF Evicting
    <2> QED BY <1>1, <1>4, <2>1, <2>2, LureBounds
  <1> QED BY <1>3, <1>4 DEF EvictsEnough

\* A plant that has stored its lure: one more is active, one more is storing.
LEMMA OneAdds ==
    ASSUME LureTypeOK, LureTypeOK', EvictsEnough, Losses' = Losses, NEW w \in Workers, NEW l \in Lures,
           active' = active \cup {l}, w \notin Storing, Storing' = Storing \cup {w},
           Evicting' = Evicting, \A v \in Evicting : job'[v] = job[v]
    PROVE  EvictsEnough'
  <1> SUFFICES ASSUME NEW S \in SUBSET Evicting
               PROVE  \/ Cardinality(active') <= Room(S)'
                      \/ \E v \in S : Kept(v)' <= Room(S)'
    BY DEF EvictsEnough
  <1>1. Room(S)' = Room(S) + 1 /\ Room(S) \in Nat
    <2>1. Storing' \ S = (Storing \ S) \cup {w} /\ w \notin Storing \ S
      BY DEF Storing, Evicting
    <2>2. Cardinality(Storing' \ S) = Cardinality(Storing \ S) + 1
      <3>1. IsFiniteSet(Storing \ S)
        BY SizeType DEF Storing
      <3> QED BY <2>1, <3>1, FS_AddElement
    <2>3. Cardinality(Storing \ S) \in Nat
      BY SizeType DEF Storing
    <2> QED BY <2>2, <2>3, RoomType, LureBounds DEF Room
  <1>2. \A A \in SUBSET Lures : /\ Cardinality(A \cup {l}) <= Cardinality(A) + 1
                                /\ Cardinality(A) \in Nat /\ Cardinality(A \cup {l}) \in Nat
    <2>1. ASSUME NEW A \in SUBSET Lures
          PROVE  /\ Cardinality(A \cup {l}) <= Cardinality(A) + 1
                 /\ Cardinality(A) \in Nat /\ Cardinality(A \cup {l}) \in Nat
      BY SizeType, FS_AddElement
    <2> QED BY <2>1
  <1>3. CASE Cardinality(active) <= Room(S)
    <2>1. Cardinality(active') <= Cardinality(active) + 1 /\ Cardinality(active) \in Nat
          /\ Cardinality(active') \in Nat
      BY <1>2 DEF LureTypeOK
    <2> QED BY <1>1, <1>3, <2>1
  <1>4. ASSUME NEW v \in S, Kept(v) <= Room(S) PROVE Kept(v)' <= Room(S)'
    <2>1. job'[v] = job[v] /\ job[v].n \in Nat /\ v \in Workers
      BY DEF Evicting, LureTypeOK, Job
    <2>2. /\ Cardinality(active') <= Cardinality(active) + 1
          /\ Cardinality(active) \in Nat /\ Cardinality(active') \in Nat
      BY <1>2 DEF LureTypeOK
    <2>3. /\ Cardinality(active' \ job[v].old) <= Cardinality(active \ job[v].old) + 1
          /\ Cardinality(active \ job[v].old) \in Nat /\ Cardinality(active' \ job[v].old) \in Nat
      <3> DEFINE A == active \ job[v].old
                 B == active' \ job[v].old
      <3>1. A \in SUBSET Lures /\ B \in SUBSET (A \cup {l}) /\ A \cup {l} \in SUBSET Lures
        BY DEF LureTypeOK
      <3> HIDE DEF A, B
      <3>2. Cardinality(B) <= Cardinality(A \cup {l}) /\ Cardinality(B) \in Nat
        BY <3>1, SubsetSize, SizeType
      <3>3. Cardinality(B) <= Cardinality(A) + 1 /\ Cardinality(A) \in Nat
        BY <1>2, <3>1, <3>2
      <3> QED BY <3>2, <3>3 DEF A, B
    <2> QED BY <1>1, <1>4, <2>1, <2>2, <2>3 DEF Kept
  <1> QED BY <1>3, <1>4 DEF EvictsEnough

\* A plant that ends, or is cut short: what is left is within the maximum, or it
\* has evicted all it counted, or its failure is counted instead of it.
LEMMA OneEnds ==
    ASSUME LureTypeOK, LureTypeOK', EvictsEnough, NEW w \in Workers, active' = active,
           Storing' = Storing \ {w}, Evicting' = Evicting \ {w},
           \A v \in Workers \ {w} : job'[v] = job[v],
           \/ Losses' = Losses /\ Cardinality(active) <= MaxActive
           \/ Losses' = Losses /\ w \in Evicting /\ job[w].at # "excess" /\ job[w].old = {}
           \/ Losses' = Losses + 1
    PROVE  EvictsEnough'
  <1> SUFFICES ASSUME NEW S \in SUBSET Evicting, w \notin S
               PROVE  \/ Cardinality(active) <= Room(S)'
                      \/ \E v \in S : Kept(v) <= Room(S)'
    <2> SUFFICES ASSUME NEW S \in SUBSET (Evicting \ {w})
                 PROVE  \/ Cardinality(active) <= Room(S)'
                        \/ \E v \in S : Kept(v)' <= Room(S)'
      BY DEF EvictsEnough
    <2>1. \A v \in S : Kept(v)' = Kept(v)
      BY DEF Kept, Evicting
    <2> QED BY <2>1
  <1>1. /\ Cardinality(active) \in Nat /\ \A v \in S : Kept(v) \in Int
        /\ Room(S) \in Nat /\ Losses \in Nat
    BY RoomType, SizeType DEF LureTypeOK, Evicting
  <1>5. Room(S)' \in Nat /\ MaxActive <= Room(S)' /\ MaxActive \in Nat
    <2>1. Cardinality(Storing' \ S) \in Nat
      BY SizeType DEF Storing
    <2>2. Losses' \in Nat
      BY <1>1
    <2>3. Room(S)' = MaxActive + Cardinality(Storing' \ S) + Losses'
      BY DEF Room
    <2> QED BY <2>1, <2>2, <2>3, LureBounds
  <1>2. CASE Losses' = Losses /\ Cardinality(active) <= MaxActive
    BY <1>1, <1>2, <1>5
  <1>3. CASE Losses' = Losses /\ w \in Evicting /\ job[w].at # "excess" /\ job[w].old = {}
    <2>1. Room(S)' = Room(S \cup {w})
      <3>1. Storing' \ S = Storing \ (S \cup {w})
        OBVIOUS
      <3> QED BY <1>3, <3>1 DEF Room
    <2>2. Kept(w) = Cardinality(active)
      <3>1. active \ job[w].old = active
        BY <1>3
      <3> QED BY <1>3, <3>1 DEF Kept
    <2>3. \/ Cardinality(active) <= Room(S \cup {w})
          \/ \E v \in S \cup {w} : Kept(v) <= Room(S \cup {w})
      <3>1. S \cup {w} \in SUBSET Evicting
        BY <1>3
      <3> QED BY <3>1 DEF EvictsEnough
    <2> QED BY <2>1, <2>2, <2>3
  <1>4. CASE Losses' = Losses + 1
    <2>1. Room(S) <= Room(S)'
      <3>1. Storing' \ S = (Storing \ S) \ {w}
        OBVIOUS
      <3>2. IsFiniteSet(Storing \ S) /\ Cardinality(Storing \ S) \in Nat
        BY SizeType DEF Storing
      <3>3. Cardinality(Storing \ S) <= Cardinality(Storing' \ S) + 1
            /\ Cardinality(Storing' \ S) \in Nat
        <4>1. Cardinality((Storing \ S) \ {w}) \in Nat
          BY SizeType DEF Storing
        <4>2. \/ Cardinality((Storing \ S) \ {w}) = Cardinality(Storing \ S)
              \/ Cardinality((Storing \ S) \ {w}) = Cardinality(Storing \ S) - 1
          BY <3>2, FS_RemoveElement
        <4>3. Cardinality(Storing' \ S) = Cardinality((Storing \ S) \ {w})
          BY <3>1
        <4> QED BY ONLY <3>2, <4>1, <4>2, <4>3
      <3> QED BY <1>1, <1>4, <1>5, <3>2, <3>3 DEF Room
    <2>2. Cardinality(active) <= Room(S) \/ \E v \in S : Kept(v) <= Room(S)
      BY DEF EvictsEnough
    <2> QED BY <1>1, <1>5, <2>1, <2>2
  <1> QED BY <1>2, <1>3, <1>4

\* How a step that moves one job changes who stores and who evicts.
LEMMA OneMoves ==
    ASSUME NEW w \in Workers, \A v \in Workers \ {w} : job'[v] = job[v]
    PROVE  /\ Storing' = IF job'[w].at \in {"card", "excess", "evict", "drop"}
                           THEN Storing \cup {w} ELSE Storing \ {w}
           /\ Evicting' = IF job'[w].at \in {"excess", "evict", "drop"}
                            THEN Evicting \cup {w} ELSE Evicting \ {w}
  BY DEF Storing, Evicting

LEMMA CardCounts ==
    ASSUME LureTypeOK, LureTypeOK', EvictsEnough, NEW w \in Workers, Card(w) PROVE EvictsEnough'
  <1>0. job[w].at = "card" /\ active' = active /\ Losses' = Losses /\ w \in Storing \ Evicting
    BY DEF Card, JobAt, store, env, Losses, Storing, Evicting
  <1>1. CASE Cardinality(active) > MaxActive
    <2> DEFINE m == Cardinality(active) - MaxActive
    <2>1. job' = [job EXCEPT ![w].at = "excess", ![w].n = m]
      BY <1>1 DEF Card
    <2>2. Cardinality(active) \in Nat /\ MaxActive \in Nat
      BY SizeType, LureBounds DEF LureTypeOK
    <2>3. job'[w].at = "excess" /\ job'[w].n = m /\ \A v \in Workers \ {w} : job'[v] = job[v]
      BY <2>1 DEF LureTypeOK, Job
    <2>4. Storing' = Storing /\ Evicting' = Evicting \cup {w}
      BY <1>0, <2>3, OneMoves
    <2> SUFFICES ASSUME NEW S \in SUBSET Evicting'
                 PROVE  \/ Cardinality(active) <= Room(S)'
                        \/ \E v \in S : Kept(v)' <= Room(S)'
      BY <1>0 DEF EvictsEnough
    <2>5. Room(S)' = Room(S) /\ Room(S) \in Nat /\ MaxActive <= Room(S)
      BY <1>0, <2>4, RoomType DEF Room
    <2>6. CASE w \in S
      <3>1. Kept(w)' = Cardinality(active) - m
        BY <1>0, <2>3 DEF Kept
      <3> QED BY <2>2, <2>5, <2>6, <3>1
    <2>7. CASE w \notin S
      <3>1. S \in SUBSET Evicting /\ \A v \in S : v \in Workers \ {w}
        BY <2>4, <2>7 DEF Evicting
      <3>2. \A v \in S : Kept(v)' = Kept(v)
        BY <1>0, <2>3, <3>1 DEF Kept
      <3> QED BY <2>5, <3>1, <3>2 DEF EvictsEnough
    <2> QED BY <2>6, <2>7
  <1>2. CASE ~(Cardinality(active) > MaxActive)
    <2>1. JobEnds(w)
      BY <1>2 DEF Card
    <2>2. Storing' = Storing \ {w} /\ Evicting' = Evicting \ {w}
          /\ \A v \in Workers \ {w} : job'[v] = job[v]
      BY <2>1, OneMoves, JobEndsType
    <2>3. Cardinality(active) <= MaxActive
      BY <1>2, SizeType, LureBounds DEF LureTypeOK
    <2> QED BY <1>0, <2>2, <2>3, OneEnds
  <1> QED BY <1>1, <1>2

LEMMA EvictionSteps ==
    ASSUME LureInv, LureTypeOK', EvictsEnough, NEW w \in Workers,
           Add(w) \/ Excess(w) \/ Evict(w) \/ Drop(w)
    PROVE  EvictsEnough'
  <1> USE DEF LureInv
  <1>0. Losses' = Losses
    BY DEF Add, Excess, Evict, Drop, env, Losses
  <1>1. CASE Add(w)
    <2>1. job[w].at = "add" /\ JobTo(w, "card") /\ active' = active \cup {job[w].lure}
      BY <1>1 DEF Add, JobAt
    <2>2. job[w].lure \in Lures
      BY <2>1 DEF JobsInv, JobOK
    <2>3. job'[w].at = "card" /\ \A v \in Workers \ {w} : job'[v] = job[v]
      BY <2>1, JobToType DEF JobPoints
    <2>4. w \notin Storing /\ w \notin Evicting
      BY <2>1 DEF Storing, Evicting
    <2>5. Storing' = Storing \cup {w} /\ Evicting' = Evicting \ {w}
      BY <2>3, OneMoves
    <2>6. Evicting' = Evicting /\ \A v \in Evicting : job'[v] = job[v]
      BY <2>3, <2>4, <2>5 DEF Evicting
    <2> QED BY <1>0, <2>1, <2>2, <2>4, <2>5, <2>6, OneAdds
  <1>2. CASE Excess(w)
    <2>1. /\ job[w].at = "excess" /\ active' = active
          /\ job' = [job EXCEPT ![w].at = "evict", ![w].old = Lowest(job[w].n)]
      BY <1>2 DEF Excess, JobAt, store
    <2>2. /\ job'[w].at = "evict" /\ job'[w].old = Lowest(job[w].n)
          /\ \A v \in Workers \ {w} : job'[v] = job[v]
      BY <2>1 DEF LureTypeOK, Job
    <2>3. Storing' = Storing /\ Evicting' = Evicting
      <3>1. w \in Storing /\ w \in Evicting
        BY <2>1 DEF Storing, Evicting
      <3> QED BY <2>2, <3>1, OneMoves
    <2>4. Kept(w)' <= Kept(w) \/ Kept(w)' <= MaxActive
      <3>1. job[w].n \in Nat
        BY DEF LureTypeOK, Job
      <3>2. Kept(w)' = Cardinality(active \ Lowest(job[w].n))
        BY <2>1, <2>2 DEF Kept
      <3>3. Kept(w) = Cardinality(active) - job[w].n
        BY <2>1 DEF Kept
      <3> QED BY <3>1, <3>2, <3>3, LowestSize, LureBounds
    <2>5. \A v \in Evicting : Kept(v)' <= Kept(v) \/ Kept(v)' <= MaxActive
      <3>1. ASSUME NEW v \in Evicting, v # w PROVE Kept(v)' <= Kept(v)
        <4>1. v \in Workers /\ job'[v] = job[v]
          BY <2>2, <3>1 DEF Evicting
        <4>2. Kept(v)' = Kept(v)
          <5>1. active' = active
            BY <2>1
          <5> QED BY ONLY <4>1, <5>1 DEF Kept
        <4>3. Kept(v) \in Int
          BY <4>1, RoomType
        <4> QED BY <4>2, <4>3
      <3> QED BY <2>4, <3>1
    <2> QED BY <1>0, <2>1, <2>3, <2>5, NoneEnds
  <1>3. CASE Evict(w)
    <2>1. job[w].at = "evict" /\ active' = active /\ w \in Storing /\ w \in Evicting
      BY <1>3 DEF Evict, JobAt, Storing, Evicting
    <2>2. CASE job[w].old = {}
      <3>1. JobEnds(w)
        BY <1>3, <2>2 DEF Evict
      <3>2. Storing' = Storing \ {w} /\ Evicting' = Evicting \ {w}
            /\ \A v \in Workers \ {w} : job'[v] = job[v]
        BY <3>1, OneMoves, JobEndsType
      <3> QED BY <1>0, <2>1, <2>2, <3>2, OneEnds
    <2>3. CASE job[w].old # {}
      <3>1. JobTo(w, "drop")
        BY <1>3, <2>3 DEF Evict
      <3>2. /\ job'[w].at = "drop" /\ job'[w].old = job[w].old
            /\ \A v \in Workers \ {w} : job'[v] = job[v]
        BY <3>1, JobToType DEF JobPoints
      <3>3. Storing' = Storing /\ Evicting' = Evicting
        BY <2>1, <3>2, OneMoves
      <3>4. \A v \in Evicting : Kept(v)' = Kept(v) /\ Kept(v) \in Int
        BY <2>1, <3>2, RoomType DEF Kept, Evicting
      <3>5. \A v \in Evicting : Kept(v)' <= Kept(v)
        BY <3>4
      <3> QED BY <1>0, <2>1, <3>3, <3>5, NoneEnds
    <2> QED BY <2>2, <2>3
  <1>4. CASE Drop(w)
    <2>1. PICK l \in First(job[w].old) :
             /\ job' = [job EXCEPT ![w].at = "evict", ![w].old = @ \ {l}]
             /\ active' = active \ {l}
      BY <1>4 DEF Drop
    <2>2. job[w].at = "drop" /\ w \in Storing /\ w \in Evicting
      BY <1>4 DEF Drop, JobAt, Storing, Evicting
    <2>3. /\ job'[w].at = "evict" /\ job'[w].old = job[w].old \ {l}
          /\ \A v \in Workers \ {w} : job'[v] = job[v]
      BY <2>1 DEF LureTypeOK, Job
    <2>4. Storing' = Storing /\ Evicting' = Evicting
      <3>1. Storing' = Storing \cup {w} /\ Evicting' = Evicting \cup {w}
        BY <2>3, OneMoves
      <3> QED BY <2>2, <3>1
    <2>5. ASSUME NEW v \in Evicting PROVE Kept(v)' <= Kept(v)
      <3>1. CASE v = w
        <4>1. active' \ job'[w].old = active \ job[w].old
          BY <2>1, <2>3 DEF First
        <4>2. Kept(w)' = Kept(w) /\ Kept(w) \in Int
          BY <2>2, <2>3, <4>1, RoomType DEF Kept
        <4> QED BY <3>1, <4>2
      <3>2. CASE v # w
        <4>1. v \in Workers /\ job'[v] = job[v] /\ job[v].n \in Nat
          BY <2>3, <3>2 DEF Evicting, LureTypeOK, Job
        <4>2. /\ Cardinality(active') <= Cardinality(active)
              /\ Cardinality(active') \in Nat /\ Cardinality(active) \in Nat
          BY <2>1, SubsetSize, SizeType DEF LureTypeOK
        <4>3. Cardinality(active' \ job[v].old) <= Cardinality(active \ job[v].old)
          <5>1. active' \ job[v].old \subseteq active \ job[v].old
                /\ active \ job[v].old \in SUBSET Lures
            BY <2>1 DEF LureTypeOK
          <5> QED BY <5>1, SubsetSize
        <4> QED BY <4>1, <4>2, <4>3 DEF Kept
      <3> QED BY <3>1, <3>2
    <2> QED BY <1>0, <2>1, <2>4, <2>5, NoneEnds
  <1> QED BY <1>1, <1>2, <1>3, <1>4

LEMMA EvictsInit == Init => EvictsEnough
  <1> SUFFICES ASSUME Init, NEW S \in SUBSET Evicting PROVE Cardinality(active) <= Room(S)
    BY DEF EvictsEnough
  <1>1. Cardinality(active) = 0
    BY FS_EmptySet DEF Init
  <1>2. Room(S) \in Nat
    BY InitInv, RoomType DEF Inv, LureInv
  <1> QED BY <1>1, <1>2

LEMMA CrashLoses == LureTypeOK /\ EvictsEnough /\ Crash => EvictsEnough'
  <1> SUFFICES ASSUME LureTypeOK, EvictsEnough, Crash PROVE EvictsEnough'
    OBVIOUS
  <1> DEFINE c == Cardinality(Workers)
  <1>1. active' = active /\ Evicting' = {} /\ Storing' = {}
    BY DEF Crash, store, Evicting, Storing, NoJob, Free
  <1>2. c \in Nat /\ Cardinality(Storing) \in Nat /\ Cardinality(Storing) <= c
    BY SizeType, SubsetSize DEF Storing
  <1>3. Losses' = Losses + c /\ Losses \in Nat
    <2>1. crashes' = crashes + 1 /\ faults' = faults
      BY DEF Crash
    <2>2. \A a, b \in Nat : (a + 1) * b = a * b + b /\ a * b \in Nat
      OBVIOUS
    <2>3. Losses' = faults + (crashes + 1) * c
      BY <2>1 DEF Losses
    <2> HIDE DEF c
    <2>4. Losses = faults + crashes * c
      BY DEF Losses, c
    <2> QED BY <1>2, <2>2, <2>3, <2>4 DEF LureTypeOK
  <1>4. Cardinality(active) <= MaxActive + Cardinality(Storing) + Losses
    <2>1. Storing \ {} = Storing
      OBVIOUS
    <2> QED BY <2>1 DEF EvictsEnough, Room
  <1>5. Cardinality(active) \in Nat
    BY SizeType DEF LureTypeOK
  <1>6. Room({})' = MaxActive + Losses'
    <2>1. Cardinality(Storing' \ {}) = 0
      BY <1>1, FS_EmptySet
    <2>2. Losses' \in Nat
      BY <1>2, <1>3
    <2> QED BY <2>1, <2>2, LureBounds DEF Room
  <1> HIDE DEF c
  <1>7. Cardinality(active') <= Room({})'
    BY <1>1, <1>2, <1>3, <1>4, <1>5, <1>6, LureBounds
  <1> QED BY <1>1, <1>7 DEF EvictsEnough

LEMMA EvictsStep == Inv /\ Inv' /\ EvictsEnough /\ [Next]_vars => EvictsEnough'
  <1> SUFFICES ASSUME Inv, Inv', EvictsEnough, [Next]_vars PROVE EvictsEnough'
    OBVIOUS
  <1>t. LureInv /\ LureTypeOK /\ LureTypeOK' /\ JobsInv
    BY DEF Inv, LureInv
  <1>k. \A v \in Evicting : Kept(v) \in Int
    BY <1>t, RoomType DEF Evicting
  <1>1. ASSUME UNCHANGED <<job, active, crashes>>, faults' = faults \/ faults' = faults + 1
        PROVE  EvictsEnough'
    <2>1. Storing' = Storing /\ Evicting' = Evicting /\ \A v \in Evicting : Kept(v)' = Kept(v)
      BY <1>1 DEF Storing, Evicting, Kept
    <2>2. Losses' = Losses \/ Losses' = Losses + 1
      <3>1. \A a, b \in Nat : a * b \in Nat
        OBVIOUS
      <3>2. crashes * Cardinality(Workers) \in Nat /\ faults \in Nat
        BY <1>t, <3>1, SizeType DEF LureTypeOK
      <3> QED BY <1>1, <3>2 DEF Losses
    <2> SUFFICES ASSUME NEW S \in SUBSET Evicting
                 PROVE  \/ Cardinality(active) <= Room(S)'
                        \/ \E v \in S : Kept(v) <= Room(S)'
      BY <1>1, <2>1 DEF EvictsEnough
    <2>3. /\ Room(S) \in Nat /\ Losses \in Nat /\ Cardinality(active) \in Nat
          /\ Cardinality(Storing \ S) \in Nat /\ MaxActive \in Nat
      BY <1>t, RoomType, SizeType, LureBounds DEF LureTypeOK, Storing
    <2>4. Room(S)' = Room(S) \/ Room(S)' = Room(S) + 1
      <3>1. Room(S)' = MaxActive + Cardinality(Storing \ S) + Losses'
        BY <2>1 DEF Room
      <3>2. Room(S) = MaxActive + Cardinality(Storing \ S) + Losses
        BY DEF Room
      <3> QED BY <2>2, <2>3, <3>1, <3>2
    <2>5. Cardinality(active) <= Room(S) \/ \E v \in S : Kept(v) <= Room(S)
      BY DEF EvictsEnough
    <2>6. \A v \in S : Kept(v) \in Int
      BY <1>k
    <2> QED BY <2>3, <2>4, <2>5, <2>6
  <1>2. ASSUME NEW w \in Workers, job[w].at \notin {"card", "excess", "evict", "drop"},
               job'[w].at \notin {"card", "excess", "evict", "drop"},
               \A v \in Workers \ {w} : job'[v] = job[v], active' \subseteq active,
               UNCHANGED <<crashes, faults>>
        PROVE  EvictsEnough'
    <2>1. w \notin Storing /\ w \notin Evicting
      BY <1>2 DEF Storing, Evicting
    <2>2. Storing' = Storing /\ Evicting' = Evicting
      <3>1. Storing' = Storing \ {w} /\ Evicting' = Evicting \ {w}
        BY <1>2, OneMoves
      <3> QED BY <2>1, <3>1
    <2>3. Losses' = Losses
      BY <1>2 DEF Losses
    <2>4. ASSUME NEW v \in Evicting PROVE Kept(v)' <= Kept(v)
      <3>1. job'[v] = job[v] /\ job[v].n \in Nat
        BY <1>2, <1>t, <2>1 DEF Evicting, LureTypeOK, Job
      <3>2. /\ Cardinality(active') <= Cardinality(active)
            /\ Cardinality(active') \in Nat /\ Cardinality(active) \in Nat
        BY <1>2, <1>t, SubsetSize, SizeType DEF LureTypeOK
      <3>3. /\ Cardinality(active' \ job[v].old) <= Cardinality(active \ job[v].old)
        <4>1. active' \ job[v].old \in SUBSET (active \ job[v].old)
              /\ active \ job[v].old \in SUBSET Lures
          BY <1>2, <1>t DEF LureTypeOK
        <4> QED BY <4>1, SubsetSize
      <3> QED BY <3>1, <3>2, <3>3 DEF Kept
    <2> QED BY <1>2, <1>t, <2>2, <2>3, <2>4, NoneEnds
  <1>3. ASSUME NEW w \in Workers, Add(w) \/ Excess(w) \/ Evict(w) \/ Drop(w) \/ Card(w)
        PROVE  EvictsEnough'
    BY <1>3, <1>t, EvictionSteps, CardCounts
  <1>4. ASSUME NEW w \in Workers, NEW l \in Lures,
               Plant(w, l) \/ Delete(w, l) \/ \E i \in Ips : Login(w, l, i)
        PROVE  EvictsEnough'
    <2>1. /\ job[w].at = "idle" /\ active' = active /\ UNCHANGED <<crashes, faults>>
      BY <1>4 DEF Plant, Delete, Login, Begin, JobAt, store
    <2>2. PICK j : job' = [job EXCEPT ![w] = j] /\ j.at \in {"scan", "set", "check"}
      <3>1. \/ job' = [job EXCEPT ![w] = [Free(l) EXCEPT !.at = "set"]]
            \/ job' = [job EXCEPT ![w] = [Free(l) EXCEPT !.at = "check"]]
            \/ \E i \in Ips : job' = [job EXCEPT ![w] = [Free(l) EXCEPT !.at = "scan", !.ip = i,
                                                                        !.late = l \in gone]]
        BY <1>4 DEF Plant, Delete, Login
      <3>2. /\ [Free(l) EXCEPT !.at = "set"].at = "set"
            /\ [Free(l) EXCEPT !.at = "check"].at = "check"
            /\ \A i : [Free(l) EXCEPT !.at = "scan", !.ip = i, !.late = l \in gone].at = "scan"
        BY DEF Free
      <3>3. ASSUME NEW j, job' = [job EXCEPT ![w] = j], j.at = "scan" \/ j.at = "set" \/ j.at = "check"
            PROVE  \E j2 : job' = [job EXCEPT ![w] = j2] /\ j2.at \in {"scan", "set", "check"}
        <4>1. j.at \in {"scan", "set", "check"}
          BY <3>3
        <4> QED BY <3>3, <4>1, Zenon
      <3>4. CASE job' = [job EXCEPT ![w] = [Free(l) EXCEPT !.at = "set"]]
        BY <3>2, <3>3, <3>4
      <3>5. CASE job' = [job EXCEPT ![w] = [Free(l) EXCEPT !.at = "check"]]
        BY <3>2, <3>3, <3>5
      <3>6. ASSUME NEW i \in Ips, job' = [job EXCEPT ![w] = [Free(l) EXCEPT !.at = "scan", !.ip = i,
                                                                        !.late = l \in gone]]
            PROVE  \E j : job' = [job EXCEPT ![w] = j] /\ j.at \in {"scan", "set", "check"}
        BY <3>2, <3>3, <3>6, Zenon
      <3> QED BY <3>1, <3>4, <3>5, <3>6
    <2>3. job'[w].at \in {"scan", "set", "check"} /\ \A v \in Workers \ {w} : job'[v] = job[v]
      BY <1>t, <2>2 DEF LureTypeOK
    <2> QED BY <1>2, <2>1, <2>3
  <1>5. ASSUME NEW w \in Workers, Trigger(w) \/ Deletion(w) \/ SetRecord(w) PROVE EvictsEnough'
    <2>1. /\ UNCHANGED <<crashes, faults>> /\ active' \subseteq active
          /\ job[w].at \notin {"card", "excess", "evict", "drop"}
      BY <1>5 DEF Trigger, Deletion, Scan, Get, Acquire, Read, Write, Mark, Told, SetRecord, Check,
         DeleteRecord, Unlist, Forget, JobAt, store, env
    <2>2. \/ JobEnds(w)
          \/ \E p \in JobPoints \ {"card", "excess", "evict", "drop"} : JobTo(w, p)
          \/ \E n : job' = [job EXCEPT ![w].at = "write", ![w].n = n]
      BY <1>5, Zenon DEF Trigger, Deletion, Scan, Get, Acquire, Read, Write, Mark, Told, SetRecord,
         Check, DeleteRecord, Unlist, Forget, JobPoints
    <2>3. /\ job'[w].at \notin {"card", "excess", "evict", "drop"}
          /\ \A v \in Workers \ {w} : job'[v] = job[v]
      <3>1. CASE JobEnds(w)
        BY <1>t, <3>1, JobEndsType
      <3>2. ASSUME NEW p \in JobPoints \ {"card", "excess", "evict", "drop"}, JobTo(w, p)
            PROVE  /\ job'[w].at \notin {"card", "excess", "evict", "drop"}
                   /\ \A v \in Workers \ {w} : job'[v] = job[v]
        BY <1>t, <3>2, JobToType
      <3>3. ASSUME NEW n, job' = [job EXCEPT ![w].at = "write", ![w].n = n]
            PROVE  /\ job'[w].at \notin {"card", "excess", "evict", "drop"}
                   /\ \A v \in Workers \ {w} : job'[v] = job[v]
        BY <1>t, <3>3 DEF LureTypeOK, Job
      <3> QED BY <2>2, <3>1, <3>2, <3>3
    <2> QED BY <1>2, <2>1, <2>3
  <1>6. ASSUME NEW w \in Workers, JobFails(w) PROVE EvictsEnough'
    <2>1. JobEnds(w) /\ active' = active /\ faults' = faults + 1 /\ crashes' = crashes
      BY <1>6 DEF JobFails, Fault, store
    <2>2. Storing' = Storing \ {w} /\ Evicting' = Evicting \ {w}
          /\ \A v \in Workers \ {w} : job'[v] = job[v]
      BY <1>t, <2>1, OneMoves, JobEndsType
    <2>3. Losses' = Losses + 1
      <3>1. \A a, b \in Nat : a * b \in Nat
        OBVIOUS
      <3>2. crashes * Cardinality(Workers) \in Nat /\ faults \in Nat
        BY <1>t, <3>1, SizeType DEF LureTypeOK
      <3> QED BY <2>1, <3>2 DEF Losses
    <2> QED BY <1>t, <2>1, <2>2, <2>3, OneEnds
  <1>7. CASE \/ \E w \in Workers : \/ \E i \in Ips : \E k \in Kinds : Event(w, i, k)
                                   \/ Publishing(w) \/ PublishFails(w)
             \/ (\E l \in Lures : Expire(l)) \/ Passing \/ UNCHANGED vars
    <2>1. UNCHANGED <<job, active, crashes>> /\ (faults' = faults \/ faults' = faults + 1)
      BY <1>7 DEF Event, Publishing, PublishFails, Fault, Expire, Passing, vars, store, env
    <2> QED BY <1>1, <2>1
  <1>8. CASE Crash
    BY <1>8, <1>t, CrashLoses
  <1> QED BY <1>3, <1>4, <1>5, <1>6, <1>7, <1>8 DEF Next, Store

\* A lure's record counts each of its triggers as long as there is one; and however
\* plants overlap, what is active beyond the maximum is accounted for by plants
\* that are still storing, failed, or were lost in a crash.
THEOREM LuresAreAccountedFor == Spec => []LuresAreTrue
  <1>1. Inv /\ EvictsEnough => LuresAreTrue
    <2> SUFFICES ASSUME Inv, EvictsEnough PROVE ActiveBounded
      BY DEF Inv, LureInv, LuresAreTrue
    <2>1. Cardinality(active) <= Room({})
      BY DEF EvictsEnough
    <2>2. Storing \ {} = Storing
      OBVIOUS
    <2>3. Cardinality(active) <= MaxActive + Cardinality(Storing) + (faults + crashes * Cardinality(Workers))
      BY <2>1, <2>2 DEF Room, Losses
    <2>4. /\ MaxActive \in Nat /\ Cardinality(Storing) \in Nat /\ faults \in Nat
          /\ crashes * Cardinality(Workers) \in Nat /\ Cardinality(active) \in Nat
      <3>1. \A a, b \in Nat : a * b \in Nat
        OBVIOUS
      <3>2. LureTypeOK
        BY DEF Inv, LureInv
      <3> QED BY <3>1, <3>2, SizeType, LureBounds DEF LureTypeOK, Storing
    <2>5. Cardinality(active) <= MaxActive + Cardinality(Storing) + faults
                                 + crashes * Cardinality(Workers)
      BY <2>3, <2>4
    <2> QED BY <2>5 DEF ActiveBounded, Storing
  <1> QED BY <1>1, InitInv, StepInv, EvictsInit, EvictsStep, PTL DEF Spec
=============================================================================
