------------------------------ MODULE WraithMesh ------------------------------
(***************************************************************************)
(* The sensor mesh (packages/wraithmesh): sensors that tail a Cowrie log,  *)
(* roll sessions up by equivalence key and post signed observations, and   *)
(* the aggregator whose threads merge them into campaigns and score the    *)
(* nodes.  A sensor keeps its offset, its rollups, its cooldowns and its   *)
(* epoch on disk, each committed on its own, and the sessions it has open  *)
(* in memory; the aggregator keeps campaigns and a copy of the scores in   *)
(* SQLite and works on the scores in memory.                               *)
(***************************************************************************)
EXTENDS Naturals, Sequences, FiniteSets, Functions

CONSTANTS Nodes, Sessions, Keys,
          KeyOf,         \* the equivalence key of the commands of a session
          TrapKeys,      \* the keys planted by the exchange operator
          Threads,       \* handler threads of the aggregator
          MinCount,      \* manifest: sessions of a key before it is uplinked
          NovelOnly,     \* manifest: only a key's first session is uplinked
          MaxLines,      \* bound: lines of all the logs together
          MaxDeaths,     \* bound: crashes of either side, and saves that fail
          MaxCooldowns,  \* bound: cooldowns that run out
          MaxStrays      \* bound: observations to be refused, and half lines

ASSUME MeshAssumption ==
    /\ KeyOf \in [Sessions -> Keys \ TrapKeys] /\ TrapKeys \subseteq Keys
    /\ NovelOnly \in BOOLEAN
    /\ {MinCount, MaxLines, MaxDeaths, MaxCooldowns, MaxStrays} \subseteq Nat

(* Scores, in hundredths. *)
Initial == 10
Bonus   == 8
Penalty == 50
Top     == 100

VARIABLES
    log,        \* what Cowrie has written on each node
    half,       \* the last line of the log is still being written
    saved,      \* the offset file
    pos,        \* the line the process reads next
    open,       \* sessions with commands in the memory of the process
    seen,       \* rollups: sessions counted, per node and key
    torn,       \* history: lines the process passed while half was written
    cooling,    \* keys uplinked within the cooldown, per node
    epoch,      \* the node's epoch
    once,       \* the node runs its sensor with --once, again and again
    at,         \* where the sensor process is
    hand,       \* the observations it has made and not had answered
    up,         \* the aggregator serves
    handler,    \* its handler threads
    record,     \* campaigns in SQLite: the nodes that reported a key
    score,      \* scores in memory
    scoreDb,    \* scores in SQLite
    posted,     \* history: epochs posted, per node and key, in this cooldown
    top,        \* history: the highest epoch a node has posted
    stops,      \* history: how often a node's process was stopped short
    deaths, cooldowns, strays

tail       == <<saved, pos, open, seen, once, torn>>
uplink     == <<cooling, epoch, posted, top>>
process    == <<at, hand, stops>>
aggregator == <<up, handler, record, score, scoreDb>>
world      == <<half, deaths, cooldowns, strays>>
vars       == <<log, tail, uplink, process, aggregator, world>>

Elements(s) == {s[i] : i \in DOMAIN s}
Lines    == {"open", "closed"} \X Sessions
Held     == [key : Keys, epoch : Nat]
Idle     == [pc |-> "idle"]
Handling == [pc : {"get", "upsert", "save", "reply", "refuse"}, node : Nodes,
             key : Keys, epoch : Nat, nodes : SUBSET Nodes]

(* Offsets stay within the log, a process that is down holds nothing, and  *)
(* epochs, scores and threads have their types.                            *)
TypeOK ==
    /\ \A n \in Nodes :
        /\ log[n] \in Seq(Lines)
        /\ saved[n] \in 0..pos[n] /\ pos[n] \in 0..Len(log[n])
        /\ half[n] \in BOOLEAN /\ torn[n] \subseteq 1..Len(log[n])
        /\ open[n] \subseteq Sessions /\ cooling[n] \subseteq Keys
        /\ \A k \in Keys : seen[n][k] \in Nat
        /\ epoch[n] \in Nat /\ once[n] \in BOOLEAN /\ stops[n] \in Nat
        /\ at[n] \in {"down", "read", "bump", "mark", "post", "wait"}
        /\ hand[n] \in Seq(Held)
        /\ at[n] = "down" => hand[n] = <<>>
        /\ at[n] \in {"bump", "mark", "post", "wait"} => hand[n] # <<>>
        /\ score[n] \in 0..Top /\ scoreDb[n] \in 0..Top
    /\ up \in BOOLEAN
    /\ \A t \in Threads : handler[t] = Idle \/ (up /\ handler[t] \in Handling)
    /\ record \in [Keys -> SUBSET Nodes]

Init ==
    /\ log = [n \in Nodes |-> <<>>] /\ half = [n \in Nodes |-> FALSE]
    /\ saved = [n \in Nodes |-> 0] /\ pos = saved /\ epoch = saved
    /\ top = saved /\ stops = saved
    /\ open = [n \in Nodes |-> {}] /\ cooling = open /\ torn = open
    /\ seen = [n \in Nodes |-> [k \in Keys |-> 0]]
    /\ once \in [Nodes -> BOOLEAN]
    /\ at = [n \in Nodes |-> "down"] /\ hand = [n \in Nodes |-> <<>>]
    /\ posted = [n \in Nodes |-> [k \in Keys |-> {}]]
    /\ up = TRUE /\ handler = [t \in Threads |-> Idle]
    /\ record = [k \in Keys |-> {}]
    /\ score = [n \in Nodes |-> Initial] /\ scoreDb = score
    /\ deaths = 0 /\ cooldowns = 0 /\ strays = 0

-----------------------------------------------------------------------------
(* Cowrie, external: a session's line with its commands, then its end.  It *)
(* may be seen before the whole of a line is in the file.                  *)
Appends(n) ==
    /\ ~half[n] /\ SumFunction([m \in Nodes |-> Len(log[m])]) < MaxLines
    /\ \E s \in Sessions :
         /\ <<"closed", s>> \notin Elements(log[n])
         /\ log' = [log EXCEPT ![n] = Append(@,
              <<IF <<"open", s>> \in Elements(log[n]) THEN "closed" ELSE "open", s>>)]
    /\ UNCHANGED <<tail, uplink, process, aggregator, deaths, cooldowns>>

Cowrie(n) == Appends(n) /\ UNCHANGED <<half, strays>>

CowrieHalf(n) ==
    /\ strays < MaxStrays /\ strays' = strays + 1
    /\ half' = [half EXCEPT ![n] = TRUE]
    /\ Appends(n)

CowrieRest(n) ==
    /\ half[n] /\ half' = [half EXCEPT ![n] = FALSE]
    /\ UNCHANGED <<log, tail, uplink, process, aggregator, deaths, cooldowns, strays>>

(* A process starts at the offset of the file, with no session in memory. *)
Start(n) ==
    /\ at[n] = "down"
    /\ at' = [at EXCEPT ![n] = "read"]
    /\ pos' = [pos EXCEPT ![n] = saved[n]]
    /\ open' = [open EXCEPT ![n] = {}]
    /\ UNCHANGED <<log, saved, seen, once, torn, hand, stops, uplink, aggregator, world>>

(* readline returns what there is of a line, and the offset moves past it. *)
Reads(n) ==
    /\ at[n] = "read" /\ pos[n] < Len(log[n])
    /\ pos' = [pos EXCEPT ![n] = @ + 1]
Line(n) == log[n][pos[n] + 1]
IsHalf(n) == half[n] /\ pos[n] + 1 = Len(log[n])

(* Half a line is no JSON and is dropped, and so is the rest, which the    *)
(* next pass reads: to the process the line is over.                       *)
ReadTorn(n) ==
    /\ Reads(n) /\ IsHalf(n)
    /\ torn' = [torn EXCEPT ![n] = @ \cup {pos[n] + 1}]
    /\ UNCHANGED <<log, saved, open, seen, once, uplink, process, aggregator, world>>

(* A line; a session that closes without commands is dropped. *)
ReadOpen(n) ==
    /\ Reads(n) /\ ~IsHalf(n)
    /\ LET s == Line(n)[2] IN
         \/ Line(n)[1] = "open" /\ open' = [open EXCEPT ![n] = @ \cup {s}]
         \/ Line(n)[1] = "closed" /\ s \notin open[n] /\ UNCHANGED open
    /\ UNCHANGED <<log, saved, seen, once, torn, uplink, process, aggregator, world>>

(* The rollup is committed first; then the thresholds decide. *)
Uplinks(n, k, count) ==
    (NovelOnly => count = 1) /\ count >= MinCount /\ k \notin cooling[n]

ReadClosed(n) ==
    /\ Reads(n) /\ ~IsHalf(n)
    /\ LET s == Line(n)[2]
           k == KeyOf[s]
           count == seen[n][k] + 1
       IN  /\ Line(n)[1] = "closed" /\ s \in open[n]
           /\ seen' = [seen EXCEPT ![n][k] = count]
           /\ open' = [open EXCEPT ![n] = @ \ {s}]
           /\ IF Uplinks(n, k, count)
                THEN /\ at' = [at EXCEPT ![n] = "bump"]
                     /\ hand' = [hand EXCEPT ![n] = Append(@, [key |-> k, epoch |-> 0])]
                ELSE UNCHANGED <<at, hand>>
    /\ UNCHANGED <<log, saved, once, torn, stops, uplink, aggregator, world>>

(* Mutant: the epoch of an observation is not stored. *)
BumpUnsaved(n) ==
    /\ at[n] = "bump"
    /\ hand' = [hand EXCEPT ![n][Len(hand[n])].epoch = epoch[n] + 1]
    /\ at' = [at EXCEPT ![n] = "mark"]
    /\ UNCHANGED <<log, tail, uplink, stops, aggregator, world>>

(* The epoch is stored before the observation that carries it is signed. *)
Bump(n) ==
    /\ at[n] = "bump"
    /\ epoch' = [epoch EXCEPT ![n] = @ + 1]
    /\ hand' = [hand EXCEPT ![n][Len(hand[n])].epoch = epoch[n] + 1]
    /\ at' = [at EXCEPT ![n] = "mark"]
    /\ UNCHANGED <<log, tail, cooling, posted, top, stops, aggregator, world>>

(* The cooldown starts before the observation is handed over: one by one,  *)
(* or with --once as a list when the whole log has been read.              *)
Mark(n) ==
    /\ at[n] = "mark"
    /\ cooling' = [cooling EXCEPT ![n] = @ \cup {hand[n][Len(hand[n])].key}]
    /\ at' = [at EXCEPT ![n] = IF once[n] THEN "read" ELSE "post"]
    /\ UNCHANGED <<log, tail, epoch, posted, top, hand, stops, aggregator, world>>

(* Mutant: the next pass starts at the old offset. *)
EofUnsaved(n) ==
    /\ at[n] = "read" /\ pos[n] = Len(log[n])
    /\ once[n] \/ saved[n] # pos[n]
    /\ pos' = [pos EXCEPT ![n] = saved[n]]
    /\ at' = [at EXCEPT ![n] = IF ~once[n] THEN "read"
                               ELSE IF hand[n] = <<>> THEN "down" ELSE "post"]
    /\ UNCHANGED <<log, saved, open, seen, once, torn, hand, stops, uplink, aggregator, world>>

(* The offset is saved at the end of the file only. *)
Eof(n) ==
    /\ at[n] = "read" /\ pos[n] = Len(log[n])
    /\ once[n] \/ saved[n] # pos[n]
    /\ saved' = [saved EXCEPT ![n] = pos[n]]
    /\ at' = [at EXCEPT ![n] = IF ~once[n] THEN "read"
                               ELSE IF hand[n] = <<>> THEN "down" ELSE "post"]
    /\ UNCHANGED <<log, pos, open, seen, once, torn, hand, stops, uplink, aggregator, world>>

-----------------------------------------------------------------------------
(* A post reaches a handler thread, which lives on when the sensor gives up. *)
Receives(n, k, e) ==
    /\ up
    /\ \E t \in Threads :
         /\ handler[t] = Idle
         /\ handler' = [handler EXCEPT ![t] =
              [pc |-> "get", node |-> n, key |-> k, epoch |-> e, nodes |-> {}]]

Post(n) ==
    /\ at[n] = "post"
    /\ LET o == Head(hand[n]) IN
         /\ Receives(n, o.key, o.epoch)
         /\ posted' = [posted EXCEPT ![n][o.key] = @ \cup {o.epoch}]
         /\ top' = [top EXCEPT ![n] = o.epoch]
    /\ at' = [at EXCEPT ![n] = "wait"]
    /\ UNCHANGED <<log, tail, cooling, epoch, hand, stops, up, record, score,
                   scoreDb, world>>

(* An observation in a trusted node's name that is to be refused: a key    *)
(* planted in the exported feed, sent back by something other than the     *)
(* sensor above (epoch 0).                                                 *)
Planted(n) ==
    /\ strays < MaxStrays
    /\ strays' = strays + 1
    /\ \E k \in TrapKeys : Receives(n, k, 0)
    /\ UNCHANGED <<log, tail, uplink, process, up, record, score, scoreDb, half,
                   deaths, cooldowns>>

(* Anything but an answer of success raises in the sensor and ends it: the *)
(* observations it held are not posted again.                              *)
Fail(n) ==
    /\ at' = [at EXCEPT ![n] = "down"]
    /\ hand' = [hand EXCEPT ![n] = <<>>]
    /\ stops' = [stops EXCEPT ![n] = @ + 1]

Serves(t, n) == handler[t] # Idle /\ handler[t].node = n
                /\ handler[t].epoch = Head(hand[n]).epoch

NoAnswer(n) ==
    /\ \/ at[n] = "post" /\ ~up
       \/ at[n] = "wait" /\ ~\E t \in Threads : Serves(t, n)
    /\ Fail(n)
    /\ UNCHANGED <<log, tail, uplink, aggregator, world>>

-----------------------------------------------------------------------------
(* Mutant: the penalty has no floor. *)
RefuseDeep(t) ==
    /\ handler[t].pc = "get" /\ handler[t].key \in TrapKeys
    /\ score' = [score EXCEPT ![handler[t].node] = @ - Penalty]
    /\ handler' = [handler EXCEPT ![t].pc = "refuse"]
    /\ UNCHANGED <<log, tail, uplink, process, up, record, scoreDb, world>>

(* A trap key, or a signature that does not verify: refused, at the cost   *)
(* of the reputation of the node named, in memory.                         *)
Refuse(t) ==
    /\ handler[t].pc = "get" /\ handler[t].key \in TrapKeys
    /\ score' = [score EXCEPT ![handler[t].node] = IF @ > Penalty THEN @ - Penalty ELSE 0]
    /\ handler' = [handler EXCEPT ![t].pc = "refuse"]
    /\ UNCHANGED <<log, tail, uplink, process, up, record, scoreDb, world>>

(* Reads the campaign, and credits every node of it when a new one joins;  *)
(* what is written later is merged from this read.                         *)
Credited(k, n) ==
    IF record[k] # {} /\ n \notin record[k] THEN record[k] \cup {n} ELSE {}

(* Mutant: trap keys are merged like the others. *)
GetTrap(t) ==
    /\ handler[t].pc = "get"
    /\ handler' = [handler EXCEPT ![t].pc = "upsert",
                                  ![t].nodes = record[handler[t].key] \cup {handler[t].node}]
    /\ UNCHANGED <<log, tail, uplink, process, up, record, score, scoreDb, world>>

Get(t) ==
    /\ handler[t].pc = "get" /\ handler[t].key \notin TrapKeys
    /\ LET n == handler[t].node
           k == handler[t].key
       IN  /\ handler' = [handler EXCEPT ![t].pc = "upsert",
                                         ![t].nodes = record[k] \cup {n}]
           /\ score' = [m \in Nodes |-> IF m \notin Credited(k, n) THEN score[m]
                                        ELSE IF score[m] + Bonus > Top THEN Top
                                        ELSE score[m] + Bonus]
    /\ UNCHANGED <<log, tail, uplink, process, up, record, scoreDb, world>>

Upsert(t) ==
    /\ handler[t].pc = "upsert"
    /\ record' = [record EXCEPT ![handler[t].key] = handler[t].nodes]
    /\ handler' = [handler EXCEPT ![t].pc = "save"]
    /\ UNCHANGED <<log, tail, uplink, process, up, score, scoreDb, world>>

SaveReputation(t) ==
    /\ handler[t].pc = "save"
    /\ scoreDb' = score
    /\ handler' = [handler EXCEPT ![t].pc = "reply"]
    /\ UNCHANGED <<log, tail, uplink, process, up, record, score, world>>

(* An error while the scores are saved (the threads share the table of     *)
(* nodes and the connection) ends the handler: some of them may be written *)
(* all the same, the campaign is, and the sensor gets no good answer.      *)
SaveFails(t) ==
    /\ handler[t].pc = "save" /\ deaths < MaxDeaths
    /\ deaths' = deaths + 1
    /\ \E written \in SUBSET Nodes :
         scoreDb' = [m \in Nodes |-> IF m \in written THEN score[m] ELSE scoreDb[m]]
    /\ handler' = [handler EXCEPT ![t] = Idle]
    /\ UNCHANGED <<log, tail, uplink, process, up, record, score, half,
                   cooldowns, strays>>

(* The answer, to a sensor that still waits for this observation. *)
Reply(t) ==
    /\ handler[t].pc \in {"reply", "refuse"}
    /\ handler' = [handler EXCEPT ![t] = Idle]
    /\ LET n == handler[t].node IN
         IF at[n] # "wait" \/ ~Serves(t, n) THEN UNCHANGED process
         ELSE /\ hand' = [hand EXCEPT ![n] = Tail(@)]
              /\ at' = [at EXCEPT ![n] = IF ~once[n] THEN "read"
                                         ELSE IF Len(hand[n]) = 1 THEN "down" ELSE "post"]
              /\ UNCHANGED stops
    /\ UNCHANGED <<log, tail, uplink, up, record, score, scoreDb, world>>

-----------------------------------------------------------------------------
(* A sensor killed anywhere; its 15 second timeout ends it the same way. *)
SensorDies(n) ==
    /\ at[n] # "down" /\ deaths < MaxDeaths
    /\ deaths' = deaths + 1
    /\ Fail(n)
    /\ UNCHANGED <<log, tail, uplink, aggregator, half, cooldowns, strays>>

AggregatorDies ==
    /\ up /\ deaths < MaxDeaths
    /\ deaths' = deaths + 1
    /\ up' = FALSE
    /\ handler' = [t \in Threads |-> Idle]
    /\ UNCHANGED <<log, tail, uplink, process, record, score, scoreDb, half,
                   cooldowns, strays>>

AggregatorStarts ==
    /\ ~up /\ up' = TRUE
    /\ score' = scoreDb
    /\ UNCHANGED <<log, tail, uplink, process, handler, record, scoreDb, world>>

(* The cooldown is a day: it does not run out under an observation that is *)
(* about to be posted.                                                     *)
Cooldown(n, k) ==
    /\ k \in cooling[n] /\ cooldowns < MaxCooldowns
    /\ \A i \in DOMAIN hand[n] : hand[n][i].key # k
    /\ cooldowns' = cooldowns + 1
    /\ cooling' = [cooling EXCEPT ![n] = @ \ {k}]
    /\ posted' = [posted EXCEPT ![n][k] = {}]
    /\ UNCHANGED <<log, tail, epoch, top, process, aggregator, half, deaths, strays>>

Handle(t) == handler[t] # Idle /\ (\/ Refuse(t) \/ Get(t) \/ Upsert(t)
                                   \/ SaveReputation(t) \/ SaveFails(t) \/ Reply(t))
Next ==
    \/ \E n \in Nodes :
         \/ Cowrie(n) \/ CowrieHalf(n) \/ CowrieRest(n) \/ Start(n) \/ ReadTorn(n)
         \/ ReadOpen(n) \/ ReadClosed(n) \/ Bump(n) \/ Mark(n) \/ Eof(n) \/ Post(n)
         \/ NoAnswer(n) \/ SensorDies(n) \/ Planted(n)
         \/ \E k \in Keys : Cooldown(n, k)
    \/ \E t \in Threads : Handle(t)
    \/ AggregatorDies \/ AggregatorStarts

Spec == Init /\ [][Next]_vars

-----------------------------------------------------------------------------
(* Over crashes, restarts and lines read again: a node posts a key once in *)
(* a cooldown, and never an epoch it has posted before.                    *)
UplinksAreFresh ==
    \A n \in Nodes :
        /\ \A k \in Keys : Cardinality(posted[n][k]) <= 1
        /\ at[n] = "post" => Head(hand[n]).epoch > top[n]

Closed(n, k, lines) ==
    {s \in Sessions : KeyOf[s] = k /\ <<"closed", s>> \in Elements(lines)}

(* A campaign names only nodes that saw it: each one has a session of that *)
(* key closed in its own log, whatever the threads overwrite.  And a score *)
(* rises only for a node that shares a key with another node's log.        *)
CorroborationIsReal ==
    /\ \A k \in Keys : \A n \in record[k] : Closed(n, k, log[n]) # {}
    /\ \A n \in Nodes : score[n] > Initial =>
         \E m \in Nodes \ {n}, k \in Keys :
            Closed(n, k, log[n]) # {} /\ Closed(m, k, log[m]) # {}

(* Sessions of which the process has read both lines whole. *)
Whole(n, k) ==
    LET read == 1..pos[n] \ torn[n]
    IN  {s \in Sessions : /\ KeyOf[s] = k
                          /\ \E i \in read : log[n][i] = <<"open", s>>
                          /\ \E i \in read : log[n][i] = <<"closed", s>>}

(* A rollup counts each session read once, and once more at most for each  *)
(* time the node's process was stopped before it had saved its offset.     *)
(* When it never was, it counts just the sessions whose lines it read      *)
(* whole: those it passed while Cowrie was writing are lost to it.         *)
RollupCounts ==
    \A n \in Nodes, k \in Keys :
        /\ seen[n][k] <= (1 + stops[n]) * Cardinality(Closed(n, k, log[n]))
        /\ stops[n] = 0 /\ ~once[n] => seen[n][k] = Cardinality(Whole(n, k))
=============================================================================
