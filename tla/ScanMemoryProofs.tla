--------------------------- MODULE ScanMemoryProofs ---------------------------
(***************************************************************************)
(* Proofs about ScanMemory, for any commands, findings and bounds: the     *)
(* type invariant, that the counters of an observation agree with its      *)
(* state, and that what is listed as changed is what the scans have found. *)
(*                                                                         *)
(* The counters and the changes need to know what a scan holds while       *)
(* nothing locks the store: the observations it read are committed rows,   *)
(* and its record is its own, unreconciled until the commit that writes.   *)
(*                                                                         *)
(* Then what the rows tell: the audit rows of a print tell the row it has, *)
(* and the last observation of a finding tells its history, both as long   *)
(* as nobody commits on an outdated read.                                  *)
(***************************************************************************)
EXTENDS ScanMemory, SequenceTheorems, FiniteSetTheorems, TLAPS

Command == {Idle} \cup Marking \cup Scanning \cup Switching

SwitchOK == off \in BOOLEAN /\ switched \in Seq({"disable", "enable", "reject"})
MarksOK ==
    /\ marks \subseteq Row
    /\ \A r, s \in marks : r.id = s.id \/ r.print = s.print => r = s
TrailOK == trail \in [Prints -> Seq(Entry)] /\ labels \in [Prints -> Nat]
SeenOK  == seen \subseteq Seen
ScansOK ==
    /\ scans \in Seq(Scan) /\ clock \in Nat
    /\ \A i, j \in DOMAIN scans :
         /\ scans[i].at <= clock
         /\ scans[i].at = scans[j].at /\ scans[i].at > 0 => i = j
ProcOK == proc \in [Procs -> Command]
OwnScan ==
    \A q \in Procs : proc[q].op = "scan" =>
         /\ proc[q].scan \in 0..Len(scans)
         /\ proc[q].pc = "save" <=> proc[q].scan = 0
BoundsOK == runs \in 0..MaxRuns /\ faults \in 0..MaxFaults

Types == SwitchOK /\ MarksOK /\ TrailOK /\ SeenOK /\ ScansOK /\ ProcOK /\ OwnScan /\ BoundsOK

(* The gate comes before the read: no mark carries the secret to its commit. *)
GateFirst ==
    \A q \in Procs : proc[q].op = "mark" /\ proc[q].pc = "commit" => proc[q].reason # Secret

(* A record is written by the scan that saved it, and by no other, and it  *)
(* counts as reconciled from the commit of its observations on.            *)
OwnRecord ==
    \A q \in Procs : proc[q].op = "scan" /\ proc[q].pc # "save" =>
        /\ scans[proc[q].scan].found = proc[q].found
        /\ scans[proc[q].scan].reconciled <=> proc[q].pc \in {"final", "summary"}
        /\ \A r \in Procs : proc[r].op = "scan" /\ proc[r].scan = proc[q].scan => r = q

(* Observations are of reconciled scans, and what a scan has read is there. *)
CommittedRows ==
    /\ \A o \in seen : o.scan \in DOMAIN scans /\ scans[o.scan].reconciled
    /\ \A q \in Procs : proc[q].op = "scan" => \A f \in Findings :
         LET o == proc[q].last[f] IN o = None \/ (o \in seen /\ o.finding = f)

MInv ==
    TypeOK /\ GateFirst /\ OwnRecord /\ CommittedRows /\ CountersAgree /\ ChangesAreReal

LEMMA TypeParts == (TypeOK <=> Types) /\ (TypeOK' <=> Types')
BY DEF TypeOK, Types, SwitchOK, MarksOK, TrailOK, SeenOK, ScansOK, ProcOK, OwnScan,
   BoundsOK, Command

-----------------------------------------------------------------------------
(* The operation of a command tells its fields. *)
Writes == {"mark", "edit", "delete", "purge"}

LEMMA Kinds ==
    ASSUME NEW c \in Command
    PROVE  /\ c.op \in Writes => c \in Marking
           /\ c.op = "scan" => c \in Scanning
           /\ c.op \in {"disable", "enable"} => c \in Switching
           /\ c.op \in {"idle", "scan", "disable", "enable"} \cup Writes
           /\ c.op # "idle" => c # Idle
BY DEF Command, Idle, Marking, Scanning, Switching, Writes

LEMMA NoneApart == None \notin Row
BY NoneAssumption

LEMMA RowOfType ==
    ASSUME MarksOK, NEW p \in Prints
    PROVE  /\ RowOf(p) \in Row \cup {None}
           /\ RowOf(p) = None => \A r \in marks : r.print # p
           /\ RowOf(p) # None => RowOf(p) \in marks /\ RowOf(p).print = p
<1>1. CASE \E r \in marks : r.print = p
  <2>1. RowOf(p) \in marks /\ RowOf(p).print = p
    BY <1>1 DEF RowOf
  <2> QED
    BY <2>1, NoneApart DEF MarksOK
<1>2. CASE ~\E r \in marks : r.print = p
  BY <1>2 DEF RowOf
<1> QED
  BY <1>1, <1>2

LEMMA EndType ==
    ASSUME NEW q \in Procs, ProcOK, OwnScan, GateFirst, End(q), Len(scans') = Len(scans)
    PROVE  ProcOK' /\ OwnScan' /\ GateFirst'
BY DEF End, ProcOK, OwnScan, GateFirst, Idle, Command

LEMMA SavedType ==
    ASSUME NEW c \in Scanning, NEW n \in Nat
    PROVE  LET d == [c EXCEPT !.pc = "time", !.scan = n] IN
           d \in Scanning /\ d.op = "scan" /\ d.pc = "time" /\ d.scan = n /\ d.found = c.found
                         /\ d.last = c.last
BY DEF Scanning

LEMMA LoadedType ==
    ASSUME NEW c \in Scanning, NEW last \in [Findings -> Seen \cup {None}]
    PROVE  LET d == [c EXCEPT !.pc = "commit", !.last = last] IN
           d \in Scanning /\ d.op = "scan" /\ d.pc = "commit" /\ d.scan = c.scan
                         /\ d.last = last /\ d.found = c.found
BY DEF Scanning

(* The rows a command puts into the file. *)
LEMMA InsertType ==
    ASSUME NEW q \in Procs, MarksOK, proc[q] \in Marking, proc[q].reason # Secret,
           RowOf(proc[q].print) = None, Insert(q)
    PROVE  MarksOK'
<1> PICK i \in Ids : Insert(q)!(i)
  BY DEF Insert
<1> DEFINE n == [id |-> i, print |-> proc[q].print, reason |-> proc[q].reason, live |-> TRUE]
<1>1. proc[q].print \in Prints /\ proc[q].reason \in Reasons
  BY DEF Marking
<1>2. n \in Row
  BY <1>1 DEF Row
<1>3. \A r \in marks : r.id < i /\ r.print # n.print
  BY <1>1, RowOfType DEF NextId
<1>4. \A r \in marks : r.id \in Nat
  BY DEF MarksOK, Row, Ids
<1>5. \A r \in marks : r.id # i
  BY <1>3, <1>4 DEF Ids
<1>6. marks' = marks \cup {n}
  OBVIOUS
<1>7. n.id = i /\ n.print = proc[q].print
  OBVIOUS
<1> HIDE DEF n
<1> QED
  BY <1>2, <1>3, <1>5, <1>6, <1>7 DEF MarksOK

LEMMA UpdateType ==
    ASSUME NEW q \in Procs, MarksOK, NEW new \in [reason : Reasons, live : BOOLEAN],
           Update(q, new)
    PROVE  MarksOK'
<1> DEFINE old == proc[q].row
           Merged(r) == [id |-> r.id, print |-> r.print,
                         reason |-> IF new.reason = old.reason THEN r.reason ELSE new.reason,
                         live   |-> IF new.live = old.live THEN r.live ELSE new.live]
<1>1. marks' = {IF r.id = old.id THEN Merged(r) ELSE r : r \in marks}
  BY DEF Update
<1>2. \A r \in marks : /\ Merged(r) \in Row
                       /\ Merged(r).id = r.id /\ Merged(r).print = r.print
  BY DEF MarksOK, Row
<1> HIDE DEF Merged, old
<1>3. marks' \subseteq Row
  BY <1>1, <1>2 DEF MarksOK
<1>4. ASSUME NEW a \in marks', NEW b \in marks', a.id = b.id \/ a.print = b.print
      PROVE  a = b
  <2> PICK r \in marks : a = IF r.id = old.id THEN Merged(r) ELSE r
    BY <1>1
  <2> PICK s \in marks : b = IF s.id = old.id THEN Merged(s) ELSE s
    BY <1>1
  <2>1. a.id = r.id /\ a.print = r.print /\ b.id = s.id /\ b.print = s.print
    BY <1>2
  <2>2. r = s
    BY <2>1, <1>4 DEF MarksOK
  <2> QED
    BY <2>2
<1> QED
  BY <1>3, <1>4 DEF MarksOK

LEMMA AuditType ==
    ASSUME TrailOK, NEW p \in Prints,
           NEW action \in {"admit", "restore", "correct", "delete", "purge", "reject"},
           NEW after \in Reasons \cup {None}, Audit(p, action, after)
    PROVE  trail' \in [Prints -> Seq(Entry)]
<1>1. [action |-> action, after |-> after] \in Entry
  BY DEF Entry
<1> QED
  BY <1>1 DEF Audit, TrailOK

LEMMA ScanType ==
    ASSUME ScansOK, NEW i \in DOMAIN scans
    PROVE  /\ i \in Nat /\ i > 0 /\ scans[i] \in Scan
           /\ scans[i].at \in Nat /\ scans[i].found \in Found
<1>1. DOMAIN scans = 1..Len(scans) /\ scans \in [1..Len(scans) -> Scan] /\ Len(scans) \in Nat
  BY LenProperties DEF ScansOK
<1> QED
  BY <1>1 DEF Scan

(* What a scan observes. *)
LEMMA AgainFields ==
    ASSUME NEW o \in Seen, NEW i, NEW form
    PROVE  LET n == Again(o, i, form) IN
           /\ n \in [finding : {o.finding}, scan : {i}, at : {scans[i].at}, state : State,
                     form : {form}, again : {o.again + 1}, fixed : {o.fixed}, back : Nat]
           /\ IF o.state = "resolved" THEN n.state = "reintroduced" /\ n.back = o.back + 1
              ELSE n.state \in {"changed", "existing"} /\ n.back = o.back
<1> DEFINE n == Again(o, i, form)
           st == IF o.state = "resolved" THEN "reintroduced"
                 ELSE IF form # o.form THEN "changed" ELSE "existing"
           ba == IF o.state = "resolved" THEN o.back + 1 ELSE o.back
<1>1. n = [finding |-> o.finding, scan |-> i, at |-> scans[i].at, state |-> st,
           form |-> form, again |-> o.again + 1, fixed |-> o.fixed, back |-> ba]
  <2>1. o = [finding |-> o.finding, scan |-> o.scan, at |-> o.at, state |-> o.state,
             form |-> o.form, again |-> o.again, fixed |-> o.fixed, back |-> o.back]
    BY DEF Seen
  <2>2. n = [o EXCEPT !.scan = i, !.at = scans[i].at, !.form = form, !.again = o.again + 1,
                      !.back = ba, !.state = st]
    BY <2>1 DEF Again
  <2> QED
    BY <2>1, <2>2
<1>2. ba \in Nat /\ st \in State
  BY DEF Seen, State
<1>3. IF o.state = "resolved" THEN st = "reintroduced" /\ ba = o.back + 1
      ELSE st \in {"changed", "existing"} /\ ba = o.back
  OBVIOUS
<1> HIDE DEF st, ba, n
<1> QED
  BY <1>1, <1>2, <1>3 DEF n

LEMMA ResolvedFields ==
    ASSUME NEW o \in Seen, NEW i
    PROVE  \A n \in Resolved(o, i) :
             /\ n \in [finding : {o.finding}, scan : {i}, at : {scans[i].at},
                       state : {"resolved"}, form : {o.form}, again : {o.again},
                       fixed : {o.fixed + 1}, back : {o.back}]
             /\ o.state # "resolved"
BY DEF Resolved, Seen

LEMMA ObservedType ==
    ASSUME ScansOK, NEW f \in Findings, NEW o \in Seen \cup {None},
           NEW i \in DOMAIN scans, NEW form \in Forms \cup {None}
    PROVE  Observed(f, o, i, form) \subseteq Seen
<1>1. scans[i].at \in Nat /\ i \in Nat
  BY ScanType
<1>2. form # None => Fresh(f, i, form) \in Seen
  BY <1>1 DEF Fresh, Seen, State
<1>3. form # None /\ o # None => Again(o, i, form) \in Seen
  <2> HAVE form # None /\ o # None
  <2>1. o \in Seen /\ form \in Forms
    OBVIOUS
  <2>2. o.finding \in Findings /\ o.again + 1 \in Nat /\ o.fixed \in Nat
    BY <2>1 DEF Seen
  <2> DEFINE n == Again(o, i, form)
  <2>3. n \in [finding : {o.finding}, scan : {i}, at : {scans[i].at}, state : State,
               form : {form}, again : {o.again + 1}, fixed : {o.fixed}, back : Nat]
    BY <2>1, AgainFields
  <2> HIDE DEF n
  <2>4. n \in Seen
    BY <1>1, <2>1, <2>2, <2>3 DEF Seen
  <2> QED
    BY <2>4 DEF n
<1>4. o # None => Resolved(o, i) \subseteq Seen
  <2> SUFFICES ASSUME o # None, NEW n \in Resolved(o, i) PROVE n \in Seen
    OBVIOUS
  <2>1. o \in Seen
    OBVIOUS
  <2>2. n \in [finding : {o.finding}, scan : {i}, at : {scans[i].at},
               state : {"resolved"}, form : {o.form}, again : {o.again},
               fixed : {o.fixed + 1}, back : {o.back}]
    BY <2>1, ResolvedFields
  <2>3. o.finding \in Findings /\ o.again \in Nat /\ o.fixed + 1 \in Nat /\ o.back \in Nat
        /\ o.form \in Forms
    BY <2>1 DEF Seen
  <2> QED
    BY <1>1, <2>2, <2>3 DEF Seen, State
<1> QED
  BY <1>2, <1>3, <1>4 DEF Observed

-----------------------------------------------------------------------------
LEMMA InitMInv == Init => MInv
<1> SUFFICES ASSUME Init PROVE MInv
  OBVIOUS
<1>1. MarksOK /\ SeenOK /\ BoundsOK
  BY MemoryAssumption DEF Init, MarksOK, SeenOK, BoundsOK
<1>6. SwitchOK
  BY EmptySeq DEF Init, SwitchOK
<1>5. TrailOK
  BY DEF Init, TrailOK
<1>2. ScansOK
  BY DEF Init, ScansOK
<1>3. ProcOK /\ OwnScan /\ GateFirst /\ OwnRecord
  BY DEF Init, ProcOK, OwnScan, GateFirst, OwnRecord, Command, Idle
<1>4. CommittedRows /\ CountersAgree /\ ChangesAreReal
  BY DEF Init, CommittedRows, CountersAgree, ChangesAreReal, Idle
<1> QED
  BY <1>1, <1>2, <1>3, <1>4, <1>5, <1>6, TypeParts DEF MInv, Types

(* A command opens, or goes on with another stage. *)
LEMMA OpenType ==
    ASSUME NEW q \in Procs, ProcOK, OwnScan, GateFirst, NEW cmd \in Command,
           cmd.op = "scan" => cmd.pc = "save" /\ cmd.scan = 0,
           cmd.op = "mark" => cmd.pc = "load", Open(q, cmd), Len(scans) \in Nat
    PROVE  ProcOK' /\ OwnScan' /\ GateFirst'
BY DEF Open, ProcOK, OwnScan, GateFirst, history

LEMMA TypeStep ==
    ASSUME TypeOK, GateFirst, OwnRecord, CommittedRows, NEW q \in Procs, Step(q)
    PROVE  TypeOK' /\ GateFirst'
<1> USE TypeParts DEF Types
<1>a. Len(scans) \in Nat /\ DOMAIN scans = 1..Len(scans) /\ proc[q] \in Command
  BY LenProperties DEF ScansOK, ProcOK
<1>b. UNCHANGED history => Len(scans') = Len(scans)
  BY DEF history
<1>1. CASE OpenMarking(q)
  <2> PICK op \in Writes, env \in BOOLEAN, p \in Prints, why \in Reasons \cup {Secret} :
        Open(q, [op |-> op, pc |-> "load", on |-> ~(env \/ off), print |-> p,
                 reason |-> why, row |-> None])
    BY <1>1 DEF OpenMarking, Writes
  <2> DEFINE c == [op |-> op, pc |-> "load", on |-> ~(env \/ off), print |-> p,
                   reason |-> why, row |-> None]
  <2>1. c \in Command /\ c.op # "scan" /\ c.pc = "load"
    BY DEF Writes, Command, Marking
  <2>2. Open(q, c)
    OBVIOUS
  <2> HIDE DEF c
  <2>3. ProcOK' /\ OwnScan' /\ GateFirst'
    BY <2>1, <2>2, <1>a, OpenType
  <2> QED
    BY <2>2, <2>3, MemoryAssumption DEF Open, switch, records, history, SwitchOK, MarksOK,
       TrailOK, SeenOK, ScansOK, BoundsOK
<1>2. CASE OpenScan(q)
  <2> PICK found \in Found, env \in BOOLEAN :
        Open(q, [op |-> "scan", pc |-> "save", on |-> ~(env \/ off), found |-> found,
                 scan |-> 0, last |-> [f \in Findings |-> None]])
    BY <1>2 DEF OpenScan
  <2> DEFINE c == [op |-> "scan", pc |-> "save", on |-> ~(env \/ off), found |-> found,
                   scan |-> 0, last |-> [f \in Findings |-> None]]
  <2>1. c \in Command /\ c.op = "scan" /\ c.pc = "save" /\ c.scan = 0
    BY DEF Command, Scanning
  <2>2. Open(q, c)
    OBVIOUS
  <2> HIDE DEF c
  <2>3. ProcOK' /\ OwnScan' /\ GateFirst'
    BY <2>1, <2>2, <1>a, OpenType
  <2> QED
    BY <2>2, <2>3, MemoryAssumption DEF Open, switch, records, history, SwitchOK, MarksOK,
       TrailOK, SeenOK, ScansOK, BoundsOK
<1>3. CASE OpenSwitch(q)
  <2> PICK op \in {"disable", "enable"}, env \in BOOLEAN :
        Open(q, [op |-> op, pc |-> "set", env |-> env])
    BY <1>3 DEF OpenSwitch
  <2> DEFINE c == [op |-> op, pc |-> "set", env |-> env]
  <2>1. c \in Command /\ c.op \notin {"scan", "mark"}
    BY DEF Command, Switching
  <2>2. Open(q, c)
    OBVIOUS
  <2> HIDE DEF c
  <2>3. ProcOK' /\ OwnScan' /\ GateFirst'
    BY <2>1, <2>2, <1>a, OpenType
  <2> QED
    BY <2>2, <2>3, MemoryAssumption DEF Open, switch, records, history, SwitchOK, MarksOK,
       TrailOK, SeenOK, ScansOK, BoundsOK
<1>4. CASE Switch(q)
  <2>1. ProcOK' /\ OwnScan' /\ GateFirst'
    BY <1>4, <1>a, <1>b, Kinds DEF Switch, ProcOK, OwnScan, GateFirst, Command, Switching
  <2> QED
    BY <1>4, <2>1 DEF Switch, records, history, SwitchOK, MarksOK, TrailOK, SeenOK,
       ScansOK, BoundsOK
<1>5. CASE SwitchAudited(q)
  <2>1. ProcOK' /\ OwnScan' /\ GateFirst'
    BY <1>5, <1>b, EndType DEF SwitchAudited
  <2>2. SwitchOK'
    BY <1>5 DEF SwitchAudited, SwitchOK
  <2> QED
    BY <1>5, <2>1, <2>2 DEF SwitchAudited, records, history, MarksOK, TrailOK, SeenOK,
       ScansOK, BoundsOK
<1>6. CASE Refuse(q)
  <2>1. ProcOK' /\ OwnScan' /\ GateFirst'
    BY <1>6, <1>b, EndType DEF Refuse
  <2>2. proc[q].print \in Prints
    BY <1>6, <1>a, Kinds DEF Refuse, Writes, Marking
  <2>3. TrailOK'
    BY <1>6, <2>2, AuditType DEF Refuse, TrailOK
  <2> QED
    BY <1>6, <2>1, <2>3 DEF Refuse, switch, history, SwitchOK, MarksOK, SeenOK, ScansOK,
       BoundsOK
<1>7. CASE Load(q)
  <2>1. proc[q] \in Marking
    BY <1>7, <1>a, Kinds DEF Load, Writes
  <2>2. RowOf(proc[q].print) \in Row \cup {None}
    BY <2>1, RowOfType DEF Marking
  <2>3. [proc[q] EXCEPT !.pc = "commit", !.row = RowOf(proc[q].print)] \in Marking
    BY <2>1, <2>2 DEF Marking
  <2>4. proc' = [proc EXCEPT ![q] = [proc[q] EXCEPT !.pc = "commit", !.row = RowOf(proc[q].print)]]
    BY <1>7 DEF Load, ProcOK
  <2>5. ProcOK' /\ OwnScan' /\ GateFirst'
    BY <1>7, <1>b, <2>1, <2>3, <2>4 DEF Load, ProcOK, OwnScan, GateFirst, Command, Marking
  <2> QED
    BY <1>7, <2>5 DEF Load, switch, records, history, SwitchOK, MarksOK, TrailOK, SeenOK,
       ScansOK, BoundsOK
<1> DEFINE Kept == SwitchOK' /\ SeenOK' /\ ScansOK' /\ BoundsOK' /\ ProcOK' /\ OwnScan'
                   /\ GateFirst'
<1>c. ASSUME NEW op \in Writes, Commits(q, op)
      PROVE  Kept /\ proc[q] \in Marking /\ proc[q].op = op /\ proc[q].pc = "commit"
             /\ proc[q].print \in Prints
  <2>1. ProcOK' /\ OwnScan' /\ GateFirst'
    BY <1>c, <1>b, EndType DEF Commits
  <2>2. proc[q] \in Marking /\ proc[q].op = op /\ proc[q].pc = "commit"
    BY <1>c, <1>a, Kinds DEF Commits
  <2> QED
    BY <1>c, <2>1, <2>2 DEF Commits, Marking, switch, history, SwitchOK, SeenOK, ScansOK,
       BoundsOK
<1> HIDE DEF Kept
<1>d. Kept /\ MarksOK' /\ TrailOK' => TypeOK' /\ GateFirst'
  BY DEF Kept
<1>8. CASE Decline(q)
  <2>1. Kept /\ proc[q].print \in Prints
    BY <1>8, <1>c DEF Decline, Writes
  <2>2. MarksOK' /\ TrailOK'
    BY <1>8, <2>1, AuditType DEF Decline, MarksOK, TrailOK
  <2> QED
    BY <2>1, <2>2, <1>d
<1>9. CASE Admit(q)
  <2>1. Kept /\ proc[q] \in Marking /\ proc[q].print \in Prints /\ proc[q].reason # Secret
    BY <1>9, <1>c DEF Admit, Writes, GateFirst
  <2>2. CASE RowOf(proc[q].print) # None
    BY <1>9, <2>1, <2>2, <1>d DEF Admit, records, MarksOK, TrailOK
  <2>3. CASE RowOf(proc[q].print) = None
    <3>1. MarksOK'
      BY <1>9, <2>1, <2>3, InsertType DEF Admit
    <3>2. proc[q].reason \in Reasons
      BY <2>1 DEF Marking
    <3>3. trail' \in [Prints -> Seq(Entry)]
      BY <1>9, <2>1, <2>3, <3>2, AuditType DEF Admit
    <3>4. labels' \in [Prints -> Nat]
      BY <1>9, <2>1, <2>3 DEF Admit, TrailOK
    <3> QED
      BY <2>1, <3>1, <3>3, <3>4, <1>d DEF TrailOK
  <2> QED
    BY <2>2, <2>3
<1>10. CASE Restore(q)
  <2>1. Kept /\ proc[q] \in Marking /\ proc[q].print \in Prints /\ proc[q].reason # Secret
    BY <1>10, <1>c DEF Restore, Writes, GateFirst
  <2>2. CASE Gone(q)
    BY <1>10, <2>1, <2>2, <1>d DEF Restore, records, MarksOK, TrailOK
  <2>3. CASE ~Gone(q)
    <3>1. proc[q].reason \in Reasons
      BY <2>1 DEF Marking
    <3>2. [reason |-> proc[q].reason, live |-> TRUE] \in [reason : Reasons, live : BOOLEAN]
      BY <3>1
    <3>3. MarksOK'
      BY <1>10, <2>3, <3>2, UpdateType DEF Restore
    <3>4. trail' \in [Prints -> Seq(Entry)]
      BY <1>10, <2>1, <2>3, <3>1, AuditType DEF Restore
    <3>5. labels' \in [Prints -> Nat]
      BY <1>10, <2>1, <2>3 DEF Restore, TrailOK
    <3> QED
      BY <2>1, <3>3, <3>4, <3>5, <1>d DEF TrailOK
  <2> QED
    BY <2>2, <2>3
<1>11. CASE Correct(q)
  <2>1. Kept /\ proc[q] \in Marking /\ proc[q].print \in Prints /\ proc[q].op = "edit"
    BY <1>11, <1>c DEF Correct, Writes
  <2>2. CASE Gone(q) /\ proc[q].reason # proc[q].row.reason
    BY <1>11, <2>1, <2>2, <1>d DEF Correct, MarksOK, TrailOK
  <2>3. CASE ~(Gone(q) /\ proc[q].reason # proc[q].row.reason)
    <3>1. proc[q].reason \in Reasons
      BY <1>11, <2>1 DEF Marking, Correct, Declined
    <3>2. [reason |-> proc[q].reason, live |-> TRUE] \in [reason : Reasons, live : BOOLEAN]
      BY <3>1
    <3>3. MarksOK'
      BY <1>11, <2>3, <3>2, UpdateType DEF Correct
    <3>4. trail' \in [Prints -> Seq(Entry)]
      BY <1>11, <2>1, <2>3, <3>1, AuditType DEF Correct
    <3> QED
      BY <1>11, <2>1, <3>3, <3>4, <1>d DEF Correct, TrailOK
  <2> QED
    BY <2>2, <2>3
<1>12. CASE Delete(q)
  <2>1. Kept /\ proc[q] \in Marking /\ proc[q].print \in Prints /\ proc[q].op = "delete"
    BY <1>12, <1>c DEF Delete, Writes
  <2>2. CASE Gone(q)
    BY <1>12, <2>1, <2>2, <1>d DEF Delete, MarksOK, TrailOK
  <2>3. CASE ~Gone(q)
    <3>1. proc[q].row \in Row
      BY <1>12, <2>1 DEF Marking, Delete, Declined, Live
    <3>2. [reason |-> proc[q].row.reason, live |-> FALSE] \in [reason : Reasons, live : BOOLEAN]
      BY <3>1 DEF Row
    <3>3. MarksOK'
      BY <1>12, <2>3, <3>2, UpdateType DEF Delete
    <3>4. trail' \in [Prints -> Seq(Entry)]
      BY <1>12, <2>1, <2>3, AuditType DEF Delete
    <3> QED
      BY <1>12, <2>1, <3>3, <3>4, <1>d DEF Delete, TrailOK
  <2> QED
    BY <2>2, <2>3
<1>13. CASE Purge(q)
  <2>1. Kept /\ proc[q].print \in Prints
    BY <1>13, <1>c DEF Purge, Writes
  <2>2. MarksOK' /\ TrailOK'
    BY <1>13, <2>1, AuditType DEF Purge, MarksOK, TrailOK
  <2> QED
    BY <2>1, <2>2, <1>d
<1>14. CASE ScanDegraded(q)
  <2>1. ProcOK' /\ OwnScan' /\ GateFirst'
    BY <1>14, <1>b, EndType DEF ScanDegraded
  <2> QED
    BY <1>14, <2>1 DEF ScanDegraded, switch, records, history, SwitchOK, MarksOK, TrailOK,
       SeenOK, ScansOK, BoundsOK
<1> DEFINE Others == SwitchOK' /\ MarksOK' /\ TrailOK' /\ BoundsOK'
<1>e. ASSUME UNCHANGED <<switch, records, runs, faults>> PROVE Others
  BY <1>e DEF switch, records, SwitchOK, MarksOK, TrailOK, BoundsOK
<1> HIDE DEF Others
<1>f. ASSUME proc[q].op = "scan"
      PROVE  /\ proc[q] \in Scanning /\ proc[q].scan \in 0..Len(scans)
             /\ proc[q].pc # "save" => proc[q].scan \in DOMAIN scans
  BY <1>f, <1>a, Kinds DEF OwnScan
<1>15. CASE Save(q)
  <2>1. proc[q] \in Scanning
    BY <1>15, <1>f DEF Save
  <2> DEFINE s == [found |-> proc[q].found, at |-> 0, reconciled |-> FALSE, summary |-> FALSE]
             c == [proc[q] EXCEPT !.pc = "time", !.scan = Len(scans')]
  <2>2. s \in Scan
    BY <2>1 DEF Scanning, Scan
  <2>3. /\ scans' \in Seq(Scan) /\ Len(scans') = Len(scans) + 1
        /\ \A i \in 1..Len(scans) : scans'[i] = scans[i]
        /\ scans'[Len(scans) + 1] = s
    BY <1>15, <2>2, AppendProperties DEF Save, ScansOK
  <2>4. DOMAIN scans' = 1..(Len(scans) + 1)
    BY <2>3, LenProperties
  <2>5. s.at = 0
    OBVIOUS
  <2> HIDE DEF s
  <2>6. ScansOK'
    BY <1>15, <2>2, <2>3, <2>4, <2>5, <1>a, ScanType DEF Save, ScansOK
  <2>7. c \in Scanning /\ c.op = "scan" /\ c.pc = "time" /\ c.scan = Len(scans) + 1
    <3> DEFINE n == Len(scans')
    <3>1. n \in Nat /\ n = Len(scans) + 1
      BY <2>3, <1>a
    <3> HIDE DEF n
    <3> QED
      BY <2>1, <3>1, SavedType DEF n
  <2>8. proc' = [proc EXCEPT ![q] = c]
    BY <1>15 DEF Save, ProcOK
  <2> HIDE DEF c
  <2>9. ProcOK' /\ OwnScan' /\ GateFirst'
    BY <2>3, <2>7, <2>8, <1>a DEF ProcOK, OwnScan, GateFirst, Command
  <2> QED
    BY <1>15, <2>6, <2>9, <1>e DEF Save, SeenOK, Others
(* What a later stage of a scan needs: its record and its stage. *)
<1>g. ASSUME proc[q].op = "scan", proc[q].pc # "save", NEW c \in Scanning, c.pc # "save",
             c.scan = proc[q].scan, proc' = [proc EXCEPT ![q] = c], Len(scans') = Len(scans)
      PROVE  ProcOK' /\ OwnScan' /\ GateFirst'
  <2>1. c.op = "scan"
    BY DEF Scanning
  <2> QED
    BY <1>g, <2>1, <1>a DEF ProcOK, OwnScan, GateFirst, Command
<1>h. ASSUME proc[q].op = "scan",
             NEW stage \in {"save", "time", "load", "commit", "final", "summary"}
      PROVE  /\ [proc[q] EXCEPT !.pc = stage] \in Scanning
             /\ [proc[q] EXCEPT !.pc = stage].pc = stage
             /\ [proc[q] EXCEPT !.pc = stage].scan = proc[q].scan
  BY <1>h, <1>f DEF Scanning
<1>i. ASSUME NEW stage, proc' = [proc EXCEPT ![q].pc = stage]
      PROVE  proc' = [proc EXCEPT ![q] = [proc[q] EXCEPT !.pc = stage]]
  BY <1>i DEF ProcOK
<1>16. CASE Stamp(q)
  <2>1. proc[q].op = "scan" /\ proc[q].pc = "time"
    BY <1>16 DEF Stamp
  <2> DEFINE k == proc[q].scan
  <2>2. k \in DOMAIN scans /\ scans[k] \in Scan
    BY <2>1, <1>f, ScanType
  <2> DEFINE t == [scans[k] EXCEPT !.at = clock + 1]
  <2>3. t \in Scan /\ t.at = clock + 1
    <3>1. clock + 1 \in Nat
      BY DEF ScansOK
    <3> QED
      BY <2>2, <3>1 DEF Scan
  <2>4. scans' = [scans EXCEPT ![k] = t] /\ clock' = clock + 1
    BY <1>16, <2>2 DEF Stamp
  <2> HIDE DEF t, k
  <2>5. scans' \in Seq(Scan) /\ Len(scans') = Len(scans)
    BY <2>2, <2>3, <2>4, ExceptSeq DEF ScansOK
  <2>6. ScansOK'
    BY <2>2, <2>3, <2>4, <2>5, ScanType DEF ScansOK
  <2>7. ProcOK' /\ OwnScan' /\ GateFirst'
    BY <1>16, <2>1, <2>5, <1>g, <1>h, <1>i DEF Stamp
  <2> QED
    BY <1>16, <2>6, <2>7, <1>e DEF Stamp, SeenOK, Others
<1>17. CASE LoadLatest(q)
  <2>1. proc[q].op = "scan" /\ proc[q].pc = "load" /\ proc[q] \in Scanning
    BY <1>17, <1>f DEF LoadLatest
  <2> PICK last \in [Findings -> seen \cup {None}] :
         proc' = [proc EXCEPT ![q].pc = "commit", ![q].last = last]
    BY <1>17 DEF LoadLatest
  <2> DEFINE c == [proc[q] EXCEPT !.pc = "commit", !.last = last]
  <2>2. c \in Scanning /\ c.pc = "commit" /\ c.scan = proc[q].scan
    <3>1. seen \subseteq Seen
      BY DEF SeenOK
    <3>2. last \in [Findings -> Seen \cup {None}]
      BY <3>1
    <3>3. proc[q] \in Scanning
      BY <2>1
    <3> HIDE DEF Scanning
    <3> QED
      BY ONLY <3>2, <3>3, LoadedType, Zenon
  <2>3. proc' = [proc EXCEPT ![q] = c]
    BY DEF ProcOK
  <2> HIDE DEF c
  <2>4. ProcOK' /\ OwnScan' /\ GateFirst'
    BY <1>17, <1>b, <2>1, <2>2, <2>3, <1>g DEF LoadLatest
  <2> QED
    BY <1>17, <2>4, <1>e DEF LoadLatest, history, SeenOK, ScansOK, Others
<1>18. CASE Reconcile(q)
  <2>1. proc[q].op = "scan" /\ proc[q].pc = "commit" /\ proc[q] \in Scanning
    BY <1>18, <1>f DEF Reconcile
  <2> DEFINE k == proc[q].scan
  <2>2. k \in DOMAIN scans /\ scans[k] \in Scan
    BY <2>1, <1>f, ScanType
  <2> DEFINE t == [scans[k] EXCEPT !.reconciled = TRUE]
  <2>3. t \in Scan /\ t.at = scans[k].at
    BY <2>2 DEF Scan
  <2>4. scans' = [scans EXCEPT ![k] = t]
    BY <1>18, <2>2 DEF Reconcile
  <2> HIDE DEF t
  <2>5. \A f \in Findings : Observed(f, proc[q].last[f], k, proc[q].found[f]) \subseteq Seen
    BY <2>1, <2>2, ObservedType DEF Scanning, Found
  <2>6. SeenOK'
    BY <1>18, <2>5 DEF Reconcile, SeenOK
  <2> HIDE DEF k
  <2>7. scans' \in Seq(Scan) /\ Len(scans') = Len(scans)
    BY <2>2, <2>3, <2>4, ExceptSeq DEF ScansOK
  <2>8. ScansOK'
    BY <1>18, <2>2, <2>3, <2>4, <2>7, ScanType DEF ScansOK, Reconcile
  <2>9. ProcOK' /\ OwnScan' /\ GateFirst'
    BY <1>18, <2>1, <2>7, <1>g, <1>h, <1>i DEF Reconcile
  <2> QED
    BY <1>18, <2>6, <2>8, <2>9, <1>e DEF Reconcile, Others
<1>19. CASE Snapshot(q)
  <2>1. ProcOK' /\ OwnScan' /\ GateFirst'
    BY <1>19, <1>b, <1>g, <1>h, <1>i DEF Snapshot
  <2> QED
    BY <1>19, <2>1, <1>e DEF Snapshot, history, SeenOK, ScansOK, Others
<1>20. CASE Summarise(q)
  <2>1. proc[q].op = "scan" /\ proc[q].pc = "summary"
    BY <1>20 DEF Summarise
  <2> DEFINE k == proc[q].scan
  <2>2. k \in DOMAIN scans /\ scans[k] \in Scan
    BY <2>1, <1>f, ScanType
  <2> DEFINE t == [scans[k] EXCEPT !.summary = TRUE]
  <2>3. t \in Scan /\ t.at = scans[k].at
    BY <2>2 DEF Scan
  <2>4. scans' = [scans EXCEPT ![k] = t]
    BY <1>20, <2>2 DEF Summarise
  <2> HIDE DEF t, k
  <2>5. scans' \in Seq(Scan) /\ Len(scans') = Len(scans)
    BY <2>2, <2>3, <2>4, ExceptSeq DEF ScansOK
  <2>6. ScansOK'
    BY <1>20, <2>2, <2>3, <2>4, <2>5, ScanType DEF ScansOK, Summarise
  <2>7. ProcOK' /\ OwnScan' /\ GateFirst'
    BY <1>20, <2>5, EndType DEF Summarise
  <2> QED
    BY <1>20, <2>6, <2>7, <1>e DEF Summarise, SeenOK, Others
<1>21. CASE Fails(q)
  <2>1. proc[q].op = "scan"
    BY <1>21 DEF Fails
  <2>2. CASE proc[q].pc = "final"
    <3>1. proc' = [proc EXCEPT ![q] = [proc[q] EXCEPT !.pc = "summary"]]
      BY <1>21, <2>2 DEF Fails, ProcOK
    <3>2. ProcOK' /\ OwnScan' /\ GateFirst'
      BY <1>21, <1>b, <1>g, <1>h, <2>1, <2>2, <3>1 DEF Fails
    <3> QED
      BY <1>21, <3>2, MemoryAssumption DEF Fails, switch, records, history, SwitchOK,
         MarksOK, TrailOK, SeenOK, ScansOK, BoundsOK
  <2>3. CASE proc[q].pc # "final"
    <3>1. End(q)
      BY <1>21, <2>3 DEF Fails, End, ProcOK
    <3>2. ProcOK' /\ OwnScan' /\ GateFirst'
      BY <1>21, <1>b, <3>1, EndType DEF Fails
    <3> QED
      BY <1>21, <3>2, MemoryAssumption DEF Fails, switch, records, history, SwitchOK,
         MarksOK, TrailOK, SeenOK, ScansOK, BoundsOK
  <2> QED
    BY <2>2, <2>3
<1>22. CASE Killed(q)
  <2>1. ProcOK' /\ OwnScan' /\ GateFirst'
    BY <1>22, <1>b, EndType DEF Killed
  <2> QED
    BY <1>22, <2>1, MemoryAssumption DEF Killed, switch, records, history, SwitchOK,
       MarksOK, TrailOK, SeenOK, ScansOK, BoundsOK
<1> QED
  BY <1>1, <1>2, <1>3, <1>4, <1>5, <1>6, <1>7, <1>8, <1>9, <1>10, <1>11, <1>12, <1>13,
     <1>14, <1>15, <1>16, <1>17, <1>18, <1>19, <1>20, <1>21, <1>22 DEF Step

-----------------------------------------------------------------------------
(* What one scan makes of the last observation of a finding. *)
Good(o) ==
    /\ o.fixed = o.back + (IF o.state = "resolved" THEN 1 ELSE 0)
    /\ o.state = "new" => o.again = 0 /\ o.fixed = 0
    /\ o.back <= o.again
    /\ o.state = "reintroduced" => o.back > 0

Rows == OwnRecord /\ CommittedRows /\ CountersAgree /\ ChangesAreReal

LEMMA CountersParts ==
    /\ CountersAgree <=> \A o \in seen : Good(o)
    /\ CountersAgree' <=> \A o \in seen' : Good(o)
BY DEF CountersAgree, Good

LEMMA ActiveParts ==
    ASSUME NEW i
    PROVE  /\ \A f : f \in ActiveIn(i) <=>
                \E o \in seen : o.scan = i /\ o.state # "resolved" /\ o.finding = f
           /\ \A f : f \in ActiveIn(i)' <=>
                \E o \in seen' : o.scan = i /\ o.state # "resolved" /\ o.finding = f
BY DEF ActiveIn

LEMMA ObservedFacts ==
    ASSUME ScansOK, NEW f \in Findings, NEW o \in Seen \cup {None},
           o = None \/ (o.finding = f /\ Good(o)),
           NEW i \in DOMAIN scans, NEW form \in Forms \cup {None}
    PROVE  /\ \A n \in Observed(f, o, i, form) :
                /\ n.finding = f /\ n.scan = i /\ Good(n)
                /\ n.state # "resolved" <=> form # None
           /\ form # None => \E n \in Observed(f, o, i, form) : TRUE
<1>1. CASE form # None /\ o = None
  <2>1. Observed(f, o, i, form) = {Fresh(f, i, form)}
    BY <1>1 DEF Observed
  <2> QED
    BY <1>1, <2>1 DEF Fresh, Good
<1>2. CASE form # None /\ o # None
  <2>1. Observed(f, o, i, form) = {Again(o, i, form)} /\ o \in Seen
    BY <1>2 DEF Observed
  <2> DEFINE n == Again(o, i, form)
  <2>2. /\ n.finding = o.finding /\ n.scan = i /\ n.again = o.again + 1 /\ n.fixed = o.fixed
        /\ IF o.state = "resolved" THEN n.state = "reintroduced" /\ n.back = o.back + 1
           ELSE n.state \in {"changed", "existing"} /\ n.back = o.back
    BY <2>1, AgainFields
  <2>3. o.again \in Nat /\ o.fixed \in Nat /\ o.back \in Nat /\ Good(o) /\ o.finding = f
    BY <1>2, <2>1 DEF Seen
  <2> HIDE DEF n
  <2>4. Good(n) /\ n.state # "resolved"
    BY <2>2, <2>3 DEF Good
  <2> QED
    BY <1>2, <2>1, <2>2, <2>3, <2>4 DEF n
<1>3. CASE form = None /\ o # None
  <2>1. Observed(f, o, i, form) = Resolved(o, i) /\ o \in Seen
    BY <1>3 DEF Observed
  <2>2. o.again \in Nat /\ o.fixed \in Nat /\ o.back \in Nat /\ Good(o) /\ o.finding = f
    BY <1>3, <2>1 DEF Seen
  <2>3. ASSUME NEW n \in Resolved(o, i)
        PROVE  n.finding = f /\ n.scan = i /\ Good(n) /\ n.state = "resolved"
    <3>1. /\ n.finding = o.finding /\ n.scan = i /\ n.state = "resolved"
          /\ n.again = o.again /\ n.fixed = o.fixed + 1 /\ n.back = o.back
          /\ o.state # "resolved"
      BY <2>1, ResolvedFields
    <3> QED
      BY <2>2, <3>1 DEF Good
  <2> QED
    BY <1>3, <2>1, <2>3
<1>4. CASE form = None /\ o = None
  BY <1>4 DEF Observed
<1> QED
  BY <1>1, <1>2, <1>3, <1>4

(* Steps that write neither observations nor scan records. *)
LEMMA QuietRows ==
    ASSUME ProcOK, OwnScan, Rows, UNCHANGED history, NEW q \in Procs, NEW c,
           proc' = [proc EXCEPT ![q] = c],
           \/ c.op # "scan"
           \/ /\ c.op = "scan" /\ c.pc = "save" /\ c.scan = 0
              /\ \A f \in Findings : c.last[f] = None
           \/ /\ c.op = "scan" /\ proc[q].op = "scan" /\ proc[q].pc # "save" /\ c.pc # "save"
              /\ c.scan = proc[q].scan /\ c.found = proc[q].found
              /\ c.pc \in {"final", "summary"} <=> proc[q].pc \in {"final", "summary"}
              /\ \A f \in Findings :
                   c.last[f] = None \/ (c.last[f] \in seen /\ c.last[f].finding = f)
    PROVE  Rows'
<1>1. CountersAgree' /\ ChangesAreReal'
  BY DEF Rows, history, CountersAgree, ChangesAreReal, ActiveIn
<1>2. \A r \in Procs : proc'[r] = IF r = q THEN c ELSE proc[r]
  BY DEF ProcOK
<1>3. CommittedRows'
  BY <1>2 DEF Rows, history, CommittedRows
<1>4. OwnRecord'
  BY <1>2 DEF Rows, history, OwnRecord, OwnScan
<1> QED
  BY <1>1, <1>3, <1>4 DEF Rows

(* Steps that change of the scan records no more than their times. *)
LEMMA SameScans ==
    ASSUME ProcOK, OwnScan, ScansOK, Rows, NEW q \in Procs, proc[q].op = "scan",
           proc[q].pc # "save", NEW c,
           \A r \in Procs : proc'[r] = IF r = q THEN c ELSE proc[r],
           \/ c.op # "scan"
           \/ /\ c.op = "scan" /\ c.pc # "save"
              /\ c.scan = proc[q].scan /\ c.found = proc[q].found /\ c.last = proc[q].last
              /\ c.pc \in {"final", "summary"} <=> proc[q].pc \in {"final", "summary"},
           seen' = seen, DOMAIN scans' = DOMAIN scans,
           \A i \in DOMAIN scans :
             /\ scans'[i].found = scans[i].found
             /\ scans'[i].reconciled <=> scans[i].reconciled
             /\ scans'[i].summary => scans[i].summary \/ scans[i].reconciled
    PROVE  Rows'
<1>0. DOMAIN scans = 1..Len(scans) /\ Len(scans) \in Nat
  BY LenProperties DEF ScansOK
<1>1. \A r \in Procs : proc[r].op = "scan" /\ proc[r].pc # "save" => proc[r].scan \in DOMAIN scans
  BY <1>0 DEF OwnScan
<1>2. OwnRecord'
  <2> SUFFICES ASSUME NEW r \in Procs, proc'[r].op = "scan", proc'[r].pc # "save"
               PROVE  /\ scans'[proc'[r].scan].found = proc'[r].found
                      /\ scans'[proc'[r].scan].reconciled <=> proc'[r].pc \in {"final", "summary"}
                      /\ \A x \in Procs :
                           proc'[x].op = "scan" /\ proc'[x].scan = proc'[r].scan => x = r
    BY DEF OwnRecord
  <2>1. /\ proc[r].op = "scan" /\ proc[r].pc # "save"
        /\ proc'[r].scan = proc[r].scan /\ proc'[r].found = proc[r].found
        /\ proc'[r].pc \in {"final", "summary"} <=> proc[r].pc \in {"final", "summary"}
    OBVIOUS
  <2>2. \A x \in Procs : proc'[x].op = "scan" => proc[x].op = "scan" /\ proc'[x].scan = proc[x].scan
    OBVIOUS
  <2> QED
    BY <1>1, <2>1, <2>2 DEF Rows, OwnRecord
<1>3. CommittedRows'
  <2>1. \A o \in seen' : o.scan \in DOMAIN scans' /\ scans'[o.scan].reconciled
    BY DEF Rows, CommittedRows
  <2>2. \A x \in Procs : proc'[x].op = "scan" => proc[x].op = "scan" /\ proc'[x].last = proc[x].last
    OBVIOUS
  <2> QED
    BY <2>1, <2>2 DEF Rows, CommittedRows
<1>4. CountersAgree'
  BY DEF Rows, CountersAgree
<1>5. ChangesAreReal'
  <2>1. \A i : ActiveIn(i)' = ActiveIn(i)
    BY DEF ActiveIn
  <2> SUFFICES ASSUME NEW i \in DOMAIN scans
               PROVE  /\ ActiveIn(i) = IF scans'[i].reconciled
                                       THEN {f \in Findings : scans'[i].found[f] # None} ELSE {}
                      /\ scans'[i].summary => scans'[i].reconciled
    BY <2>1 DEF ChangesAreReal
  <2>2. /\ scans'[i].found = scans[i].found
        /\ (scans'[i].reconciled <=> scans[i].reconciled)
        /\ scans'[i].summary => scans[i].summary \/ scans[i].reconciled
    OBVIOUS
  <2>3. /\ ActiveIn(i) = IF scans[i].reconciled
                         THEN {f \in Findings : scans[i].found[f] # None} ELSE {}
        /\ scans[i].summary => scans[i].reconciled
    BY DEF Rows, ChangesAreReal
  <2> QED
    BY <2>2, <2>3
<1> QED
  BY <1>2, <1>3, <1>4, <1>5 DEF Rows

(* A scan that ends, by itself or by force, and every other command. *)
LEMMA EndRows ==
    ASSUME ProcOK, OwnScan, Rows, UNCHANGED history, NEW q \in Procs, End(q)
    PROVE  Rows'
BY QuietRows DEF End, Idle

LEMMA ReconcileRows ==
    ASSUME ProcOK, OwnScan, SeenOK, ScansOK, Rows, NEW q \in Procs, Reconcile(q)
    PROVE  Rows'
<1>0. DOMAIN scans = 1..Len(scans) /\ Len(scans) \in Nat
  BY LenProperties DEF ScansOK
<1>1. proc[q] \in Scanning /\ proc[q].op = "scan" /\ proc[q].pc = "commit"
  BY Kinds DEF Reconcile, ProcOK
<1> DEFINE k == proc[q].scan
           found == proc[q].found
           last == proc[q].last
<1>2. k \in DOMAIN scans /\ scans[k] \in Scan
  BY <1>0, <1>1, ScanType DEF OwnScan
<1>3. scans[k].found = found /\ ~scans[k].reconciled
      /\ \A r \in Procs : proc[r].op = "scan" /\ proc[r].scan = k => r = q
  BY <1>1 DEF Rows, OwnRecord
<1> DEFINE t == [scans[k] EXCEPT !.reconciled = TRUE]
           c == [proc[q] EXCEPT !.pc = "final"]
           new(f) == Observed(f, last[f], k, found[f])
<1>4. t.found = found /\ t.reconciled /\ t.summary = scans[k].summary
  BY <1>2, <1>3 DEF Scan
<1>5. c.op = "scan" /\ c.pc = "final" /\ c.scan = k /\ c.found = found /\ c.last = last
  BY <1>1 DEF Scanning
<1>6. scans' = [scans EXCEPT ![k] = t] /\ seen' = seen \cup UNION {new(f) : f \in Findings}
  BY <1>2 DEF Reconcile
<1>7. \A r \in Procs : proc'[r] = IF r = q THEN c ELSE proc[r]
  BY DEF Reconcile, ProcOK
<1>8. \A f \in Findings :
        /\ last[f] \in Seen \cup {None} /\ found[f] \in Forms \cup {None}
        /\ last[f] = None \/ (last[f].finding = f /\ Good(last[f]))
  BY <1>1, CountersParts DEF Scanning, Found, Rows, CommittedRows
<1>9. \A f \in Findings :
        /\ \A n \in new(f) :
             /\ n.finding = f /\ n.scan = k /\ Good(n)
             /\ n.state # "resolved" <=> found[f] # None
        /\ found[f] # None => \E n \in new(f) : TRUE
  <2> HIDE DEF k, found, last
  <2> QED
    BY <1>2, <1>8, ObservedFacts
<1>10. DOMAIN scans' = DOMAIN scans /\ scans'[k] = t
       /\ \A i \in DOMAIN scans : i # k => scans'[i] = scans[i]
  BY <1>2, <1>6
<1> HIDE DEF t, c, new
<1>11. OwnRecord'
  BY <1>0, <1>3, <1>4, <1>5, <1>7, <1>10 DEF Rows, OwnRecord, OwnScan
<1> HIDE DEF k, found, last
<1>12. \A n \in seen' \ seen : \E f \in Findings : n \in new(f)
  BY <1>6
<1>13. CommittedRows'
  <2>1. \A o \in seen' : o.scan \in DOMAIN scans' /\ scans'[o.scan].reconciled
    BY <1>2, <1>4, <1>9, <1>10, <1>12 DEF Rows, CommittedRows
  <2>2. \A r \in Procs : proc'[r].op = "scan" =>
          proc[r].op = "scan" /\ proc'[r].last = proc[r].last
    BY <1>1, <1>5, <1>7 DEF last
  <2>3. seen \subseteq seen'
    BY <1>6
  <2> QED
    BY <2>1, <2>2, <2>3 DEF Rows, CommittedRows
<1>14. CountersAgree'
  BY <1>9, <1>12, CountersParts DEF Rows
<1>15. ChangesAreReal'
  <2>1. \A i : \A f : f \in ActiveIn(i)' <=>
          \E o \in seen' : o.scan = i /\ o.state # "resolved" /\ o.finding = f
    BY ActiveParts
  <2>2. \A i : \A f : f \in ActiveIn(i) <=>
          \E o \in seen : o.scan = i /\ o.state # "resolved" /\ o.finding = f
    BY ActiveParts
  <2> PICK j \in DOMAIN scans : j = k
    BY <1>2
  <2>3. ActiveIn(j)' = {f \in Findings : found[f] # None}
    <3>1. \A o \in seen : o.scan # j
      BY <1>3 DEF Rows, CommittedRows
    <3>2. ASSUME NEW f \in ActiveIn(j)' PROVE f \in Findings /\ found[f] # None
      <4> PICK o \in seen' : o.scan = j /\ o.state # "resolved" /\ o.finding = f
        BY <2>1
      <4>1. o \notin seen
        BY <3>1
      <4> QED
        BY <4>1, <1>9, <1>12
    <3>3. ASSUME NEW f \in Findings, found[f] # None PROVE f \in ActiveIn(j)'
      <4> PICK n \in new(f) : TRUE
        BY <3>3, <1>9
      <4>1. n \in seen'
        BY <1>6
      <4>2. n.scan = j /\ n.state # "resolved" /\ n.finding = f
        BY <3>3, <1>9
      <4> QED
        BY <2>1, <4>1, <4>2
    <3> QED
      BY <3>2, <3>3
  <2>4. \A i : i # j => ActiveIn(i)' = ActiveIn(i)
    <3> SUFFICES ASSUME NEW i, i # j PROVE \A f : f \in ActiveIn(i)' <=> f \in ActiveIn(i)
      BY DEF ActiveIn
    <3> QED
      BY <2>1, <2>2, <1>6, <1>9, <1>12
  <2>5. ASSUME NEW i \in DOMAIN scans'
        PROVE  /\ ActiveIn(i)' = IF scans'[i].reconciled
                                 THEN {f \in Findings : scans'[i].found[f] # None} ELSE {}
               /\ scans'[i].summary => scans'[i].reconciled
    <3>1. CASE i = j
      BY <1>4, <1>10, <2>3, <3>1
    <3>2. CASE i # j
      <4>1. i \in DOMAIN scans /\ scans'[i] = scans[i] /\ ActiveIn(i)' = ActiveIn(i)
        BY <1>10, <2>4, <3>2
      <4> QED
        BY <4>1 DEF Rows, ChangesAreReal
    <3> QED
      BY <3>1, <3>2
  <2> QED
    BY <2>5 DEF ChangesAreReal
<1> QED
  BY <1>11, <1>13, <1>14, <1>15 DEF Rows

LEMMA StepRows ==
    ASSUME TypeOK, Rows, NEW q \in Procs, Step(q)
    PROVE  Rows'
<1>a. /\ ProcOK /\ OwnScan /\ SeenOK /\ ScansOK /\ proc[q] \in Command
      /\ Len(scans) \in Nat /\ DOMAIN scans = 1..Len(scans)
  BY TypeParts, LenProperties DEF Types, ScansOK, ProcOK
<1>b. ASSUME proc[q].op = "scan"
      PROVE  /\ proc[q] \in Scanning /\ proc[q].scan \in 0..Len(scans)
             /\ proc[q].pc # "save" => proc[q].scan \in DOMAIN scans
  BY <1>b, <1>a, Kinds DEF OwnScan
(* A scan that goes on to another stage, on the same side of the commit. *)
<1>c. ASSUME proc[q].op = "scan", proc[q].pc # "save", UNCHANGED history,
             NEW stage \in {"load", "commit", "final", "summary"},
             proc' = [proc EXCEPT ![q].pc = stage],
             stage \in {"final", "summary"} <=> proc[q].pc \in {"final", "summary"}
      PROVE  Rows'
  <2> DEFINE c == [proc[q] EXCEPT !.pc = stage]
  <2>1. /\ c.op = "scan" /\ c.pc = stage /\ c.scan = proc[q].scan /\ c.found = proc[q].found
        /\ c.last = proc[q].last
    BY <1>b, <1>c DEF Scanning
  <2>2. proc' = [proc EXCEPT ![q] = c]
    BY <1>a, <1>c DEF ProcOK
  <2>3. \A f \in Findings : LET o == proc[q].last[f] IN o = None \/ (o \in seen /\ o.finding = f)
    BY <1>c DEF Rows, CommittedRows
  <2>4. /\ c.pc # "save" /\ c.pc \in {"final", "summary"} <=> proc[q].pc \in {"final", "summary"}
        /\ \A f \in Findings :
             c.last[f] = None \/ (c.last[f] \in seen /\ c.last[f].finding = f)
    BY <1>c, <2>1, <2>3
  <2> HIDE DEF c
  <2> QED
    BY <1>a, <1>c, <2>1, <2>2, <2>4, QuietRows
<1>1. CASE OpenMarking(q)
  BY <1>1, <1>a, QuietRows DEF OpenMarking, Open
<1>2. CASE OpenScan(q)
  <2> PICK found \in Found, env \in BOOLEAN :
        Open(q, [op |-> "scan", pc |-> "save", on |-> ~(env \/ off), found |-> found,
                 scan |-> 0, last |-> [f \in Findings |-> None]])
    BY <1>2 DEF OpenScan
  <2> DEFINE c == [op |-> "scan", pc |-> "save", on |-> ~(env \/ off), found |-> found,
                   scan |-> 0, last |-> [f \in Findings |-> None]]
  <2>1. c.op = "scan" /\ c.pc = "save" /\ c.scan = 0 /\ \A f \in Findings : c.last[f] = None
    OBVIOUS
  <2>2. UNCHANGED history /\ proc' = [proc EXCEPT ![q] = c]
    BY DEF Open
  <2> HIDE DEF c
  <2> QED
    BY <1>a, <2>1, <2>2, QuietRows
<1>3. CASE OpenSwitch(q)
  BY <1>3, <1>a, QuietRows DEF OpenSwitch, Open
<1>4. CASE Switch(q)
  <2>1. proc[q] \in Switching
    BY <1>4, <1>a, Kinds DEF Switch
  <2>2. /\ proc' = [proc EXCEPT ![q] = [proc[q] EXCEPT !.pc = "audit"]]
        /\ [proc[q] EXCEPT !.pc = "audit"].op # "scan"
    BY <1>4, <1>a, <2>1 DEF Switch, ProcOK, Switching
  <2> QED
    BY <1>4, <1>a, <2>2, QuietRows DEF Switch
<1>5. CASE SwitchAudited(q)
  BY <1>5, <1>a, EndRows DEF SwitchAudited
<1>6. CASE Refuse(q)
  BY <1>6, <1>a, EndRows DEF Refuse
<1>7. CASE Load(q)
  <2>1. proc[q] \in Marking
    BY <1>7, <1>a, Kinds DEF Load, Writes
  <2> DEFINE c == [proc[q] EXCEPT !.pc = "commit", !.row = RowOf(proc[q].print)]
  <2>2. proc' = [proc EXCEPT ![q] = c] /\ c.op # "scan"
    BY <1>7, <1>a, <2>1 DEF Load, ProcOK, Marking
  <2> QED
    BY <1>7, <1>a, <2>2, QuietRows DEF Load
<1>8. CASE Decline(q)
  BY <1>8, <1>a, EndRows DEF Decline, Commits
<1>9. CASE Admit(q) \/ Restore(q) \/ Correct(q) \/ Delete(q) \/ Purge(q)
  BY <1>9, <1>a, EndRows DEF Admit, Restore, Correct, Delete, Purge, Commits
<1>10. CASE ScanDegraded(q)
  BY <1>10, <1>a, EndRows DEF ScanDegraded
<1>11. CASE Save(q)
  <2>1. proc[q] \in Scanning /\ proc[q].op = "scan" /\ proc[q].pc = "save"
    BY <1>11, <1>b DEF Save
  <2> DEFINE s == [found |-> proc[q].found, at |-> 0, reconciled |-> FALSE, summary |-> FALSE]
             m == Len(scans) + 1
  <2>2. s \in Scan /\ s.found = proc[q].found /\ s.reconciled = FALSE /\ s.summary = FALSE
    BY <2>1 DEF Scanning, Scan
  <2> HIDE DEF s
  <2>3. /\ scans' \in Seq(Scan) /\ Len(scans') = m
        /\ \A i \in 1..Len(scans) : scans'[i] = scans[i]
        /\ scans'[m] = s
    BY <1>11, <1>a, <2>2, AppendProperties DEF Save, ScansOK, s
  <2>4. DOMAIN scans' = 1..m
    BY <2>3, LenProperties
  <2> DEFINE c == [proc[q] EXCEPT !.pc = "time", !.scan = m]
  <2>5. m \in Nat
    BY <1>a
  <2>6. /\ c.op = "scan" /\ c.pc = "time" /\ c.scan = m
        /\ c.found = proc[q].found /\ c.last = proc[q].last
    <3> HIDE DEF m
    <3> QED
      BY <2>1, <2>5, SavedType
  <2>7. proc' = [proc EXCEPT ![q] = c] /\ seen' = seen
    BY <1>11, <1>a, <2>3 DEF Save, ProcOK
  <2> HIDE DEF c
  <2>8. \A r \in Procs : proc'[r] = IF r = q THEN c ELSE proc[r]
    BY <1>a, <2>7 DEF ProcOK
  <2>9. OwnRecord'
    BY <1>a, <2>2, <2>3, <2>6, <2>8 DEF Rows, OwnRecord, OwnScan
  <2>10. CommittedRows'
    BY <1>a, <2>1, <2>3, <2>4, <2>6, <2>7, <2>8 DEF Rows, CommittedRows
  <2>11. CountersAgree'
    BY <2>7 DEF Rows, CountersAgree
  <2>12. ChangesAreReal'
    <3>1. \A i : ActiveIn(i)' = ActiveIn(i)
      BY <2>7 DEF ActiveIn
    <3>2. m \notin DOMAIN scans
      BY <1>a
    <3>3. ActiveIn(m) = {}
      BY <3>2 DEF ActiveIn, Rows, CommittedRows
    <3>4. ASSUME NEW i \in DOMAIN scans'
          PROVE  /\ ActiveIn(i) = IF scans'[i].reconciled
                                  THEN {f \in Findings : scans'[i].found[f] # None} ELSE {}
                 /\ scans'[i].summary => scans'[i].reconciled
      <4>1. CASE i = m
        BY <2>2, <2>3, <3>3, <4>1
      <4>2. CASE i # m
        <5>1. i \in DOMAIN scans /\ scans'[i] = scans[i]
          BY <1>a, <2>3, <2>4, <4>2
        <5> QED
          BY <5>1 DEF Rows, ChangesAreReal
      <4> QED
        BY <4>1, <4>2
    <3> QED
      BY <3>1, <3>4 DEF ChangesAreReal
  <2> QED
    BY <2>9, <2>10, <2>11, <2>12 DEF Rows
<1>12. CASE Stamp(q)
  <2>1. proc[q] \in Scanning /\ proc[q].op = "scan" /\ proc[q].pc = "time"
    BY <1>12, <1>b DEF Stamp
  <2> DEFINE k == proc[q].scan
  <2>2. k \in DOMAIN scans /\ scans[k] \in Scan
    BY <2>1, <1>a, <1>b, ScanType
  <2> DEFINE t == [scans[k] EXCEPT !.at = clock + 1]
  <2>3. /\ t.found = scans[k].found /\ (t.reconciled <=> scans[k].reconciled)
        /\ t.summary <=> scans[k].summary
    BY <2>2 DEF Scan
  <2>4. scans' = [scans EXCEPT ![k] = t] /\ seen' = seen
    BY <1>12, <2>2 DEF Stamp
  <2> DEFINE c == [proc[q] EXCEPT !.pc = "load"]
  <2>5. c.op = "scan" /\ c.pc = "load" /\ c.scan = k /\ c.found = proc[q].found
        /\ c.last = proc[q].last
    BY <2>1 DEF Scanning
  <2>6. proc' = [proc EXCEPT ![q] = c]
    BY <1>12, <1>a DEF Stamp, ProcOK
  <2>7. DOMAIN scans' = DOMAIN scans /\ scans'[k] = t
        /\ \A i \in DOMAIN scans : i # k => scans'[i] = scans[i]
    BY <2>2, <2>4
  <2> HIDE DEF t, c
  <2>8. \A r \in Procs : proc'[r] = IF r = q THEN c ELSE proc[r]
    BY <1>a, <2>6 DEF ProcOK
  <2> QED
    BY <1>a, <2>1, <2>2, <2>3, <2>4, <2>5, <2>7, <2>8, SameScans
<1>13. CASE LoadLatest(q)
  <2>1. proc[q] \in Scanning /\ proc[q].op = "scan" /\ proc[q].pc = "load"
    BY <1>13, <1>b DEF LoadLatest
  <2> PICK last \in [Findings -> seen \cup {None}] :
        /\ \A f \in Findings : IsLatest(f, last[f])
        /\ proc' = [proc EXCEPT ![q].pc = "commit", ![q].last = last]
    BY <1>13 DEF LoadLatest
  <2> DEFINE c == [proc[q] EXCEPT !.pc = "commit", !.last = last]
  <2>2. last \in [Findings -> Seen \cup {None}]
    BY <1>a DEF SeenOK
  <2>3. /\ c.op = "scan" /\ c.pc = "commit" /\ c.scan = proc[q].scan
        /\ c.last = last /\ c.found = proc[q].found
    BY <2>1 DEF Scanning
  <2>4. \A f \in Findings : last[f] = None \/ (last[f] \in seen /\ last[f].finding = f)
    BY DEF IsLatest
  <2>5. proc' = [proc EXCEPT ![q] = c] /\ UNCHANGED history
    BY <1>13, <1>a DEF LoadLatest, ProcOK
  <2> HIDE DEF c
  <2>6. \A f \in Findings : c.last[f] = None \/ (c.last[f] \in seen /\ c.last[f].finding = f)
    BY <2>3, <2>4
  <2>7. c.pc \in {"final", "summary"} <=> proc[q].pc \in {"final", "summary"}
    BY <2>1, <2>3
  <2> QED
    BY <1>a, <2>1, <2>3, <2>5, <2>6, <2>7, QuietRows
<1>14. CASE Reconcile(q)
  BY <1>14, <1>a, ReconcileRows
<1>15. CASE Snapshot(q)
  BY <1>15, <1>c DEF Snapshot
<1>16. CASE Summarise(q)
  <2>1. proc[q] \in Scanning /\ proc[q].op = "scan" /\ proc[q].pc = "summary"
    BY <1>16, <1>b DEF Summarise
  <2> DEFINE k == proc[q].scan
  <2>2. k \in DOMAIN scans /\ scans[k] \in Scan
    BY <2>1, <1>a, <1>b, ScanType
  <2> DEFINE t == [scans[k] EXCEPT !.summary = TRUE]
  <2>3. t.found = scans[k].found /\ t.reconciled <=> scans[k].reconciled
    BY <2>2 DEF Scan
  <2>4. scans[k].reconciled
    BY <2>1 DEF Rows, OwnRecord
  <2>5. scans' = [scans EXCEPT ![k] = t] /\ seen' = seen /\ proc' = [proc EXCEPT ![q] = Idle]
    BY <1>16, <2>2 DEF Summarise, End
  <2>6. DOMAIN scans' = DOMAIN scans /\ scans'[k] = t
        /\ \A i \in DOMAIN scans : i # k => scans'[i] = scans[i]
    BY <2>2, <2>5
  <2> HIDE DEF t, k
  <2>7. \A r \in Procs : proc'[r] = IF r = q THEN Idle ELSE proc[r]
    BY <1>a, <2>5 DEF ProcOK
  <2>8. \A i \in DOMAIN scans :
          /\ scans'[i].found = scans[i].found
          /\ scans'[i].reconciled <=> scans[i].reconciled
          /\ scans'[i].summary => scans[i].summary \/ scans[i].reconciled
    BY <2>3, <2>4, <2>6
  <2>9. Idle.op # "scan"
    BY DEF Idle
  <2> QED
    BY <1>a, <2>1, <2>5, <2>6, <2>7, <2>8, <2>9, SameScans
<1>17. CASE Fails(q)
  <2>1. CASE proc[q].pc = "final"
    BY <1>17, <1>c, <2>1 DEF Fails, ProcOK
  <2>2. CASE proc[q].pc # "final"
    <3>1. End(q)
      BY <1>17, <1>a, <2>2 DEF Fails, End, ProcOK
    <3> QED
      BY <1>17, <1>a, <3>1, EndRows DEF Fails
  <2> QED
    BY <2>1, <2>2
<1>18. CASE Killed(q)
  BY <1>18, <1>a, EndRows DEF Killed
<1> QED
  BY <1>1, <1>2, <1>3, <1>4, <1>5, <1>6, <1>7, <1>8, <1>9, <1>10, <1>11, <1>12, <1>13,
     <1>14, <1>15, <1>16, <1>17, <1>18 DEF Step

-----------------------------------------------------------------------------
LEMMA MInvStep == MInv /\ [Next]_vars => MInv'
<1> SUFFICES ASSUME MInv, [Next]_vars PROVE MInv'
  OBVIOUS
<1>1. CASE Next
  <2> PICK q \in Procs : Step(q)
    BY <1>1 DEF Next
  <2>1. TypeOK' /\ GateFirst'
    BY TypeStep DEF MInv
  <2>2. Rows'
    BY StepRows DEF MInv, Rows
  <2> QED
    BY <2>1, <2>2 DEF MInv, Rows
<1>2. CASE UNCHANGED vars
  BY <1>2 DEF vars, switch, records, history, MInv, TypeOK, GateFirst, OwnRecord,
     CommittedRows, CountersAgree, ChangesAreReal, ActiveIn
<1> QED
  BY <1>1, <1>2

LEMMA SpecMInv == Spec => []MInv
BY InitMInv, MInvStep, PTL DEF Spec

(* Rows, audit entries, observations and records are of their types in any *)
(* interleaving of the commands: ids and fingerprints stay unique (the     *)
(* schema of store.py), no secret reaches a row, and every scan past its   *)
(* save holds the id of its record.                                        *)
THEOREM MemoryTypeCorrect == Spec => []TypeOK
<1>1. MInv => TypeOK
  BY DEF MInv
<1> QED
  BY <1>1, SpecMInv, PTL

(* The counters that store.py carries from one observation to the next     *)
(* agree with the state of the observation, whatever scans overlap and     *)
(* whichever of them is killed or fails.                                   *)
THEOREM CountersNeverDrift == Spec => []CountersAgree
<1>1. MInv => CountersAgree
  BY DEF MInv
<1> QED
  BY <1>1, SpecMInv, PTL

(* The observations of a scan are exactly what it found once its commit is *)
(* through, and none before, and only such a scan has a summary: "raven    *)
(* changes" never compares half a scan.                                    *)
THEOREM ChangesNeverInvented == Spec => []ChangesAreReal
<1>1. MInv => ChangesAreReal
  BY DEF MInv
<1> QED
  BY <1>1, SpecMInv, PTL

-----------------------------------------------------------------------------
(* The audit rows of a print, and what one more of them tells.             *)
HasLatest(S) == S = {} \/ \E i \in S : \A j \in S : j <= i
TrailInv ==
    /\ TrailTellsState
    /\ \A p \in Prints : HasLatest(Done(trail[p])) /\ HasLatest(Hashes(trail[p]))

LEMMA LatestIs ==
    ASSUME NEW S, NEW n \in Nat, S \subseteq 1..n, NEW i \in S, \A j \in S : j <= i
    PROVE  Latest(S) = i
<1>1. Latest(S) \in S /\ \A j \in S : j <= Latest(S)
  BY DEF Latest
<1> PICK l : l = Latest(S)
  OBVIOUS
<1>2. l \in 1..n /\ i \in 1..n /\ l <= i /\ i <= l
  BY <1>1
<1> QED
  BY <1>2

LEMMA LatestAdded ==
    ASSUME NEW n \in Nat, NEW S, S \subseteq 1..n
    PROVE  HasLatest(S \cup {n + 1}) /\ Latest(S \cup {n + 1}) = n + 1
<1>1. n + 1 \in S \cup {n + 1} /\ \A j \in S \cup {n + 1} : j <= n + 1
  OBVIOUS
<1>2. S \cup {n + 1} \subseteq 1..(n + 1) /\ n + 1 \in Nat
  OBVIOUS
<1> QED
  BY <1>1, <1>2, LatestIs DEF HasLatest

LEMMA AppendMarks ==
    ASSUME NEW t \in Seq(Entry), NEW e \in Entry
    PROVE  LET u == Append(t, e)
               n == Len(t) IN
           /\ n \in Nat /\ \A i \in 1..n : u[i] = t[i]
           /\ u[n + 1] = e
           /\ Done(t) \subseteq 1..n /\ Hashes(t) \subseteq 1..n /\ Labelled(t) \subseteq 1..n
           /\ Done(u) = IF e.action # "reject" THEN Done(t) \cup {n + 1} ELSE Done(t)
           /\ Hashes(u) = IF e.after # None THEN Hashes(t) \cup {n + 1} ELSE Hashes(t)
           /\ Labelled(u) = IF e.action \in {"admit", "restore"}
                            THEN Labelled(t) \cup {n + 1} ELSE Labelled(t)
<1> DEFINE u == Append(t, e)
           n == Len(t)
<1>1. /\ n \in Nat /\ \A i \in 1..n : u[i] = t[i]
      /\ u[n + 1] = e
      /\ DOMAIN t = 1..n /\ DOMAIN u = 1..(n + 1)
  BY AppendProperties, LenProperties
<1>2. \A i : i \in 1..(n + 1) <=> i \in 1..n \/ i = n + 1
  BY <1>1
<1> HIDE DEF u, n
<1>3. Done(t) \subseteq 1..n /\ Hashes(t) \subseteq 1..n /\ Labelled(t) \subseteq 1..n
  BY <1>1 DEF Done, Hashes, Labelled
<1>4. Done(u) = IF e.action # "reject" THEN Done(t) \cup {n + 1} ELSE Done(t)
  BY <1>1, <1>2 DEF Done
<1>5. Hashes(u) = IF e.after # None THEN Hashes(t) \cup {n + 1} ELSE Hashes(t)
  BY <1>1, <1>2 DEF Hashes
<1>6. Labelled(u) = IF e.action \in {"admit", "restore"} THEN Labelled(t) \cup {n + 1}
                    ELSE Labelled(t)
  BY <1>1, <1>2 DEF Labelled
<1> QED
  BY <1>1, <1>3, <1>4, <1>5, <1>6 DEF u, n

LEMMA LabelsCount ==
    ASSUME NEW t \in Seq(Entry), NEW e \in Entry
    PROVE  Cardinality(Labelled(Append(t, e))) =
             IF e.action \in {"admit", "restore"} THEN Cardinality(Labelled(t)) + 1
             ELSE Cardinality(Labelled(t))
<1> DEFINE n == Len(t)
<1>1. n \in Nat /\ Labelled(t) \subseteq 1..n
      /\ Labelled(Append(t, e)) = IF e.action \in {"admit", "restore"}
                                  THEN Labelled(t) \cup {n + 1} ELSE Labelled(t)
  BY AppendMarks
<1> HIDE DEF n
<1>2. IsFiniteSet(1..n)
  BY <1>1, FS_Interval
<1>3. IsFiniteSet(Labelled(t)) /\ n + 1 \notin Labelled(t)
  BY <1>1, <1>2, FS_Subset
<1>4. Cardinality(Labelled(t) \cup {n + 1}) = Cardinality(Labelled(t)) + 1
  BY <1>3, FS_AddElement
<1> QED
  BY <1>1, <1>4

LEMMA AppendTells ==
    ASSUME NEW t \in Seq(Entry), NEW e \in Entry, HasLatest(Done(t)), HasLatest(Hashes(t))
    PROVE  LET u == Append(t, e) IN
           /\ HasLatest(Done(u)) /\ HasLatest(Hashes(u))
           /\ e.action = "reject" /\ e.after = None => \A r : Tells(t, r) => Tells(u, r)
           /\ e.action = "purge" => Tells(u, None)
           /\ e.action \in {"admit", "restore", "correct"} /\ e.after # None =>
                \A r : r # None /\ r.live = TRUE /\ r.reason = e.after => Tells(u, r)
           /\ e.action = "delete" /\ e.after = None =>
                \A r, s : Tells(t, r) /\ r # None /\ s # None /\ s.live = FALSE
                          /\ s.reason = r.reason => Tells(u, s)
<1> PICK u : u = Append(t, e)
  OBVIOUS
<1> PICK n : n = Len(t)
  OBVIOUS
<1>1. /\ n \in Nat /\ \A i \in 1..n : u[i] = t[i]
      /\ u[n + 1] = e
      /\ Done(t) \subseteq 1..n /\ Hashes(t) \subseteq 1..n
      /\ Done(u) = IF e.action # "reject" THEN Done(t) \cup {n + 1} ELSE Done(t)
      /\ Hashes(u) = IF e.after # None THEN Hashes(t) \cup {n + 1} ELSE Hashes(t)
  BY AppendMarks
<1>2. \A S : S \subseteq 1..n => HasLatest(S \cup {n + 1}) /\ Latest(S \cup {n + 1}) = n + 1
  BY <1>1, LatestAdded
<1>3. HasLatest(Done(u)) /\ HasLatest(Hashes(u))
  BY <1>1, <1>2
<1>4. e.action # "reject" => Done(u) # {} /\ u[Latest(Done(u))] = e
  BY <1>1, <1>2
<1>5. e.after # None => Hashes(u) # {} /\ u[Latest(Hashes(u))] = e
  BY <1>1, <1>2
<1>6. \A S : S \subseteq 1..n /\ HasLatest(S) /\ S # {} => u[Latest(S)] = t[Latest(S)]
  <2> SUFFICES ASSUME NEW S, S \subseteq 1..n, HasLatest(S), S # {}
               PROVE  u[Latest(S)] = t[Latest(S)]
    OBVIOUS
  <2>1. Latest(S) \in S
    BY DEF Latest, HasLatest
  <2> QED
    BY <1>1, <2>1
<1>7. e.action = "reject" =>
        Done(u) = Done(t) /\ (Done(t) # {} => u[Latest(Done(u))] = t[Latest(Done(t))])
  BY <1>1, <1>6
<1>8. e.after = None =>
        Hashes(u) = Hashes(t) /\ (Hashes(t) # {} => u[Latest(Hashes(u))] = t[Latest(Hashes(t))])
  BY <1>1, <1>6
<1>9. e.action = "reject" /\ e.after = None => \A r : Tells(t, r) => Tells(u, r)
  BY <1>7, <1>8 DEF Tells
<1>10. e.action = "purge" => Tells(u, None)
  BY <1>4 DEF Tells
<1>11. e.action \in {"admit", "restore", "correct"} /\ e.after # None =>
         \A r : r # None /\ r.live = TRUE /\ r.reason = e.after => Tells(u, r)
  BY <1>4, <1>5 DEF Tells
<1>12. e.action = "delete" /\ e.after = None =>
         \A r, s : Tells(t, r) /\ r # None /\ s # None /\ s.live = FALSE
                   /\ s.reason = r.reason => Tells(u, s)
  BY <1>4, <1>8 DEF Tells
<1> QED
  BY <1>3, <1>9, <1>10, <1>11, <1>12

(* The row of a print is the one row with that print. *)
LEMMA RowOfIs ==
    /\ MarksOK => /\ \A r \in marks : RowOf(r.print) = r
                  /\ \A p : (\A r \in marks : r.print # p) => RowOf(p) = None
    /\ MarksOK' => /\ \A r \in marks' : RowOf(r.print)' = r
                   /\ \A p : (\A r \in marks' : r.print # p) => RowOf(p)' = None
<1>1. ASSUME MarksOK, NEW r \in marks PROVE RowOf(r.print) = r
  <2>1. RowOf(r.print) \in marks /\ RowOf(r.print).print = r.print
    BY DEF RowOf
  <2> QED
    BY <1>1, <2>1 DEF MarksOK
<1>2. ASSUME MarksOK', NEW r \in marks' PROVE RowOf(r.print)' = r
  <2> PICK p : p = r.print
    OBVIOUS
  <2>1. RowOf(p)' \in marks' /\ RowOf(p)'.print = p
    BY DEF RowOf
  <2> QED
    BY <1>2, <2>1 DEF MarksOK
<1>3. \A p : ((\A r \in marks : r.print # p) => RowOf(p) = None)
             /\ ((\A r \in marks' : r.print # p) => RowOf(p)' = None)
  BY DEF RowOf
<1> QED
  BY <1>1, <1>2, <1>3

SamePrint(p) == \A r : r.print = p => (r \in marks' <=> r \in marks)

LEMMA SameRow ==
    ASSUME MarksOK, MarksOK', NEW p \in Prints, SamePrint(p)
    PROVE  RowOf(p)' = RowOf(p)
<1>1. CASE \E r \in marks : r.print = p
  <2> PICK r \in marks : r.print = p
    BY <1>1
  <2>1. r \in marks'
    BY DEF SamePrint
  <2> QED
    BY <2>1, RowOfIs
<1>2. CASE ~\E r \in marks : r.print = p
  <2>1. \A r \in marks' : r.print # p
    BY <1>2 DEF SamePrint
  <2> QED
    BY <1>2, <2>1, RowOfIs
<1> QED
  BY <1>1, <1>2

(* The steps that write no rows, and those that write one print. *)
LEMMA QuietTrail ==
    ASSUME TrailInv, UNCHANGED records, late \subseteq late'
    PROVE  TrailInv'
BY DEF TrailInv, TrailTellsState, records, RowOf

LEMMA WrittenTrail ==
    ASSUME MarksOK, MarksOK', TrailOK, TrailInv, NEW p \in Prints, NEW e \in Entry,
           trail' = [trail EXCEPT ![p] = Append(@, e)],
           labels' = IF e.action \in {"admit", "restore"}
                     THEN [labels EXCEPT ![p] = @ + 1] ELSE labels,
           late \subseteq late',
           \A x \in Prints \ late' : x # p => SamePrint(x),
           p \notin late' /\ Tells(trail[p], RowOf(p)) => Tells(Append(trail[p], e), RowOf(p)')
    PROVE  TrailInv'
<1>1. /\ trail[p] \in Seq(Entry) /\ trail'[p] = Append(trail[p], e)
      /\ \A x \in Prints : x # p => trail'[x] = trail[x] /\ labels'[x] = labels[x]
      /\ labels'[p] = IF e.action \in {"admit", "restore"} THEN labels[p] + 1 ELSE labels[p]
  BY DEF TrailOK
<1>2. HasLatest(Done(trail'[p])) /\ HasLatest(Hashes(trail'[p]))
  BY <1>1, AppendTells DEF TrailInv
<1>3. labels'[p] = Cardinality(Labelled(trail'[p]))
  BY <1>1, LabelsCount DEF TrailInv, TrailTellsState
<1>4. p \notin late' => Tells(trail'[p], RowOf(p)')
  BY <1>1 DEF TrailInv, TrailTellsState
<1>5. ASSUME NEW x \in Prints, x # p
      PROVE  /\ HasLatest(Done(trail'[x])) /\ HasLatest(Hashes(trail'[x]))
             /\ labels'[x] = Cardinality(Labelled(trail'[x]))
             /\ x \notin late' => Tells(trail'[x], RowOf(x)')
  <2>1. x \notin late' => RowOf(x)' = RowOf(x)
    BY <1>5, SameRow
  <2> QED
    BY <1>1, <1>5, <2>1 DEF TrailInv, TrailTellsState
<1> QED
  BY <1>2, <1>3, <1>4, <1>5 DEF TrailInv, TrailTellsState

(* A commit that is not late is of the row that is there, and a late one   *)
(* tells of every print whose row it writes.                               *)
LEMMA OnTime ==
    ASSUME MarksOK, NEW q \in Procs, NEW op, Commits(q, op), proc[q].print \in Prints
    PROVE  /\ late \subseteq late'
           /\ proc[q].print \notin late' => RowOf(proc[q].print) = proc[q].row
           /\ proc[q].row # None => \A r \in marks :
                r.id = proc[q].row.id /\ r.print \notin late' =>
                  r = proc[q].row /\ r.print = proc[q].print
<1> PICK p : p = proc[q].print
  OBVIOUS
<1>1. CASE RowOf(p) = proc[q].row
  <2>1. late' = late
    BY <1>1 DEF Commits
  <2>2. ASSUME proc[q].row # None, NEW r \in marks, r.id = proc[q].row.id
        PROVE  r = proc[q].row /\ r.print = p
    <3>1. proc[q].row \in marks /\ proc[q].row.print = p
      BY <1>1, <2>2, RowOfType
    <3> QED
      BY <2>2, <3>1 DEF MarksOK
  <2> QED
    BY <1>1, <2>1, <2>2
<1>2. CASE RowOf(p) # proc[q].row
  <2>1. late' = late \cup {p} \cup {r.print : r \in Targets(q)}
    BY <1>2 DEF Commits
  <2>2. \A r \in marks : proc[q].row # None /\ r.id = proc[q].row.id => r \in Targets(q)
    BY DEF Targets
  <2> QED
    BY <2>1, <2>2
<1> QED
  BY <1>1, <1>2

LEMMA InsertMoves ==
    ASSUME NEW q \in Procs, MarksOK, MarksOK', NEW p, p = proc[q].print, Insert(q)
    PROVE  /\ \A x \in Prints : x # p => SamePrint(x)
           /\ RowOf(p)' # None
           /\ RowOf(p)'.live = TRUE /\ RowOf(p)'.reason = proc[q].reason
<1> PICK i \in Ids : Insert(q)!(i)
  BY DEF Insert
<1> PICK n : n = [id |-> i, print |-> proc[q].print, reason |-> proc[q].reason, live |-> TRUE]
  OBVIOUS
<1>1. marks' = marks \cup {n} /\ n.print = proc[q].print /\ n.live = TRUE
      /\ n.reason = proc[q].reason
  OBVIOUS
<1>2. n \in Row
  BY <1>1 DEF MarksOK
<1>3. RowOf(p)' = n
  BY <1>1, RowOfIs
<1> QED
  BY <1>1, <1>2, <1>3, NoneApart DEF SamePrint

LEMMA UpdateMoves ==
    ASSUME NEW q \in Procs, MarksOK, MarksOK', NEW op, Commits(q, op),
           NEW p \in Prints, p = proc[q].print, proc[q].row \in Row,
           NEW new \in [reason : Reasons, live : BOOLEAN], Update(q, new)
    PROVE  /\ \A x \in Prints \ late' : x # p => SamePrint(x)
           /\ p \notin late' =>
                /\ RowOf(p)' # None
                /\ RowOf(p)'.live = new.live
                /\ RowOf(p)'.reason = new.reason
<1> PICK old \in Row : old = proc[q].row
  OBVIOUS
<1> DEFINE Merged(r) == [id |-> r.id, print |-> r.print,
                         reason |-> IF new.reason = old.reason THEN r.reason ELSE new.reason,
                         live   |-> IF new.live = old.live THEN r.live ELSE new.live]
<1>1. marks' = {IF r.id = old.id THEN Merged(r) ELSE r : r \in marks}
  BY DEF Update
<1>2. \A r \in marks : Merged(r).print = r.print
  OBVIOUS
<1>3. old # None
  BY NoneApart
<1>4. /\ p \notin late' => RowOf(p) = old
      /\ \A r \in marks : r.id = old.id /\ r.print \notin late' => r = old /\ r.print = p
  BY <1>3, OnTime
<1>5. ASSUME NEW x \in Prints \ late', x # p PROVE SamePrint(x)
  <2> SUFFICES ASSUME NEW r, r.print = x PROVE r \in marks' <=> r \in marks
    BY DEF SamePrint
  <2>1. \A s \in marks : s.print = x => s.id # old.id
    BY <1>4, <1>5
  <2>2. r \in marks => r \in marks'
    BY <1>1, <2>1
  <2>3. ASSUME r \in marks' PROVE r \in marks
    <3> PICK s \in marks : r = IF s.id = old.id THEN Merged(s) ELSE s
      BY <1>1, <2>3
    <3>1. s.print = x
      BY <1>2
    <3> QED
      BY <2>1, <3>1
  <2> QED
    BY <2>2, <2>3
<1>6. ASSUME p \notin late'
      PROVE  RowOf(p)' # None /\ RowOf(p)'.live = new.live /\ RowOf(p)'.reason = new.reason
  <2>1. old \in marks /\ old.print = p
    BY <1>3, <1>4, <1>6, RowOfType
  <2> PICK n : n = Merged(old)
    OBVIOUS
  <2>2. n \in marks'
    BY <1>1, <2>1
  <2>3. n.print = p /\ n.live = new.live /\ n.reason = new.reason
    BY <2>1
  <2>4. n # None
    BY <2>2, NoneApart DEF MarksOK
  <2>5. RowOf(p)' = n
    BY <2>2, <2>3, RowOfIs
  <2> QED
    BY <2>3, <2>4, <2>5
<1> QED
  BY <1>5, <1>6

LEMMA PurgeMoves ==
    ASSUME NEW q \in Procs, MarksOK, MarksOK', NEW op, Commits(q, op),
           NEW p \in Prints, p = proc[q].print, proc[q].row \in Row,
           marks' = {r \in marks : r.id # proc[q].row.id}
    PROVE  /\ \A x \in Prints \ late' : x # p => SamePrint(x)
           /\ p \notin late' => RowOf(p)' = None
<1> PICK old \in Row : old = proc[q].row
  OBVIOUS
<1>1. old # None
  BY NoneApart
<1>2. /\ p \notin late' => RowOf(p) = old
      /\ \A r \in marks : r.id = old.id /\ r.print \notin late' => r = old /\ r.print = p
  BY <1>1, OnTime
<1>3. \A x \in Prints \ late' : x # p => SamePrint(x)
  BY <1>2 DEF SamePrint
<1>4. ASSUME p \notin late' PROVE RowOf(p)' = None
  <2>1. old \in marks /\ old.print = p
    BY <1>1, <1>2, <1>4, RowOfType
  <2>2. \A r \in marks' : r.print # p
    BY <2>1 DEF MarksOK
  <2> QED
    BY <2>2, RowOfIs
<1> QED
  BY <1>3, <1>4

LEMMA TrailStep ==
    ASSUME TypeOK, TypeOK', GateFirst, TrailInv, NEW q \in Procs, Step(q)
    PROVE  TrailInv'
<1>a. MarksOK /\ MarksOK' /\ TrailOK /\ ProcOK /\ proc[q] \in Command
  BY TypeParts DEF Types, ProcOK
<1>b. CASE \/ OpenMarking(q) \/ OpenScan(q) \/ OpenSwitch(q) \/ Switch(q) \/ SwitchAudited(q)
           \/ Load(q) \/ ScanDegraded(q) \/ Save(q) \/ Stamp(q) \/ LoadLatest(q)
           \/ Snapshot(q) \/ Summarise(q) \/ Fails(q) \/ Killed(q)
  <2>1. UNCHANGED records /\ late' = late
    BY <1>b DEF OpenMarking, OpenScan, OpenSwitch, Open, Switch, SwitchAudited, Load,
       ScanDegraded, Save, Stamp, LoadLatest, Snapshot, Summarise, Fails, Killed, records
  <2> QED
    BY <2>1, QuietTrail
<1>c. CASE Reconcile(q)
  <2>1. UNCHANGED records /\ late \subseteq late'
    BY <1>c DEF Reconcile
  <2> QED
    BY <2>1, QuietTrail
(* What a mark, edit, deletion or purge brings to its commit. *)
<1>d. ASSUME NEW op \in Writes, Commits(q, op)
      PROVE  /\ proc[q] \in Marking /\ proc[q].op = op /\ proc[q].pc = "commit"
             /\ proc[q].print \in Prints /\ late \subseteq late'
             /\ proc[q].row \in Row \cup {None}
             /\ op = "mark" => proc[q].reason \in Reasons
             /\ proc[q].print \notin late' => RowOf(proc[q].print) = proc[q].row
  <2>1. proc[q] \in Marking /\ proc[q].op = op /\ proc[q].pc = "commit"
    BY <1>a, <1>d, Kinds DEF Commits
  <2>2. proc[q].print \in Prints /\ proc[q].row \in Row \cup {None}
        /\ (op = "mark" => proc[q].reason \in Reasons)
    BY <2>1 DEF Marking, GateFirst
  <2> QED
    BY <1>a, <1>d, <2>1, <2>2, OnTime
<1>e. ASSUME NEW p \in Prints, p = proc[q].print, NEW action \in
               {"admit", "restore", "correct", "delete", "purge", "reject"},
             NEW after \in Reasons \cup {None}, Audit(p, action, after),
             late \subseteq late',
             labels' = IF action \in {"admit", "restore"}
                       THEN [labels EXCEPT ![p] = @ + 1] ELSE labels,
             \A x \in Prints \ late' : x # p => SamePrint(x),
             p \notin late' =>
               \/ action = "reject" /\ after = None /\ marks' = marks
               \/ action = "purge" /\ RowOf(p)' = None
               \/ /\ action \in {"admit", "restore", "correct"} /\ after # None
                  /\ RowOf(p)' # None /\ RowOf(p)'.live = TRUE /\ RowOf(p)'.reason = after
               \/ /\ action = "delete" /\ after = None /\ RowOf(p) # None
                  /\ RowOf(p)' # None /\ RowOf(p)'.live = FALSE
                  /\ RowOf(p)'.reason = RowOf(p).reason
      PROVE  TrailInv'
  <2> PICK e : e = [action |-> action, after |-> after]
    OBVIOUS
  <2>1. e \in Entry /\ e.action = action /\ e.after = after
        /\ trail' = [trail EXCEPT ![p] = Append(@, e)]
    BY <1>e DEF Entry, Audit
  <2>2. marks' = marks => RowOf(p)' = RowOf(p)
    BY DEF RowOf
  <2> PICK t \in Seq(Entry) : t = trail[p]
    BY <1>a DEF TrailOK
  <2> PICK u : u = Append(t, e)
    OBVIOUS
  <2>3. /\ e.action = "reject" /\ e.after = None => \A r : Tells(t, r) => Tells(u, r)
        /\ e.action = "purge" => Tells(u, None)
        /\ e.action \in {"admit", "restore", "correct"} /\ e.after # None =>
             \A r : r # None /\ r.live = TRUE /\ r.reason = e.after => Tells(u, r)
        /\ e.action = "delete" /\ e.after = None =>
             \A r, s : Tells(t, r) /\ r # None /\ s # None /\ s.live = FALSE
                       /\ s.reason = r.reason => Tells(u, s)
    BY ZenonT(30), <2>1, AppendTells DEF TrailInv
  <2>4. p \notin late' /\ Tells(t, RowOf(p)) => Tells(u, RowOf(p)')
    <3> SUFFICES ASSUME p \notin late', Tells(t, RowOf(p)) PROVE Tells(u, RowOf(p)')
      OBVIOUS
    <3> PICK r : r = RowOf(p)
      OBVIOUS
    <3> PICK s : s = RowOf(p)'
      OBVIOUS
    <3>1. Tells(u, s)
      BY <1>e, <2>1, <2>2, <2>3
    <3> QED
      BY <3>1
  <2> QED
    BY <1>a, <1>e, <2>1, <2>4, WrittenTrail
<1> PICK p : p = proc[q].print
  OBVIOUS
<1>1. CASE Refuse(q)
  <2>1. proc[q].print \in Prints
    BY <1>1, <1>a, Kinds DEF Refuse, Writes, Marking
  <2>2. \A x : SamePrint(x)
    BY <1>1 DEF Refuse, SamePrint
  <2> QED
    BY <1>1, <1>e, <2>1, <2>2 DEF Refuse
<1>2. CASE Decline(q)
  <2>1. p \in Prints /\ late \subseteq late'
    BY <1>2, <1>d DEF Decline, Writes
  <2>2. \A x : SamePrint(x)
    BY <1>2 DEF Decline, SamePrint
  <2> QED
    BY <1>2, <1>e, <2>1, <2>2 DEF Decline
<1>3. CASE Admit(q)
  <2>1. p \in Prints /\ late \subseteq late' /\ proc[q].reason \in Reasons
    BY <1>3, <1>d DEF Admit, Writes
  <2>2. CASE RowOf(p) # None
    BY <1>3, <2>1, <2>2, QuietTrail DEF Admit
  <2>3. CASE RowOf(p) = None
    <3>1. Insert(q) /\ labels' = [labels EXCEPT ![p] = @ + 1]
          /\ Audit(p, "admit", proc[q].reason)
      BY <1>3, <2>3 DEF Admit
    <3>2. /\ \A x \in Prints : x # p => SamePrint(x)
          /\ RowOf(p)' # None /\ RowOf(p)'.live = TRUE /\ RowOf(p)'.reason = proc[q].reason
      BY <1>a, <3>1, InsertMoves
    <3> PICK why \in Reasons : why = proc[q].reason
      BY <2>1
    <3>3. why # None
      BY MemoryAssumption
    <3> QED
      BY <1>e, <2>1, <3>1, <3>2, <3>3
  <2> QED
    BY <2>2, <2>3
<1>4. CASE Restore(q)
  <2>1. /\ p \in Prints /\ late \subseteq late' /\ proc[q].reason \in Reasons
        /\ proc[q].row \in Row /\ Commits(q, "mark")
    BY <1>4, <1>d DEF Restore, Writes, Tombstone
  <2>2. CASE Gone(q)
    BY <1>4, <2>1, <2>2, QuietTrail DEF Restore
  <2>3. CASE ~Gone(q)
    <3> PICK why \in Reasons : why = proc[q].reason
      BY <2>1
    <3> PICK new \in [reason : Reasons, live : BOOLEAN] : new = [reason |-> why, live |-> TRUE]
      OBVIOUS
    <3>1. Update(q, new) /\ labels' = [labels EXCEPT ![p] = @ + 1] /\ Audit(p, "restore", why)
      BY <1>4, <2>3 DEF Restore
    <3>2. /\ \A x \in Prints \ late' : x # p => SamePrint(x)
          /\ p \notin late' =>
               RowOf(p)' # None /\ RowOf(p)'.live = new.live /\ RowOf(p)'.reason = new.reason
      BY <1>a, <2>1, <3>1, UpdateMoves
    <3>3. why # None /\ new.live = TRUE /\ new.reason = why
      BY MemoryAssumption
    <3> QED
      BY <1>e, <2>1, <3>1, <3>2, <3>3
  <2> QED
    BY <2>2, <2>3
<1>5. CASE Correct(q)
  <2>1. /\ p \in Prints /\ late \subseteq late' /\ proc[q].row \in Row /\ Commits(q, "edit")
        /\ proc[q] \in Marking /\ proc[q].reason # Secret
    BY <1>5, <1>d DEF Correct, Writes, Declined, Live
  <2>2. proc[q].reason \in Reasons
    BY <2>1 DEF Marking
  <2>3. CASE Gone(q) /\ proc[q].reason # proc[q].row.reason
    BY <1>5, <2>1, <2>3, QuietTrail DEF Correct, records
  <2>4. CASE ~(Gone(q) /\ proc[q].reason # proc[q].row.reason)
    <3> PICK why \in Reasons : why = proc[q].reason
      BY <2>2
    <3> PICK new \in [reason : Reasons, live : BOOLEAN] : new = [reason |-> why, live |-> TRUE]
      OBVIOUS
    <3>1. Update(q, new) /\ labels' = labels /\ Audit(p, "correct", why)
      BY <1>5, <2>4 DEF Correct
    <3>2. /\ \A x \in Prints \ late' : x # p => SamePrint(x)
          /\ p \notin late' =>
               RowOf(p)' # None /\ RowOf(p)'.live = new.live /\ RowOf(p)'.reason = new.reason
      BY <1>a, <2>1, <3>1, UpdateMoves
    <3>3. why # None /\ new.live = TRUE /\ new.reason = why
      BY MemoryAssumption
    <3> QED
      BY <1>e, <2>1, <3>1, <3>2, <3>3
  <2> QED
    BY <2>3, <2>4
<1>6. CASE Delete(q)
  <2>1. /\ p \in Prints /\ late \subseteq late' /\ proc[q].row \in Row /\ Commits(q, "delete")
        /\ p \notin late' => RowOf(p) = proc[q].row
    BY <1>6, <1>d DEF Delete, Writes, Declined, Live
  <2>2. CASE Gone(q)
    BY <1>6, <2>1, <2>2, QuietTrail DEF Delete, records
  <2>3. CASE ~Gone(q)
    <3> PICK why \in Reasons : why = proc[q].row.reason
      BY <2>1 DEF Row
    <3> PICK new \in [reason : Reasons, live : BOOLEAN] : new = [reason |-> why, live |-> FALSE]
      OBVIOUS
    <3>1. Update(q, new) /\ labels' = labels /\ Audit(p, "delete", None)
      BY <1>6, <2>3 DEF Delete
    <3>2. /\ \A x \in Prints \ late' : x # p => SamePrint(x)
          /\ p \notin late' =>
               RowOf(p)' # None /\ RowOf(p)'.live = new.live /\ RowOf(p)'.reason = new.reason
      BY <1>a, <2>1, <3>1, UpdateMoves
    <3>3. new.live = FALSE /\ new.reason = why
      OBVIOUS
    <3>4. p \notin late' => RowOf(p) # None /\ RowOf(p).reason = why
      BY <2>1, NoneApart
    <3> QED
      BY <1>e, <2>1, <3>1, <3>2, <3>3, <3>4
  <2> QED
    BY <2>2, <2>3
<1>7. CASE Purge(q)
  <2>1. /\ p \in Prints /\ late \subseteq late' /\ proc[q].row \in Row /\ Commits(q, "purge")
    BY <1>7, <1>d DEF Purge, Writes, Declined, Tombstone
  <2>2. /\ labels' = labels /\ Audit(p, "purge", None)
        /\ marks' = {r \in marks : r.id # proc[q].row.id}
    BY <1>7 DEF Purge
  <2>3. /\ \A x \in Prints \ late' : x # p => SamePrint(x)
        /\ p \notin late' => RowOf(p)' = None
    BY <1>a, <2>1, <2>2, PurgeMoves
  <2> QED
    BY <1>e, <2>1, <2>2, <2>3
<1> QED
  BY <1>b, <1>c, <1>1, <1>2, <1>3, <1>4, <1>5, <1>6, <1>7 DEF Step

-----------------------------------------------------------------------------
(* The history of the scans.  A finding is told of truly by its last row;  *)
(* the last of a set of scans is there to be chosen; times are given       *)
(* before anything is reconciled, and a scan observes a finding once.      *)
LastOf(s, S)  == CHOOSE i \in S : \A j \in S : s[j].at <= s[i].at
HasLast(s, S) == S = {} \/ \E i \in S : \A j \in S : s[j].at <= s[i].at

Timed ==
    /\ \A q \in Procs : proc[q].op = "scan" /\ proc[q].pc \in {"load", "commit", "final", "summary"}
                          => scans[proc[q].scan].at > 0
    /\ \A i \in Reconciled : scans[i].at > 0
OneEach ==
    /\ \A x \in seen : x.at = scans[x.scan].at
    /\ \A x, y \in seen : x.finding = y.finding /\ x.scan = y.scan => x = y
Told(f, o) ==
    /\ o.finding = f /\ \A x \in seen : x.finding = f => x.at <= o.at
    /\ o.state = "resolved" <=> Last(Reconciled) \notin With(f)
    /\ o.again = Cardinality(With(f)) - 1
    /\ o.back = Cardinality(Returns(f))
TrueOf(f) ==
    /\ With(f) = {} => \A x \in seen : x.finding # f
    /\ With(f) # {} => (\E o \in seen : Told(f, o)) /\ \E x \in seen : First(f) = {x}
HistInv ==
    /\ Timed /\ OneEach
    /\ "scans" \notin late =>
         /\ HasLast(scans, Reconciled) /\ \A i \in Reconciled : HasLast(scans, Before(i))
         /\ \A f \in Findings : TrueOf(f)

LEMMA LastOfIs ==
    ASSUME NEW s, NEW S, \A i \in S : s[i].at \in Nat, \A i, j \in S : s[i].at = s[j].at => i = j,
           NEW l \in S, \A j \in S : s[j].at <= s[l].at
    PROVE  LastOf(s, S) = l
<1> PICK m : m = LastOf(s, S)
  OBVIOUS
<1>1. m \in S /\ \A j \in S : s[j].at <= s[m].at
  BY DEF LastOf
<1>2. s[m].at <= s[l].at /\ s[l].at <= s[m].at /\ s[m].at \in Nat /\ s[l].at \in Nat
  BY <1>1
<1>3. s[m].at = s[l].at
  BY <1>2
<1> QED
  BY <1>1, <1>3

(* The reconciled scans. *)
LEMMA ScanFacts ==
    ASSUME TypeOK, Rows, HistInv
    PROVE  /\ DOMAIN scans = 1..Len(scans) /\ Len(scans) \in Nat
           /\ \A i \in Reconciled : i \in DOMAIN scans /\ scans[i].at \in Nat /\ scans[i].at > 0
           /\ \A i, j \in DOMAIN scans : scans[i].at = scans[j].at /\ scans[i].at > 0 => i = j
           /\ IsFiniteSet(Reconciled)
           /\ \A f : With(f) \subseteq Reconciled /\ IsFiniteSet(With(f))
                     /\ Returns(f) \subseteq With(f) /\ IsFiniteSet(Returns(f))
           /\ \A x \in seen : x \in Seen /\ x.scan \in Reconciled
<1>1. /\ DOMAIN scans = 1..Len(scans) /\ Len(scans) \in Nat
      /\ \A i, j \in DOMAIN scans : scans[i].at = scans[j].at /\ scans[i].at > 0 => i = j
  BY TypeParts, LenProperties DEF Types, ScansOK
<1>2. \A i \in Reconciled : i \in DOMAIN scans /\ scans[i].at \in Nat /\ scans[i].at > 0
  BY TypeParts, ScanType DEF Types, Reconciled, HistInv, Timed
<1>3. Reconciled \subseteq 1..Len(scans)
  BY <1>1 DEF Reconciled
<1>4. IsFiniteSet(1..Len(scans))
  BY <1>1, FS_Interval
<1>5. \A S : S \subseteq Reconciled => IsFiniteSet(S)
  BY <1>3, <1>4, FS_Subset
<1>6. \A f : With(f) \subseteq Reconciled /\ Returns(f) \subseteq With(f)
  BY DEF With, Returns
<1>7. \A x \in seen : x \in Seen /\ x.scan \in Reconciled
  BY TypeParts DEF Types, SeenOK, Rows, CommittedRows, Reconciled
<1> QED
  BY <1>1, <1>2, <1>5, <1>6, <1>7

(* One row of a finding is the last. *)
LEMMA OneLatest ==
    ASSUME TypeOK, Rows, HistInv, NEW f, NEW x \in seen, NEW y \in seen,
           x.finding = f, y.finding = f, x.at <= y.at, y.at <= x.at
    PROVE  x = y
<1>1. /\ x.at = scans[x.scan].at /\ y.at = scans[y.scan].at
      /\ x.scan \in Reconciled /\ y.scan \in Reconciled
  BY ScanFacts DEF HistInv, OneEach
<1>2. x.scan = y.scan
  <2> PICK i \in Reconciled : i = x.scan
    BY <1>1
  <2> PICK j \in Reconciled : j = y.scan
    BY <1>1
  <2>1. scans[i].at <= scans[j].at /\ scans[j].at <= scans[i].at
    BY <1>1
  <2>2. /\ scans[i].at \in Nat /\ scans[j].at \in Nat /\ scans[i].at > 0
        /\ i \in DOMAIN scans /\ j \in DOMAIN scans
    BY ScanFacts
  <2>3. scans[i].at = scans[j].at
    BY <2>1, <2>2
  <2> QED
    BY <2>2, <2>3, ScanFacts
<1> QED
  BY <1>2 DEF HistInv, OneEach

LEMMA HistoryTold == TypeOK /\ Rows /\ HistInv => HistoryIsTrue
<1> SUFFICES ASSUME TypeOK, Rows, HistInv, "scans" \notin late, NEW f \in Findings
             PROVE  IF With(f) = {} THEN IsLatest(f, None)
                    ELSE LET o == CHOOSE x \in seen : IsLatest(f, x)
                         IN  /\ (o.state = "resolved") = (Last(Reconciled) \notin With(f))
                             /\ o.again = Cardinality(With(f)) - 1
                             /\ o.back = Cardinality(Returns(f))
                             /\ Cardinality(First(f)) = 1
  BY DEF HistoryIsTrue
<1>1. CASE With(f) = {}
  BY <1>1 DEF HistInv, TrueOf, IsLatest
<1>2. CASE With(f) # {}
  <2> PICK o \in seen : Told(f, o)
    BY <1>2 DEF HistInv, TrueOf
  <2> PICK l : l = CHOOSE x \in seen : IsLatest(f, x)
    OBVIOUS
  <2>1. IsLatest(f, o) /\ o.finding = f
    BY DEF Told, IsLatest
  <2>2. l \in seen /\ IsLatest(f, l)
    BY <2>1
  <2>3. l.finding = f /\ l.at <= o.at /\ o.at <= l.at
    BY <2>1, <2>2 DEF IsLatest
  <2>4. l = o
    BY <2>1, <2>2, <2>3, OneLatest
  <2> PICK x \in seen : First(f) = {x}
    BY <1>2 DEF HistInv, TrueOf
  <2>5. Cardinality(First(f)) = 1
    BY FS_Singleton
  <2> QED
    BY <1>2, <2>4, <2>5 DEF Told
<1> QED
  BY <1>1, <1>2

LEMMA LastKept ==
    ASSUME NEW s, NEW t, NEW S, \A i \in S : s[i].at \in Nat,
           \A i, j \in S : s[i].at = s[j].at => i = j,
           \A i \in S : t[i].at = s[i].at, HasLast(s, S)
    PROVE  HasLast(t, S) /\ (S # {} => LastOf(t, S) = LastOf(s, S) /\ LastOf(s, S) \in S)
<1>1. HasLast(t, S)
  BY DEF HasLast
<1>2. ASSUME S # {} PROVE LastOf(t, S) = LastOf(s, S) /\ LastOf(s, S) \in S
  <2>1. PICK l \in S : \A j \in S : s[j].at <= s[l].at
    BY <1>2 DEF HasLast
  <2>2. LastOf(s, S) = l
    BY <2>1, LastOfIs
  <2>3. /\ \A i \in S : t[i].at \in Nat
        /\ \A i, j \in S : t[i].at = t[j].at => i = j
        /\ \A j \in S : t[j].at <= t[l].at
    BY <2>1
  <2>4. LastOf(t, S) = l
    BY <2>3, LastOfIs
  <2> QED
    BY <2>2, <2>4
<1> QED
  BY <1>1, <1>2

(* The steps that leave the reconciled scans and their observations alone. *)
LEMMA SameHistory ==
    ASSUME TypeOK, Rows, HistInv, Timed', seen' = seen, Reconciled' = Reconciled,
           "scans" \notin late' => "scans" \notin late,
           \A i \in Reconciled : scans'[i].at = scans[i].at /\ scans'[i].found = scans[i].found
    PROVE  HistInv'
<1>1. OneEach'
  BY ScanFacts DEF HistInv, OneEach
<1>2. \A f : With(f)' = With(f) /\ First(f)' = First(f)
  BY DEF With, First
<1>3. \A i \in Reconciled : Before(i)' = Before(i) /\ Before(i) \subseteq Reconciled
  BY DEF Before
<1>4. \A S : S \subseteq Reconciled /\ HasLast(scans, S) => HasLast(scans', S)
  BY DEF HasLast
<1>5. \A S : S \subseteq Reconciled /\ HasLast(scans, S) /\ S # {} =>
               LastOf(scans', S) = LastOf(scans, S)
  <2> SUFFICES ASSUME NEW S, S \subseteq Reconciled, HasLast(scans, S), S # {}
               PROVE  LastOf(scans', S) = LastOf(scans, S)
    OBVIOUS
  <2>1. /\ \A i \in S : scans[i].at \in Nat /\ scans'[i].at = scans[i].at
        /\ \A i, j \in S : scans[i].at = scans[j].at => i = j
    BY ScanFacts
  <2> PICK t : t = scans'
    OBVIOUS
  <2>2. LastOf(t, S) = LastOf(scans, S)
    BY <2>1, LastKept
  <2> QED
    BY <2>2
<1>6. SUFFICES ASSUME "scans" \notin late'
               PROVE  /\ HasLast(scans', Reconciled')
                      /\ \A i \in Reconciled' : HasLast(scans', Before(i)')
                      /\ \A f \in Findings : TrueOf(f)'
  BY <1>1 DEF HistInv
<1>7. /\ HasLast(scans, Reconciled) /\ \A i \in Reconciled : HasLast(scans, Before(i))
      /\ \A f \in Findings : TrueOf(f)
  BY <1>6 DEF HistInv
<1>8. /\ HasLast(scans', Reconciled')
      /\ \A i \in Reconciled' : HasLast(scans', Before(i)')
  BY <1>3, <1>4, <1>7
<1>9. ASSUME NEW f \in Findings PROVE TrueOf(f)'
  <2>1. With(f) \subseteq Reconciled
    BY DEF With
  <2>2. \A i \in Reconciled : Before(i) \cap With(f) # {} =>
          LastOf(scans', Before(i)) = LastOf(scans, Before(i))
    BY <1>3, <1>5, <1>7
  <2>3. Returns(f)' = Returns(f)
    <3>1. Returns(f) = {i \in With(f) : /\ Before(i) \cap With(f) # {}
                                        /\ LastOf(scans, Before(i)) \notin With(f)}
      BY DEF Returns, Last, LastOf
    <3>2. Returns(f)' = {i \in With(f)' : /\ Before(i)' \cap With(f)' # {}
                                          /\ LastOf(scans', Before(i)') \notin With(f)'}
      BY DEF Returns, Last, LastOf
    <3> PICK W : W = With(f)
      OBVIOUS
    <3>3. \A i \in W : Before(i)' = Before(i) /\
            (Before(i) \cap W # {} => LastOf(scans', Before(i)) = LastOf(scans, Before(i)))
      BY <1>3, <2>1, <2>2
    <3> QED
      BY <1>2, <3>1, <3>2, <3>3
  <2>4. With(f) # {} => Last(Reconciled)' = Last(Reconciled)
    BY <1>5, <1>7, <2>1 DEF Last, LastOf
  <2>5. \A o : With(f) # {} => (Told(f, o)' <=> Told(f, o))
    BY <1>2, <2>3, <2>4 DEF Told
  <2> QED
    BY <1>2, <1>7, <2>5 DEF TrueOf
<1> QED
  BY <1>8, <1>9

(* What a scan observes of one finding. *)
LEMMA ObservedIs ==
    ASSUME NEW f \in Findings, NEW o \in Seen \cup {None}, NEW i, NEW form
    PROVE  /\ form # None /\ o = None =>
                \E n : /\ Observed(f, o, i, form) = {n}
                       /\ n.finding = f /\ n.scan = i /\ n.at = scans[i].at
                       /\ n.state = "new" /\ n.again = 0 /\ n.back = 0
           /\ form # None /\ o # None =>
                \E n : /\ Observed(f, o, i, form) = {n}
                       /\ n.finding = o.finding /\ n.scan = i /\ n.at = scans[i].at
                       /\ n.state \notin {"new", "resolved"} /\ n.again = o.again + 1
                       /\ n.back = IF o.state = "resolved" THEN o.back + 1 ELSE o.back
           /\ form = None /\ o # None /\ o.state # "resolved" =>
                \E n : /\ Observed(f, o, i, form) = {n}
                       /\ n.finding = o.finding /\ n.scan = i /\ n.at = scans[i].at
                       /\ n.state = "resolved" /\ n.again = o.again /\ n.back = o.back
           /\ form = None /\ (o = None \/ o.state = "resolved") => Observed(f, o, i, form) = {}
<1>1. ASSUME form # None, o = None
      PROVE  \E n : /\ Observed(f, o, i, form) = {n}
                    /\ n.finding = f /\ n.scan = i /\ n.at = scans[i].at
                    /\ n.state = "new" /\ n.again = 0 /\ n.back = 0
  <2> PICK n : n = Fresh(f, i, form)
    OBVIOUS
  <2>1. Observed(f, o, i, form) = {n}
    BY <1>1 DEF Observed
  <2>2. /\ n.finding = f /\ n.scan = i /\ n.at = scans[i].at
        /\ n.state = "new" /\ n.again = 0 /\ n.back = 0
    BY DEF Fresh
  <2> QED
    BY <2>1, <2>2
<1>2. ASSUME form # None, o # None
      PROVE  \E n : /\ Observed(f, o, i, form) = {n}
                    /\ n.finding = o.finding /\ n.scan = i /\ n.at = scans[i].at
                    /\ n.state \notin {"new", "resolved"} /\ n.again = o.again + 1
                    /\ n.back = IF o.state = "resolved" THEN o.back + 1 ELSE o.back
  <2> PICK n : n = Again(o, i, form)
    OBVIOUS
  <2>1. Observed(f, o, i, form) = {n} /\ o \in Seen
    BY <1>2 DEF Observed
  <2>2. /\ n \in [finding : {o.finding}, scan : {i}, at : {scans[i].at}, state : State,
                  form : {form}, again : {o.again + 1}, fixed : {o.fixed}, back : Nat]
        /\ IF o.state = "resolved" THEN n.state = "reintroduced" /\ n.back = o.back + 1
           ELSE n.state \in {"changed", "existing"} /\ n.back = o.back
    BY <2>1, AgainFields
  <2> QED
    BY <2>1, <2>2
<1>3. ASSUME form = None, o # None, o.state # "resolved"
      PROVE  \E n : /\ Observed(f, o, i, form) = {n}
                    /\ n.finding = o.finding /\ n.scan = i /\ n.at = scans[i].at
                    /\ n.state = "resolved" /\ n.again = o.again /\ n.back = o.back
  <2> PICK n : n = [o EXCEPT !.scan = i, !.at = scans[i].at, !.state = "resolved", !.fixed = @ + 1]
    OBVIOUS
  <2>1. Observed(f, o, i, form) = Resolved(o, i) /\ Resolved(o, i) = {n} /\ o \in Seen
    BY <1>3 DEF Observed, Resolved
  <2>2. n \in [finding : {o.finding}, scan : {i}, at : {scans[i].at},
               state : {"resolved"}, form : {o.form}, again : {o.again},
               fixed : {o.fixed + 1}, back : {o.back}]
    BY <2>1, ResolvedFields
  <2> QED
    BY <2>1, <2>2
<1>4. form = None /\ (o = None \/ o.state = "resolved") => Observed(f, o, i, form) = {}
  BY DEF Observed, Resolved
<1> QED
  BY <1>1, <1>2, <1>3, <1>4

LEMMA ReconcileHistory ==
    ASSUME TypeOK, Rows, HistInv, NEW q \in Procs, Reconcile(q)
    PROVE  HistInv'
<1>a. ProcOK /\ OwnScan /\ SeenOK /\ ScansOK /\ proc[q] \in Command
  BY TypeParts DEF Types, ProcOK
<1> PICK k : k = proc[q].scan
  OBVIOUS
<1> PICK found : found = proc[q].found
  OBVIOUS
<1> PICK last : last = proc[q].last
  OBVIOUS
<1> DEFINE new(f) == Observed(f, last[f], k, found[f])
<1>1. proc[q] \in Scanning /\ proc[q].op = "scan" /\ proc[q].pc = "commit"
  BY <1>a, Kinds DEF Reconcile
<1>2. /\ k \in DOMAIN scans /\ scans[k] \in Scan /\ scans[k].found = found
      /\ ~scans[k].reconciled /\ scans[k].at \in Nat /\ scans[k].at > 0
  <2>1. k \in DOMAIN scans
    BY <1>a, <1>1, ScanFacts DEF OwnScan
  <2> QED
    BY <1>a, <1>1, <2>1, ScanType DEF Rows, OwnRecord, HistInv, Timed
<1>3. \A f \in Findings :
        /\ last[f] \in Seen \cup {None} /\ found[f] \in Forms \cup {None}
        /\ last[f] # None => last[f] \in seen /\ last[f].finding = f
  BY <1>1 DEF Scanning, Found, Rows, CommittedRows
<1>4. /\ DOMAIN scans' = DOMAIN scans
      /\ \A i \in DOMAIN scans :
           /\ scans'[i].at = scans[i].at /\ scans'[i].found = scans[i].found
           /\ scans'[i].reconciled <=> i = k \/ scans[i].reconciled
  <2> PICK t : t = [scans[k] EXCEPT !.reconciled = TRUE]
    OBVIOUS
  <2>1. t.at = scans[k].at /\ t.found = scans[k].found /\ t.reconciled
    BY <1>2 DEF Scan
  <2>2. scans' = [scans EXCEPT ![k] = t]
    BY <1>2 DEF Reconcile
  <2>3. /\ DOMAIN scans' = DOMAIN scans
        /\ \A i \in DOMAIN scans : scans'[i] = IF i = k THEN t ELSE scans[i]
    BY <2>2
  <2> QED
    BY <2>1, <2>3
<1>5. Reconciled' = Reconciled \cup {k} /\ k \notin Reconciled
  BY <1>2, <1>4 DEF Reconciled
<1>6. seen' = seen \cup UNION {new(f) : f \in Findings}
  BY DEF Reconcile
<1>7. \A f \in Findings :
        /\ found[f] # None /\ last[f] = None =>
             \E n : /\ new(f) = {n}
                    /\ n.finding = f /\ n.scan = k /\ n.at = scans[k].at
                    /\ n.state = "new" /\ n.again = 0 /\ n.back = 0
        /\ found[f] # None /\ last[f] # None =>
             \E n : /\ new(f) = {n}
                    /\ n.finding = f /\ n.scan = k /\ n.at = scans[k].at
                    /\ n.state \notin {"new", "resolved"} /\ n.again = last[f].again + 1
                    /\ n.back = IF last[f].state = "resolved" THEN last[f].back + 1
                                ELSE last[f].back
        /\ found[f] = None /\ last[f] # None /\ last[f].state # "resolved" =>
             \E n : /\ new(f) = {n}
                    /\ n.finding = f /\ n.scan = k /\ n.at = scans[k].at
                    /\ n.state = "resolved" /\ n.again = last[f].again /\ n.back = last[f].back
        /\ found[f] = None /\ (last[f] = None \/ last[f].state = "resolved") => new(f) = {}
  <2> TAKE f \in Findings
  <2> PICK o \in Seen \cup {None} : o = last[f]
    BY <1>3
  <2> PICK form : form = found[f]
    OBVIOUS
  <2> PICK N : N = new(f)
    OBVIOUS
  <2>1. o # None => o.finding = f
    BY <1>3
  <2>2. N = Observed(f, o, k, form)
    OBVIOUS
  <2>3. /\ form # None /\ o = None =>
             \E n : /\ N = {n}
                    /\ n.finding = f /\ n.scan = k /\ n.at = scans[k].at
                    /\ n.state = "new" /\ n.again = 0 /\ n.back = 0
        /\ form # None /\ o # None =>
             \E n : /\ N = {n}
                    /\ n.finding = o.finding /\ n.scan = k /\ n.at = scans[k].at
                    /\ n.state \notin {"new", "resolved"} /\ n.again = o.again + 1
                    /\ n.back = IF o.state = "resolved" THEN o.back + 1 ELSE o.back
        /\ form = None /\ o # None /\ o.state # "resolved" =>
             \E n : /\ N = {n}
                    /\ n.finding = o.finding /\ n.scan = k /\ n.at = scans[k].at
                    /\ n.state = "resolved" /\ n.again = o.again /\ n.back = o.back
        /\ form = None /\ (o = None \/ o.state = "resolved") => N = {}
    BY <2>2, ObservedIs
  <2> HIDE DEF new
  <2> QED
    BY <2>1, <2>3
<1> HIDE DEF new
<1>8. \A f \in Findings :
        /\ \A n \in new(f) : n.finding = f /\ n.scan = k /\ n.at = scans[k].at
        /\ \A n, m \in new(f) : n = m
  BY <1>7
<1>9. \A x : x \in seen' <=> x \in seen \/ \E f \in Findings : x \in new(f)
  BY <1>6
<1>10. \A x \in seen : x.scan \in Reconciled /\ x.scan # k /\ x.at = scans[x.scan].at
  BY <1>5, ScanFacts DEF HistInv, OneEach
<1>11. OneEach'
  <2>1. \A x \in seen' : x.at = scans'[x.scan].at
    <3> SUFFICES ASSUME NEW x \in seen' PROVE x.at = scans'[x.scan].at
      OBVIOUS
    <3>1. CASE x \in seen
      BY <1>4, <1>10, <3>1, ScanFacts
    <3>2. CASE x \notin seen
      BY <1>2, <1>4, <1>8, <1>9, <3>2
    <3> QED
      BY <3>1, <3>2
  <2>2. ASSUME NEW x \in seen', NEW y \in seen', x.finding = y.finding, x.scan = y.scan
        PROVE  x = y
    <3>1. x \in seen <=> y \in seen
      BY <1>8, <1>9, <1>10, <2>2
    <3>2. CASE x \in seen
      BY <2>2, <3>1, <3>2 DEF HistInv, OneEach
    <3>3. CASE x \notin seen
      BY <1>8, <1>9, <2>2, <3>1, <3>3
    <3> QED
      BY <3>2, <3>3
  <2> QED
    BY <2>1, <2>2 DEF OneEach
<1>12. Timed'
  <2>1. \A r \in Procs : /\ proc'[r].op = proc[r].op /\ proc'[r].scan = proc[r].scan
                         /\ proc'[r].pc = IF r = q THEN "final" ELSE proc[r].pc
    BY <1>a, <1>1 DEF Reconcile, ProcOK, Scanning
  <2>2. \A r \in Procs : proc[r].op = "scan" /\ proc[r].pc # "save" => proc[r].scan \in DOMAIN scans
    BY <1>a, ScanFacts DEF OwnScan
  <2>3. \A r \in Procs : proc[r].op = "scan" /\ proc[r].pc \in {"load", "commit", "final", "summary"}
                           => scans[proc[r].scan].at > 0
    BY DEF HistInv, Timed
  <2>4. \A r \in Procs :
          proc'[r].op = "scan" /\ proc'[r].pc \in {"load", "commit", "final", "summary"} =>
            scans'[proc'[r].scan].at > 0
    BY <1>1, <1>4, <2>1, <2>2, <2>3
  <2>5. \A i \in Reconciled' : scans'[i].at > 0
    BY <1>2, <1>4, <1>5, ScanFacts
  <2> QED
    BY <2>4, <2>5 DEF Timed
<1>13. SUFFICES ASSUME "scans" \notin late'
                PROVE  /\ HasLast(scans', Reconciled')
                       /\ \A i \in Reconciled' : HasLast(scans', Before(i)')
                       /\ \A f \in Findings : TrueOf(f)'
  BY <1>11, <1>12 DEF HistInv
<1>14. /\ "scans" \notin late /\ \A f \in Findings : IsLatest(f, last[f])
       /\ \A j \in Reconciled : scans[j].at < scans[k].at
  <2>1. /\ "scans" \notin late /\ \A f \in Findings : IsLatest(f, last[f])
        /\ \A j \in DOMAIN scans : scans[j].reconciled => ~(scans[j].at > scans[k].at)
    BY <1>13 DEF Reconcile
  <2>2. ASSUME NEW j \in Reconciled PROVE scans[j].at < scans[k].at
    <3>1. j \in DOMAIN scans /\ scans[j].at \in Nat /\ scans[j].at > 0 /\ j # k
      BY <1>5, ScanFacts
    <3>2. ~(scans[j].at > scans[k].at)
      BY <2>1 DEF Reconciled
    <3>3. scans[j].at # scans[k].at
      BY <1>2, <3>1, ScanFacts
    <3> QED
      BY <1>2, <3>1, <3>2, <3>3
  <2> QED
    BY <2>1, <2>2
<1>15. /\ HasLast(scans, Reconciled) /\ \A i \in Reconciled : HasLast(scans, Before(i))
       /\ \A f \in Findings : TrueOf(f)
  BY <1>14 DEF HistInv
<1>16. HasLast(scans', Reconciled') /\ LastOf(scans', Reconciled') = k
  <2> PICK s : s = scans'
    OBVIOUS
  <2> PICK S : S = Reconciled'
    OBVIOUS
  <2>1. /\ \A i \in S : s[i].at \in Nat
        /\ \A i, j \in S : s[i].at = s[j].at => i = j
    BY <1>2, <1>4, <1>5, ScanFacts
  <2>2. k \in S /\ \A j \in S : s[j].at <= s[k].at
    BY <1>2, <1>4, <1>5, <1>14, ScanFacts
  <2>3. LastOf(s, S) = k
    BY <2>1, <2>2, LastOfIs
  <2> QED
    BY <2>2, <2>3 DEF HasLast
<1>17. \A S : S \subseteq Reconciled /\ HasLast(scans, S) =>
         /\ HasLast(scans', S)
         /\ S # {} => LastOf(scans', S) = LastOf(scans, S) /\ LastOf(scans, S) \in S
  <2> SUFFICES ASSUME NEW S, S \subseteq Reconciled, HasLast(scans, S)
               PROVE  /\ HasLast(scans', S)
                      /\ S # {} => LastOf(scans', S) = LastOf(scans, S) /\ LastOf(scans, S) \in S
    OBVIOUS
  <2>1. /\ \A i \in S : scans[i].at \in Nat /\ scans'[i].at = scans[i].at
        /\ \A i, j \in S : scans[i].at = scans[j].at => i = j
    BY <1>4, ScanFacts
  <2> PICK t : t = scans'
    OBVIOUS
  <2> QED
    BY <2>1, LastKept
<1>18. /\ \A i \in Reconciled : Before(i)' = Before(i) /\ Before(i) \subseteq Reconciled
       /\ Before(k)' = Reconciled
  <2>1. \A i \in Reconciled : Before(i)' = Before(i) /\ Before(i) \subseteq Reconciled
    <3> SUFFICES ASSUME NEW i \in Reconciled PROVE Before(i)' = Before(i)
      BY DEF Before
    <3>1. ~(scans[k].at < scans[i].at)
      BY <1>2, <1>14, ScanFacts
    <3> QED
      BY <1>2, <1>4, <1>5, <3>1, ScanFacts DEF Before
  <2>2. Before(k)' = Reconciled
    BY <1>2, <1>4, <1>5, <1>14, ScanFacts DEF Before
  <2> QED
    BY <2>1, <2>2
<1>19. \A i \in Reconciled' : HasLast(scans', Before(i)')
  BY <1>5, <1>15, <1>17, <1>18
(* One finding, its scans W and its returns R before the commit. *)
<1>20. ASSUME NEW f \in Findings PROVE TrueOf(f)'
  <2> PICK W : W = With(f)
    OBVIOUS
  <2> PICK R : R = Returns(f)
    OBVIOUS
  <2> PICK o : o = last[f]
    OBVIOUS
  <2>1. /\ W \subseteq Reconciled /\ R \subseteq W /\ k \notin W /\ k \notin R
        /\ Cardinality(W) \in Nat /\ Cardinality(R) \in Nat
        /\ Cardinality(W \cup {k}) = Cardinality(W) + 1
        /\ Cardinality(R \cup {k}) = Cardinality(R) + 1
    <3>1. W \subseteq Reconciled /\ R \subseteq W /\ IsFiniteSet(W) /\ IsFiniteSet(R)
      BY ScanFacts
    <3>2. k \notin W /\ k \notin R
      BY <1>5, <3>1
    <3> QED
      BY <3>1, <3>2, FS_CardinalityType, FS_AddElement
  <2>2. With(f)' = IF found[f] # None THEN W \cup {k} ELSE W
    <3>1. \A i \in Reconciled : scans'[i].found = scans[i].found
      BY <1>4, ScanFacts
    <3>2. scans'[k].found = found
      BY <1>2, <1>4
    <3> QED
      BY <1>5, <3>1, <3>2 DEF With
  <2>3. Last(Reconciled)' = k /\ Last(Reconciled) = LastOf(scans, Reconciled)
    BY <1>16 DEF Last, LastOf
  <2>4. Returns(f)' = IF found[f] # None /\ W # {} /\ Last(Reconciled) \notin W
                      THEN R \cup {k} ELSE R
    <3> PICK V : V = With(f)'
      OBVIOUS
    <3>1. R = {i \in W : Before(i) \cap W # {} /\ LastOf(scans, Before(i)) \notin W}
      BY DEF Returns, Last, LastOf
    <3>2. Returns(f)' = {i \in V : Before(i)' \cap V # {} /\ LastOf(scans', Before(i)') \notin V}
      BY DEF Returns, Last, LastOf
    <3>3. \A i \in W : /\ Before(i)' = Before(i) /\ Before(i)' \cap V = Before(i) \cap W
                       /\ Before(i) \cap W # {} =>
                            (LastOf(scans', Before(i)') \notin V <=> LastOf(scans, Before(i)) \notin W)
      <4> SUFFICES ASSUME NEW i \in W
                   PROVE  /\ Before(i)' = Before(i) /\ Before(i)' \cap V = Before(i) \cap W
                          /\ Before(i) \cap W # {} =>
                               (LastOf(scans', Before(i)') \notin V
                                  <=> LastOf(scans, Before(i)) \notin W)
        OBVIOUS
      <4> PICK S : S = Before(i)
        OBVIOUS
      <4>1. Before(i)' = S /\ S \subseteq Reconciled /\ HasLast(scans, S)
        BY <1>15, <1>18, <2>1
      <4>2. k \notin S /\ S \cap V = S \cap W
        BY <1>5, <2>2, <4>1
      <4>3. S # {} => LastOf(scans', S) = LastOf(scans, S) /\ LastOf(scans, S) \in S
        BY <1>17, <4>1
      <4> QED
        BY <2>2, <4>1, <4>2, <4>3
    <3>4. /\ Before(k)' \cap V = W
          /\ W # {} => (LastOf(scans', Before(k)') \notin V <=> Last(Reconciled) \notin W)
      <4>1. Before(k)' \cap V = W
        BY <1>5, <1>18, <2>1, <2>2
      <4>2. ASSUME W # {}
            PROVE  LastOf(scans', Before(k)') = Last(Reconciled) /\ Last(Reconciled) # k
        BY <1>5, <1>15, <1>17, <1>18, <2>1, <2>3, <4>2
      <4> QED
        BY <2>2, <4>1, <4>2
    <3>5. \A i : i \in V <=> i \in W \/ (found[f] # None /\ i = k)
      BY <2>2
    <3>6. \A i : i \in Returns(f)' <=>
                   i \in R \/ (i = k /\ found[f] # None /\ W # {} /\ Last(Reconciled) \notin W)
      BY <2>1, <3>1, <3>2, <3>3, <3>4, <3>5
    <3> QED
      BY <3>6
  <2>5. \A x : x.finding = f => (x \in seen' <=> x \in seen \/ x \in new(f))
    BY <1>8, <1>9
  <2>6. new(f) \subseteq seen' /\ seen \subseteq seen'
    BY <1>9
  <2>7. First(f)' = First(f) \cup {x \in new(f) : x.state = "new"}
    BY <1>8, <2>5, <2>6 DEF First
  <2>8. /\ W = {} => o = None /\ \A x \in seen : x.finding # f
        /\ W # {} => o # None /\ o \in seen /\ Told(f, o) /\ o \in Seen
    <3>1. CASE W = {}
      <4>1. \A x \in seen : x.finding # f
        BY <1>15, <3>1 DEF TrueOf
      <4> QED
        BY <1>14, <3>1, <4>1 DEF IsLatest
    <3>2. CASE W # {}
      <4> PICK p \in seen : Told(f, p)
        BY <1>15, <3>2 DEF TrueOf
      <4>1. p.finding = f /\ \A x \in seen : x.finding = f => x.at <= p.at
        BY DEF Told
      <4>2. o \in seen /\ o.finding = f /\ \A x \in seen : x.finding = f => x.at <= o.at
        BY <1>14, <4>1 DEF IsLatest
      <4>3. o = p
        BY <4>1, <4>2, OneLatest
      <4> QED
        BY <3>2, <4>2, <4>3, NoneAssumption, ScanFacts
    <3> QED
      BY <3>1, <3>2
  <2>9. \A n \in new(f), x \in seen' : x.finding = f => x.at <= n.at
    <3> SUFFICES ASSUME NEW n \in new(f), NEW x \in seen', x.finding = f PROVE x.at <= n.at
      OBVIOUS
    <3>1. n.at = scans[k].at
      BY <1>8
    <3>2. CASE x \in seen
      <4>1. x.at = scans[x.scan].at /\ x.scan \in Reconciled
        BY <1>10, <3>2
      <4>2. scans[x.scan].at < scans[k].at /\ scans[x.scan].at \in Nat
        BY <1>14, <4>1, ScanFacts
      <4> QED
        BY <1>2, <3>1, <4>1, <4>2
    <3>3. CASE x \in new(f)
      BY <1>2, <1>8, <3>1, <3>3
    <3> QED
      BY <2>5, <3>2, <3>3
  (* What a row has to say to be the last one. *)
  <2>10. ASSUME NEW n \in seen', n.finding = f, \A x \in seen' : x.finding = f => x.at <= n.at,
                n.state = "resolved" <=> found[f] = None,
                n.again = Cardinality(With(f)') - 1, n.back = Cardinality(Returns(f)')
         PROVE  Told(f, n)'
    BY <2>1, <2>2, <2>3, <2>10 DEF Told
  <2>11. CASE found[f] = None /\ W = {}
    <3>1. new(f) = {} /\ With(f)' = {}
      BY <1>7, <2>2, <2>8, <2>11
    <3> QED
      BY <2>5, <2>8, <2>11, <3>1 DEF TrueOf
  <2>12. ASSUME W # {}
         PROVE  /\ o.again = Cardinality(W) - 1 /\ o.back = Cardinality(R) /\ o.finding = f
                /\ o.state = "resolved" <=> Last(Reconciled) \notin W
                /\ \A x \in seen : x.finding = f => x.at <= o.at
                /\ o.again \in Nat /\ o.back \in Nat
                /\ \E x \in seen : First(f) = {x}
    BY <1>15, <2>8, <2>12 DEF Told, TrueOf, Seen
  <2>13. CASE found[f] = None /\ W # {} /\ o.state = "resolved"
    <3>1. new(f) = {} /\ With(f)' = W /\ Returns(f)' = R
      BY <1>7, <2>2, <2>4, <2>13
    <3>2. o \in seen' /\ \A x \in seen' : x.finding = f => x.at <= o.at
      BY <2>5, <2>6, <2>8, <2>12, <2>13, <3>1
    <3>3. Told(f, o)'
      BY <2>10, <2>12, <2>13, <3>1, <3>2
    <3>4. \E x \in seen' : First(f)' = {x}
      BY <2>6, <2>7, <2>12, <2>13, <3>1
    <3> QED
      BY <2>13, <3>1, <3>2, <3>3, <3>4 DEF TrueOf
  <2>14. CASE found[f] = None /\ W # {} /\ o.state # "resolved"
    <3>1. With(f)' = W /\ Returns(f)' = R
      BY <2>2, <2>4, <2>14
    <3>2. PICK n : /\ new(f) = {n} /\ n.finding = f
                   /\ n.state = "resolved" /\ n.again = o.again /\ n.back = o.back
      BY <1>7, <2>8, <2>14
    <3>3. n \in seen' /\ \A x \in seen' : x.finding = f => x.at <= n.at
      BY <2>6, <2>9, <3>2
    <3>4. Told(f, n)'
      BY <2>10, <2>12, <2>14, <3>1, <3>2, <3>3
    <3>5. \E x \in seen' : First(f)' = {x}
      BY <2>6, <2>7, <2>12, <2>14, <3>2
    <3> QED
      BY <2>14, <3>1, <3>3, <3>4, <3>5 DEF TrueOf
  <2>15. CASE found[f] # None /\ W = {}
    <3>1. With(f)' = W \cup {k} /\ Returns(f)' = R /\ R = {} /\ Cardinality(R) = 0
          /\ Cardinality(W) = 0
      BY <2>1, <2>2, <2>4, <2>15, FS_EmptySet
    <3>2. PICK n : /\ new(f) = {n} /\ n.finding = f
                   /\ n.state = "new" /\ n.again = 0 /\ n.back = 0
      BY <1>7, <2>8, <2>15
    <3>3. n \in seen' /\ \A x \in seen' : x.finding = f => x.at <= n.at
      BY <2>6, <2>9, <3>2
    <3>4. n.again = Cardinality(With(f)') - 1 /\ n.back = Cardinality(Returns(f)')
      BY <2>1, <3>1, <3>2
    <3>5. n.state = "resolved" <=> found[f] = None
      BY <2>15, <3>2
    <3>6. Told(f, n)'
      BY <2>10, <3>2, <3>3, <3>4, <3>5
    <3>7. First(f) = {}
      BY <2>8, <2>15 DEF First
    <3>8. First(f)' = {n}
      BY <2>7, <3>2, <3>7
    <3> QED
      BY <3>1, <3>3, <3>6, <3>8 DEF TrueOf
  <2>16. CASE found[f] # None /\ W # {}
    <3>1. With(f)' = W \cup {k}
          /\ Returns(f)' = IF o.state = "resolved" THEN R \cup {k} ELSE R
      BY <2>2, <2>4, <2>12, <2>16
    <3>2. PICK n : /\ new(f) = {n} /\ n.finding = f
                   /\ n.state \notin {"new", "resolved"} /\ n.again = o.again + 1
                   /\ n.back = IF o.state = "resolved" THEN o.back + 1 ELSE o.back
      BY <1>7, <2>8, <2>16
    <3>3. n \in seen' /\ \A x \in seen' : x.finding = f => x.at <= n.at
      BY <2>6, <2>9, <3>2
    <3>4. n.again = Cardinality(With(f)') - 1 /\ n.back = Cardinality(Returns(f)')
      BY <2>1, <2>12, <2>16, <3>1, <3>2
    <3>5. Told(f, n)'
      BY <2>10, <2>16, <3>2, <3>3, <3>4
    <3>6. \E x \in seen' : First(f)' = {x}
      BY <2>6, <2>7, <2>12, <2>16, <3>2
    <3> QED
      BY <3>1, <3>3, <3>5, <3>6 DEF TrueOf
  <2> QED
    BY <2>11, <2>13, <2>14, <2>15, <2>16
<1> QED
  BY <1>16, <1>19, <1>20

LEMMA HistoryStep ==
    ASSUME TypeOK, Rows, HistInv, NEW q \in Procs, Step(q)
    PROVE  HistInv'
<1>a. /\ ProcOK /\ OwnScan /\ ScansOK /\ proc[q] \in Command
      /\ Len(scans) \in Nat /\ DOMAIN scans = 1..Len(scans)
  BY TypeParts, ScanFacts DEF Types, ProcOK
<1>b. \A r \in Procs : proc[r].op = "scan" =>
        /\ proc[r] \in Scanning
        /\ proc[r].pc # "save" => proc[r].scan \in DOMAIN scans
        /\ proc[r].pc \in {"load", "commit", "final", "summary"} => scans[proc[r].scan].at > 0
  BY <1>a, Kinds DEF ProcOK, OwnScan, HistInv, Timed
<1>c. \A i \in Reconciled : i \in DOMAIN scans /\ scans[i].at > 0
  BY ScanFacts
(* A command goes on, and the history is as it was. *)
<1>d. ASSUME UNCHANGED history, "scans" \notin late' => "scans" \notin late, NEW c,
             proc' = [proc EXCEPT ![q] = c],
             \/ c.op # "scan"
             \/ c.op = "scan" /\ c.pc \notin {"load", "commit", "final", "summary"}
             \/ /\ proc[q].op = "scan" /\ proc[q].pc \in {"load", "commit", "final", "summary"}
                /\ c.scan = proc[q].scan
      PROVE  HistInv'
  <2>1. \A r \in Procs : proc'[r] = IF r = q THEN c ELSE proc[r]
    BY <1>a, <1>d DEF ProcOK
  <2>2. Reconciled' = Reconciled
    BY <1>d DEF Reconciled, history
  <2>3. \A r \in Procs :
          proc'[r].op = "scan" /\ proc'[r].pc \in {"load", "commit", "final", "summary"} =>
            scans[proc'[r].scan].at > 0
    BY <1>b, <1>d, <2>1
  <2>4. Timed'
    BY <1>c, <1>d, <2>2, <2>3 DEF Timed, history
  <2> QED
    BY <1>d, <2>2, <2>4, SameHistory DEF history
<1>1. CASE OpenMarking(q)
  BY <1>1, <1>d DEF OpenMarking, Open
<1>2. CASE OpenScan(q)
  BY <1>2, <1>d DEF OpenScan, Open
<1>3. CASE OpenSwitch(q)
  BY <1>3, <1>d DEF OpenSwitch, Open
<1>4. CASE Switch(q) \/ Load(q)
  <2>1. proc[q] \in Switching \/ proc[q] \in Marking
    BY <1>4, <1>a, Kinds DEF Switch, Load, Writes
  <2>2. PICK c : proc' = [proc EXCEPT ![q] = c] /\ c.op # "scan" /\ UNCHANGED history /\ late' = late
    <3>1. CASE Switch(q)
      <4> PICK c : c = [proc[q] EXCEPT !.pc = "audit"]
        OBVIOUS
      <4>1. proc' = [proc EXCEPT ![q] = c] /\ UNCHANGED history /\ late' = late
        BY <3>1, <1>a DEF Switch, ProcOK
      <4>2. c.op # "scan"
        BY <3>1, <2>1 DEF Switch, Switching, Marking
      <4> QED
        BY <4>1, <4>2
    <3>2. CASE Load(q)
      <4> PICK c : c = [proc[q] EXCEPT !.pc = "commit", !.row = RowOf(proc[q].print)]
        OBVIOUS
      <4>1. proc' = [proc EXCEPT ![q] = c] /\ UNCHANGED history /\ late' = late
        BY <3>2, <1>a DEF Load, ProcOK
      <4>2. c.op # "scan"
        BY <3>2, <2>1 DEF Load, Switching, Marking
      <4> QED
        BY <4>1, <4>2
    <3> QED
      BY <1>4, <3>1, <3>2
  <2> QED
    BY <2>2, <1>d
<1>5. CASE SwitchAudited(q) \/ Refuse(q) \/ ScanDegraded(q) \/ Killed(q)
  <2>1. /\ proc' = [proc EXCEPT ![q] = Idle] /\ UNCHANGED history /\ late' = late
        /\ Idle.op # "scan"
    BY <1>5 DEF SwitchAudited, Refuse, ScanDegraded, Killed, End, Idle
  <2> QED
    BY <2>1, <1>d
<1>6. CASE Decline(q) \/ Admit(q) \/ Restore(q) \/ Correct(q) \/ Delete(q) \/ Purge(q)
  <2>1. \E op : Commits(q, op)
    BY <1>6 DEF Decline, Admit, Restore, Correct, Delete, Purge
  <2>2. /\ proc' = [proc EXCEPT ![q] = Idle] /\ UNCHANGED history /\ late \subseteq late'
        /\ Idle.op # "scan"
    BY <2>1 DEF Commits, End, Idle
  <2> QED
    BY <2>2, <1>d
<1>7. CASE LoadLatest(q)
  <2>1. proc[q] \in Scanning /\ proc[q].op = "scan" /\ proc[q].pc = "load"
    BY <1>7, <1>b DEF LoadLatest
  <2> PICK last \in [Findings -> seen \cup {None}] :
        proc' = [proc EXCEPT ![q].pc = "commit", ![q].last = last]
    BY <1>7 DEF LoadLatest
  <2> PICK c : c = [proc[q] EXCEPT !.pc = "commit", !.last = last]
    OBVIOUS
  <2>2. proc' = [proc EXCEPT ![q] = c] /\ UNCHANGED history /\ late' = late
    BY <1>7, <1>a DEF LoadLatest, ProcOK
  <2>3. c.scan = proc[q].scan
    BY <2>1 DEF Scanning
  <2> QED
    BY <2>1, <2>2, <2>3, <1>d
<1>8. CASE Snapshot(q) \/ Fails(q)
  <2>1. proc[q] \in Scanning /\ proc[q].op = "scan"
    BY <1>8, <1>b DEF Snapshot, Fails
  <2>2. UNCHANGED history /\ late' = late
    BY <1>8 DEF Snapshot, Fails
  <2>3. CASE proc[q].pc = "final"
    <3> PICK c : c = [proc[q] EXCEPT !.pc = "summary"]
      OBVIOUS
    <3>1. proc' = [proc EXCEPT ![q] = c] /\ c.scan = proc[q].scan
      BY <1>8, <1>a, <2>1, <2>3 DEF Snapshot, Fails, ProcOK, Scanning
    <3> QED
      BY <2>1, <2>2, <2>3, <3>1, <1>d
  <2>4. CASE proc[q].pc # "final"
    <3>1. proc' = [proc EXCEPT ![q] = Idle] /\ Idle.op # "scan"
      BY <1>8, <1>a, <2>4 DEF Snapshot, Fails, ProcOK, Idle
    <3> QED
      BY <2>2, <3>1, <1>d
  <2> QED
    BY <2>3, <2>4
<1>9. CASE Save(q)
  <2>1. proc[q] \in Scanning /\ proc[q].op = "scan" /\ proc[q].pc = "save"
    BY <1>9, <1>b DEF Save
  <2> PICK s : s = [found |-> proc[q].found, at |-> 0, reconciled |-> FALSE, summary |-> FALSE]
    OBVIOUS
  <2> PICK m \in Nat : m = Len(scans) + 1
    BY <1>a
  <2>2. s \in Scan /\ s.reconciled = FALSE
    BY <2>1 DEF Scanning, Scan
  <2>3. /\ scans' \in Seq(Scan) /\ Len(scans') = m
        /\ \A i \in 1..Len(scans) : scans'[i] = scans[i]
        /\ scans'[m] = s
    BY <1>9, <1>a, <2>2, AppendProperties DEF Save, ScansOK
  <2>4. DOMAIN scans' = 1..m
    BY <2>3, LenProperties
  <2> PICK c : c = [proc[q] EXCEPT !.pc = "time", !.scan = m]
    OBVIOUS
  <2>5. c.op = "scan" /\ c.pc = "time"
    BY <2>1, SavedType
  <2>6. proc' = [proc EXCEPT ![q] = c] /\ seen' = seen /\ late' = late
    BY <1>9, <1>a, <2>3 DEF Save, ProcOK
  <2>7. \A r \in Procs : proc'[r] = IF r = q THEN c ELSE proc[r]
    BY <1>a, <2>6 DEF ProcOK
  <2>8. Reconciled' = Reconciled
    BY <1>a, <2>2, <2>3, <2>4 DEF Reconciled
  <2>9. \A i \in DOMAIN scans : scans'[i] = scans[i]
    BY <1>a, <2>3
  <2>10. ASSUME NEW r \in Procs, proc'[r].op = "scan",
                proc'[r].pc \in {"load", "commit", "final", "summary"}
         PROVE  scans'[proc'[r].scan].at > 0
    <3>1. r # q /\ proc'[r] = proc[r]
      BY <2>5, <2>7, <2>10
    <3>2. proc[r].scan \in DOMAIN scans /\ scans[proc[r].scan].at > 0
      BY <1>b, <2>10, <3>1
    <3> QED
      BY <2>9, <3>1, <3>2
  <2>11. Timed'
    BY <1>c, <2>8, <2>9, <2>10 DEF Timed
  <2> QED
    BY <1>c, <2>6, <2>8, <2>9, <2>11, SameHistory
<1>10. CASE Stamp(q)
  <2>1. proc[q] \in Scanning /\ proc[q].op = "scan" /\ proc[q].pc = "time"
    BY <1>10, <1>b DEF Stamp
  <2> PICK k : k = proc[q].scan
    OBVIOUS
  <2>2. k \in DOMAIN scans /\ scans[k] \in Scan /\ k \notin Reconciled /\ clock \in Nat
    BY <2>1, <1>a, <1>b, ScanType DEF Rows, OwnRecord, Reconciled, ScansOK
  <2> PICK t : t = [scans[k] EXCEPT !.at = clock + 1]
    OBVIOUS
  <2>3. t.reconciled = scans[k].reconciled /\ t.at = clock + 1
    BY <2>2 DEF Scan
  <2>4. scans' = [scans EXCEPT ![k] = t] /\ seen' = seen /\ late' = late
    BY <1>10, <2>2 DEF Stamp
  <2> PICK c : c = [proc[q] EXCEPT !.pc = "load"]
    OBVIOUS
  <2>5. c.op = "scan" /\ c.scan = k
    BY <2>1 DEF Scanning
  <2>6. \A r \in Procs : proc'[r] = IF r = q THEN c ELSE proc[r]
    BY <1>10, <1>a DEF Stamp, ProcOK
  <2>7. DOMAIN scans' = DOMAIN scans /\ scans'[k] = t
        /\ \A i \in DOMAIN scans : i # k => scans'[i] = scans[i]
    BY <2>2, <2>4
  <2>8. Reconciled' = Reconciled
    BY <2>3, <2>7 DEF Reconciled
  <2>9. scans'[k].at > 0
    BY <2>2, <2>3, <2>7
  <2>10. \A r \in Procs : proc[r].op = "scan" /\ proc[r].scan = k => r = q
    BY <2>1 DEF Rows, OwnRecord
  <2>11. ASSUME NEW r \in Procs, proc'[r].op = "scan",
                proc'[r].pc \in {"load", "commit", "final", "summary"}
         PROVE  scans'[proc'[r].scan].at > 0
    <3>1. CASE r = q
      BY <2>5, <2>6, <2>9, <3>1
    <3>2. CASE r # q
      <4>1. proc'[r] = proc[r]
        BY <2>6, <3>2
      <4>2. proc[r].scan \in DOMAIN scans /\ scans[proc[r].scan].at > 0 /\ proc[r].scan # k
        BY <1>b, <2>10, <2>11, <3>2, <4>1
      <4> QED
        BY <2>7, <4>1, <4>2
    <3> QED
      BY <3>1, <3>2
  <2>12. \A i \in Reconciled : scans'[i] = scans[i]
    BY <1>c, <2>2, <2>7
  <2>13. Timed'
    BY <1>c, <2>8, <2>11, <2>12 DEF Timed
  <2> QED
    BY <2>4, <2>8, <2>12, <2>13, SameHistory
<1>11. CASE Summarise(q)
  <2>1. proc[q] \in Scanning /\ proc[q].op = "scan" /\ proc[q].pc = "summary"
    BY <1>11, <1>b DEF Summarise
  <2> PICK k : k = proc[q].scan
    OBVIOUS
  <2>2. k \in DOMAIN scans /\ scans[k] \in Scan
    BY <2>1, <1>a, <1>b, ScanType
  <2> PICK t : t = [scans[k] EXCEPT !.summary = TRUE]
    OBVIOUS
  <2>3. t.reconciled = scans[k].reconciled /\ t.at = scans[k].at /\ t.found = scans[k].found
    BY <2>2 DEF Scan
  <2>4. scans' = [scans EXCEPT ![k] = t] /\ seen' = seen /\ late' = late
    BY <1>11, <2>2 DEF Summarise
  <2>5. DOMAIN scans' = DOMAIN scans
        /\ \A i \in DOMAIN scans : scans'[i] = IF i = k THEN t ELSE scans[i]
    BY <2>2, <2>4
  <2>6. Reconciled' = Reconciled
    BY <2>3, <2>5 DEF Reconciled
  <2>7. \A i \in DOMAIN scans : scans'[i].at = scans[i].at /\ scans'[i].found = scans[i].found
    BY <2>3, <2>5
  <2>8. \A r \in Procs : proc'[r] = IF r = q THEN Idle ELSE proc[r]
    BY <1>11, <1>a DEF Summarise, End, ProcOK
  <2>9. Timed'
    BY <1>b, <1>c, <2>6, <2>7, <2>8 DEF Timed, Idle
  <2> QED
    BY <1>c, <2>4, <2>6, <2>7, <2>9, SameHistory
<1>12. CASE Reconcile(q)
  BY <1>12, ReconcileHistory
<1> QED
  BY <1>1, <1>2, <1>3, <1>4, <1>5, <1>6, <1>7, <1>8, <1>9, <1>10, <1>11, <1>12 DEF Step

-----------------------------------------------------------------------------
LEMMA InitTold == Init => TrailInv /\ HistInv
<1> SUFFICES ASSUME Init PROVE TrailInv /\ HistInv
  OBVIOUS
<1>1. \A p \in Prints : trail[p] = <<>> /\ labels[p] = 0 /\ RowOf(p) = None
  BY DEF Init, RowOf
<1>2. Done(<<>>) = {} /\ Hashes(<<>>) = {} /\ Labelled(<<>>) = {}
  BY DEF Done, Hashes, Labelled
<1>3. Tells(<<>>, None)
  BY <1>2 DEF Tells
<1>4. TrailInv
  BY <1>1, <1>2, <1>3, FS_EmptySet DEF TrailInv, TrailTellsState, HasLatest
<1>5. Reconciled = {} /\ seen = {} /\ \A q \in Procs : proc[q].op = "idle"
  BY DEF Init, Reconciled, Idle
<1>6. \A f : With(f) = {}
  BY <1>5 DEF With
<1>7. HistInv
  BY <1>5, <1>6 DEF HistInv, Timed, OneEach, HasLast, TrueOf
<1> QED
  BY <1>4, <1>7

LEMMA ToldStep == MInv /\ TypeOK' /\ TrailInv /\ HistInv /\ [Next]_vars => TrailInv' /\ HistInv'
<1> SUFFICES ASSUME MInv, TypeOK', TrailInv, HistInv, [Next]_vars PROVE TrailInv' /\ HistInv'
  OBVIOUS
<1>1. CASE Next
  <2> PICK q \in Procs : Step(q)
    BY <1>1 DEF Next
  <2>1. TypeOK /\ GateFirst /\ Rows
    BY DEF MInv, Rows
  <2> QED
    BY <2>1, TrailStep, HistoryStep
<1>2. CASE UNCHANGED vars
  <2>1. TrailInv'
    BY <1>2, QuietTrail DEF vars
  <2>2. Timed' /\ Reconciled' = Reconciled
    BY <1>2 DEF HistInv, Timed, vars, history, Reconciled
  <2>3. TypeOK /\ Rows /\ UNCHANGED <<seen, scans, late>>
    BY <1>2 DEF MInv, Rows, vars, history
  <2> QED
    BY <2>1, <2>2, <2>3, SameHistory
<1> QED
  BY <1>1, <1>2

LEMMA SpecTold == Spec => [](MInv /\ TrailInv /\ HistInv)
<1>1. Init => MInv /\ TrailInv /\ HistInv
  BY InitMInv, InitTold
<1>2. MInv /\ TrailInv /\ HistInv /\ [Next]_vars => (MInv /\ TrailInv /\ HistInv)'
  <2>1. MInv' => TypeOK'
    BY DEF MInv
  <2> QED
    BY <2>1, MInvStep, ToldStep
<1> QED
  BY <1>1, <1>2, PTL DEF Spec

(* The audit rows tell the state, the reason and the labels of every mark  *)
(* whose row no command wrote from an outdated read, so that raven's       *)
(* "audit --verify" (verify_integrity in store.py) reports nothing, for    *)
(* any commands, killed or refused, with the ids of purged rows given      *)
(* again.                                                                  *)
THEOREM AuditTellsTheMark == Spec => []TrailTellsState
<1>1. TrailInv => TrailTellsState
  BY DEF TrailInv
<1> QED
  BY <1>1, SpecTold, PTL

(* As long as no scan commits on an outdated read (reconcile_findings in   *)
(* store.py), the last row of a finding counts its sightings and its       *)
(* returns as the scans have found it, whichever of them failed or died.   *)
THEOREM HistoryTellsTheScans == Spec => []HistoryIsTrue
<1>1. MInv /\ HistInv => HistoryIsTrue
  BY HistoryTold DEF MInv, Rows
<1> QED
  BY <1>1, SpecTold, PTL
=============================================================================
