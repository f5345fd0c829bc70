------------------------------ MODULE ScanMemory ------------------------------
(***************************************************************************)
(* The memory of the scanner (packages/ravenscan, raven/memory/store.py):  *)
(* one SQLite file per project, written by command line processes: marks   *)
(* of false positives with their audit rows, the history of each finding   *)
(* over the scans, and the switch that turns the memory off.               *)
(*                                                                         *)
(* A process runs one command: it opens the store and keeps the switch as  *)
(* it finds it, reads rows, and commits what it made of them, audit rows   *)
(* included, in one transaction.  SQLite begins that transaction at the    *)
(* first write: nothing covers the time from the read to the commit.       *)
(***************************************************************************)
EXTENDS Naturals, Sequences, FiniteSets

CONSTANTS Procs,      \* commands that run at the same time
          Prints,     \* fingerprints of false positives
          Reasons, Secret,   \* reasons the gate admits, one it rejects
          Findings, Forms,   \* identities of findings; evidence and severity
          None,
          MaxRuns,    \* bound: commands
          MaxFaults   \* bound: commands killed, database errors in a scan

ASSUME MemoryAssumption ==
    /\ Secret \notin Reasons /\ None \notin Forms /\ None \notin Reasons
    /\ MaxRuns \in Nat /\ MaxFaults \in Nat

VARIABLES
    off,      \* memory_config: disabled
    switched, \* memory_audit of the store: sequence of actions
    marks,    \* false_positives: set of rows [id, print, reason, live]
    trail,    \* memory_audit of each print: sequence of [action, after]
    labels,   \* detector_outcomes "false_positive", per print
    seen,     \* finding_observations: set of rows
    scans,    \* scan_records, by id
    proc,     \* the command each process runs
    clock,    \* time stamps
    late,     \* history: prints written, or "scans", from outdated reads
    runs, faults

records == <<marks, trail, labels>>
history == <<seen, scans>>
switch  == <<off, switched>>
vars    == <<switch, records, history, proc, clock, late, runs, faults>>

Ids     == 1..MaxRuns
Row     == [id : Ids, print : Prints, reason : Reasons, live : BOOLEAN]
Entry   == [action : {"admit", "restore", "correct", "delete", "purge", "reject"},
            after : Reasons \cup {None}]
State   == {"new", "existing", "changed", "reintroduced", "resolved"}
Seen    == [finding : Findings, scan : Nat, at : Nat, state : State, form : Forms,
            again : Nat, fixed : Nat, back : Nat]
Found   == [Findings -> Forms \cup {None}]
Scan    == [found : Found, at : Nat, reconciled : BOOLEAN, summary : BOOLEAN]
Idle    == [op |-> "idle"]

ASSUME NoneAssumption == None \notin Row /\ None \notin Seen

Marking == [op : {"mark", "edit", "delete", "purge"}, pc : {"load", "commit"},
            on : BOOLEAN, print : Prints, reason : Reasons \cup {Secret},
            row : Row \cup {None}]
Scanning == [op : {"scan"}, pc : {"save", "time", "load", "commit", "final", "summary"},
             on : BOOLEAN, found : Found, scan : Nat,
             last : [Findings -> Seen \cup {None}]]
Switching == [op : {"disable", "enable"}, pc : {"set", "audit"}, env : BOOLEAN]

(* Ids and fingerprints are unique, as the schema declares them, and so    *)
(* are the times of the scans; a scan past its save holds its record's id. *)
TypeOK ==
    /\ off \in BOOLEAN /\ switched \in Seq({"disable", "enable", "reject"})
    /\ marks \subseteq Row /\ seen \subseteq Seen
    /\ \A r, s \in marks : r.id = s.id \/ r.print = s.print => r = s
    /\ trail \in [Prints -> Seq(Entry)] /\ labels \in [Prints -> Nat]
    /\ scans \in Seq(Scan) /\ clock \in Nat
    /\ \A i, j \in DOMAIN scans :
         /\ scans[i].at <= clock
         /\ scans[i].at = scans[j].at /\ scans[i].at > 0 => i = j
    /\ proc \in [Procs -> {Idle} \cup Marking \cup Scanning \cup Switching]
    /\ \A q \in Procs : proc[q].op = "scan" =>
         /\ proc[q].scan \in 0..Len(scans)
         /\ proc[q].pc = "save" <=> proc[q].scan = 0
    /\ runs \in 0..MaxRuns /\ faults \in 0..MaxFaults

Init ==
    /\ off = FALSE /\ switched = <<>> /\ marks = {} /\ seen = {} /\ scans = <<>>
    /\ trail = [p \in Prints |-> <<>>] /\ labels = [p \in Prints |-> 0]
    /\ proc = [q \in Procs |-> Idle] /\ clock = 0 /\ late = {}
    /\ runs = 0 /\ faults = 0

End(q) == proc' = [proc EXCEPT ![q] = Idle]

-----------------------------------------------------------------------------
(* A command opens the store: the switch, or the environment, is read once. *)
Open(q, cmd) ==
    /\ proc[q] = Idle /\ runs < MaxRuns
    /\ runs' = runs + 1
    /\ proc' = [proc EXCEPT ![q] = cmd]
    /\ UNCHANGED <<switch, records, history, clock, late, faults>>

OpenMarking(q) ==
    \E op \in {"mark", "edit", "delete", "purge"}, env \in BOOLEAN, p \in Prints,
       why \in Reasons \cup {Secret} :
        Open(q, [op |-> op, pc |-> "load", on |-> ~(env \/ off), print |-> p,
                 reason |-> why, row |-> None])

OpenScan(q) ==
    \E found \in Found, env \in BOOLEAN :
        Open(q, [op |-> "scan", pc |-> "save", on |-> ~(env \/ off), found |-> found,
                 scan |-> 0, last |-> [f \in Findings |-> None]])

OpenSwitch(q) ==
    \E op \in {"disable", "enable"}, env \in BOOLEAN :
        Open(q, [op |-> op, pc |-> "set", env |-> env])

(* The switch is committed before its audit row, and by an enable that the *)
(* environment refuses too.                                                *)
Switch(q) ==
    /\ proc[q].op \in {"disable", "enable"} /\ proc[q].pc = "set"
    /\ off' = (proc[q].op = "disable")
    /\ proc' = [proc EXCEPT ![q].pc = "audit"]
    /\ UNCHANGED <<switched, records, history, clock, late, runs, faults>>

SwitchAudited(q) ==
    /\ proc[q].op \in {"disable", "enable"} /\ proc[q].pc = "audit"
    /\ switched' = Append(switched, IF proc[q].op = "enable" /\ proc[q].env
                                    THEN "reject" ELSE proc[q].op)
    /\ End(q)
    /\ UNCHANGED <<off, records, history, clock, late, runs, faults>>

-----------------------------------------------------------------------------
Audit(p, action, after) ==
    trail' = [trail EXCEPT ![p] = Append(@, [action |-> action, after |-> after])]

(* Memory off, or a secret in the text of a mark: refused, with an audit   *)
(* row of its own, before anything is read.                                *)
Refuse(q) ==
    /\ proc[q].op \in {"mark", "edit", "delete", "purge"} /\ proc[q].pc = "load"
    /\ ~proc[q].on \/ (proc[q].op = "mark" /\ proc[q].reason = Secret)
    /\ Audit(proc[q].print, "reject", None)
    /\ End(q)
    /\ UNCHANGED <<switch, marks, labels, history, clock, late, runs, faults>>

RowOf(p) == IF \E r \in marks : r.print = p
            THEN CHOOSE r \in marks : r.print = p ELSE None

Load(q) ==
    /\ proc[q].op \in {"mark", "edit", "delete", "purge"} /\ proc[q].pc = "load"
    /\ proc[q].on /\ ~(proc[q].op = "mark" /\ proc[q].reason = Secret)
    /\ proc' = [proc EXCEPT ![q].pc = "commit", ![q].row = RowOf(proc[q].print)]
    /\ UNCHANGED <<switch, records, history, clock, late, runs, faults>>

(* The rows a commit writes to have the id that was read: the id of a row  *)
(* that was purged is given again, to another print too.                   *)
Targets(q) == {r \in marks : proc[q].row # None /\ r.id = proc[q].row.id}

(* The commit of what was read; it is late when the row is another by now. *)
Commits(q, op) ==
    /\ proc[q].op = op /\ proc[q].pc = "commit"
    /\ End(q)
    /\ late' = IF RowOf(proc[q].print) = proc[q].row THEN late
               ELSE late \cup {proc[q].print} \cup {r.print : r \in Targets(q)}
    /\ UNCHANGED <<switch, history, clock, runs, faults>>

Live(r)      == r # None /\ r.live
Tombstone(r) == r # None /\ ~r.live

(* The row is not in the state the command needs, or the gate rejects the *)
(* new reason of an edit.                                                  *)
Declined(cmd) ==
    \/ cmd.op = "mark" /\ Live(cmd.row)
    \/ cmd.op \in {"edit", "delete"} /\ ~Live(cmd.row)
    \/ cmd.op = "edit" /\ cmd.reason = Secret
    \/ cmd.op = "purge" /\ ~Tombstone(cmd.row)

Decline(q) ==
    /\ \E op \in {"mark", "edit", "delete", "purge"} : Commits(q, op)
    /\ Declined(proc[q])
    /\ Audit(proc[q].print, "reject", None)
    /\ UNCHANGED <<marks, labels>>

(* UPDATE ... WHERE id of the attributes that differ from the row read; a  *)
(* row that is gone makes the whole transaction fail.                      *)
Update(q, new) ==
    LET old == proc[q].row
        Merged(r) == [id |-> r.id, print |-> r.print,
                      reason |-> IF new.reason = old.reason THEN r.reason ELSE new.reason,
                      live   |-> IF new.live = old.live THEN r.live ELSE new.live]
    IN  marks' = {IF r.id = old.id THEN Merged(r) ELSE r : r \in marks}

Gone(q)   == Targets(q) = {}
NextId(i) == /\ \A r \in marks : r.id < i
             /\ i = 1 \/ \E r \in marks : r.id = i - 1

Insert(q) ==
    \E i \in Ids :
        /\ NextId(i)
        /\ marks' = marks \cup {[id |-> i, print |-> proc[q].print,
                                 reason |-> proc[q].reason, live |-> TRUE]}

(* Mutant: fingerprints are not unique. *)
AdmitTwice(q) ==
    /\ Commits(q, "mark") /\ proc[q].row = None
    /\ Insert(q)
    /\ labels' = [labels EXCEPT ![proc[q].print] = @ + 1]
    /\ Audit(proc[q].print, "admit", proc[q].reason)

(* Mutant: the first mark is not audited. *)
AdmitSilent(q) ==
    /\ Commits(q, "mark") /\ proc[q].row = None
    /\ LET p == proc[q].print IN
         IF RowOf(p) # None THEN UNCHANGED records
         ELSE /\ Insert(q)
              /\ labels' = [labels EXCEPT ![p] = @ + 1]
              /\ UNCHANGED trail

(* A print nobody has marked; the unique index stops the second of two. *)
Admit(q) ==
    /\ Commits(q, "mark") /\ proc[q].row = None
    /\ LET p == proc[q].print IN
         IF RowOf(p) # None THEN UNCHANGED records
         ELSE /\ Insert(q)
              /\ labels' = [labels EXCEPT ![p] = @ + 1]
              /\ Audit(p, "admit", proc[q].reason)

(* A tombstone comes back with the new reason. *)
Restore(q) ==
    /\ Commits(q, "mark") /\ Tombstone(proc[q].row)
    /\ LET p == proc[q].print IN
         IF Gone(q) THEN UNCHANGED records
         ELSE /\ Update(q, [reason |-> proc[q].reason, live |-> TRUE])
              /\ labels' = [labels EXCEPT ![p] = @ + 1]
              /\ Audit(p, "restore", proc[q].reason)

(* An edit to the reason it has read writes no row, only the audit. *)
Correct(q) ==
    /\ Commits(q, "edit") /\ ~Declined(proc[q])
    /\ UNCHANGED labels
    /\ IF Gone(q) /\ proc[q].reason # proc[q].row.reason THEN UNCHANGED <<marks, trail>>
       ELSE /\ Update(q, [reason |-> proc[q].reason, live |-> TRUE])
            /\ Audit(proc[q].print, "correct", proc[q].reason)

Delete(q) ==
    /\ Commits(q, "delete") /\ ~Declined(proc[q])
    /\ UNCHANGED labels
    /\ IF Gone(q) THEN UNCHANGED <<marks, trail>>
       ELSE /\ Update(q, [reason |-> proc[q].row.reason, live |-> FALSE])
            /\ Audit(proc[q].print, "delete", None)

(* A purge of a row that is gone, or live again, goes through as well. *)
Purge(q) ==
    /\ Commits(q, "purge") /\ ~Declined(proc[q])
    /\ UNCHANGED labels
    /\ marks' = {r \in marks : r.id # proc[q].row.id}
    /\ Audit(proc[q].print, "purge", None)

-----------------------------------------------------------------------------
(* A scan with the memory off goes on without it. *)
ScanDegraded(q) ==
    /\ proc[q].op = "scan" /\ proc[q].pc = "save" /\ ~proc[q].on
    /\ End(q)
    /\ UNCHANGED <<switch, records, history, clock, late, runs, faults>>

(* The scan record is committed on its own. *)
Save(q) ==
    /\ proc[q].op = "scan" /\ proc[q].pc = "save" /\ proc[q].on
    /\ scans' = Append(scans, [found |-> proc[q].found, at |-> 0,
                               reconciled |-> FALSE, summary |-> FALSE])
    /\ proc' = [proc EXCEPT ![q].pc = "time", ![q].scan = Len(scans')]
    /\ UNCHANGED <<switch, records, seen, clock, late, runs, faults>>

(* The time of the observations is taken before the last ones are read. *)
Stamp(q) ==
    /\ proc[q].op = "scan" /\ proc[q].pc = "time"
    /\ clock' = clock + 1
    /\ scans' = [scans EXCEPT ![proc[q].scan].at = clock']
    /\ proc' = [proc EXCEPT ![q].pc = "load"]
    /\ UNCHANGED <<switch, records, seen, late, runs, faults>>

(* The last observation of a finding, by time. *)
IsLatest(f, o) ==
    IF \A x \in seen : x.finding # f THEN o = None
    ELSE o \in seen /\ o.finding = f /\ \A x \in seen : x.finding = f => x.at <= o.at

LoadLatest(q) ==
    /\ proc[q].op = "scan" /\ proc[q].pc = "load"
    /\ \E last \in [Findings -> seen \cup {None}] :
         /\ \A f \in Findings : IsLatest(f, last[f])
         /\ proc' = [proc EXCEPT ![q].pc = "commit", ![q].last = last]
    /\ UNCHANGED <<switch, records, history, clock, late, runs, faults>>

Fresh(f, i, form) ==
    [finding |-> f, scan |-> i, at |-> scans[i].at, state |-> "new", form |-> form,
     again |-> 0, fixed |-> 0, back |-> 0]

(* Mutant: a change starts the count of sightings anew. *)
AgainForgets(o, i, form) ==
    [o EXCEPT !.scan = i, !.at = scans[i].at, !.form = form,
              !.again = IF form # o.form /\ o.back = 0 THEN 0 ELSE @ + 1,
              !.back = IF o.state = "resolved" THEN @ + 1 ELSE @,
              !.state = IF o.state = "resolved" THEN "reintroduced"
                        ELSE IF form # o.form THEN "changed" ELSE "existing"]

(* The observation of a finding that has been observed before. *)
Again(o, i, form) ==
    [o EXCEPT !.scan = i, !.at = scans[i].at, !.form = form, !.again = @ + 1,
              !.back = IF o.state = "resolved" THEN @ + 1 ELSE @,
              !.state = IF o.state = "resolved" THEN "reintroduced"
                        ELSE IF form # o.form THEN "changed" ELSE "existing"]

(* Mutant: what is resolved is resolved again by every scan. *)
ResolvedAlways(o, i) ==
    {[o EXCEPT !.scan = i, !.at = scans[i].at, !.state = "resolved", !.fixed = @ + 1]}

(* The observation that an active finding is not there any more. *)
Resolved(o, i) ==
    IF o.state = "resolved" THEN {}
    ELSE {[o EXCEPT !.scan = i, !.at = scans[i].at, !.state = "resolved", !.fixed = @ + 1]}

Observed(f, o, i, form) ==
    CASE form # None /\ o = None -> {Fresh(f, i, form)}
      [] form # None /\ o # None -> {Again(o, i, form)}
      [] form = None /\ o # None -> Resolved(o, i)
      [] OTHER                   -> {}

(* One transaction; it is late when another scan was committed since the   *)
(* read, or has a later time.                                              *)
Reconcile(q) ==
    /\ proc[q].op = "scan" /\ proc[q].pc = "commit"
    /\ LET i == proc[q].scan IN
         /\ seen' = seen \cup UNION {Observed(f, proc[q].last[f], i, proc[q].found[f]) :
                                     f \in Findings}
         /\ scans' = [scans EXCEPT ![i].reconciled = TRUE]
         /\ late' = IF \/ \E f \in Findings : ~IsLatest(f, proc[q].last[f])
                       \/ \E j \in DOMAIN scans : scans[j].reconciled /\ scans[j].at > scans[i].at
                    THEN late \cup {"scans"} ELSE late
    /\ proc' = [proc EXCEPT ![q].pc = "final"]
    /\ UNCHANGED <<switch, records, clock, runs, faults>>

(* The report with the states goes into the scan record. *)
Snapshot(q) ==
    /\ proc[q].op = "scan" /\ proc[q].pc = "final"
    /\ proc' = [proc EXCEPT ![q].pc = "summary"]
    /\ UNCHANGED <<switch, records, history, clock, late, runs, faults>>

Summarise(q) ==
    /\ proc[q].op = "scan" /\ proc[q].pc = "summary"
    /\ scans' = [scans EXCEPT ![proc[q].scan].summary = TRUE]
    /\ End(q)
    /\ UNCHANGED <<switch, records, seen, clock, late, runs, faults>>

(* Mutant: after a failed write the scan goes on to its summary. *)
FailsOn(q) ==
    /\ proc[q].op = "scan" /\ proc[q].pc \in {"time", "load", "commit", "final"}
    /\ faults < MaxFaults /\ faults' = faults + 1
    /\ proc' = [proc EXCEPT ![q].pc = "summary"]
    /\ UNCHANGED <<switch, records, history, clock, late, runs>>

(* A database error never fails a scan: before the snapshot it goes on     *)
(* without the memory, and a snapshot that fails does not stop the summary. *)
Fails(q) ==
    /\ proc[q].op = "scan" /\ proc[q].on
    /\ faults < MaxFaults /\ faults' = faults + 1
    /\ proc' = [proc EXCEPT ![q] = IF @.pc = "final" THEN [@ EXCEPT !.pc = "summary"]
                                   ELSE Idle]
    /\ UNCHANGED <<switch, records, history, clock, late, runs>>

(* A command is killed, or a database error ends it, between two commits.  *)
(* A scan whose apply_feedback raises ends its memory part before the      *)
(* snapshot in the same way.                                               *)
Killed(q) ==
    /\ proc[q] # Idle
    /\ faults < MaxFaults /\ faults' = faults + 1
    /\ End(q)
    /\ UNCHANGED <<switch, records, history, clock, late, runs>>

Step(q) ==
    \/ OpenMarking(q) \/ OpenScan(q) \/ OpenSwitch(q) \/ Switch(q) \/ SwitchAudited(q)
    \/ Refuse(q) \/ Load(q) \/ Decline(q) \/ Admit(q) \/ Restore(q) \/ Correct(q)
    \/ Delete(q) \/ Purge(q)
    \/ ScanDegraded(q) \/ Save(q) \/ Stamp(q) \/ LoadLatest(q) \/ Reconcile(q) \/ Snapshot(q)
    \/ Summarise(q) \/ Fails(q) \/ Killed(q)

Next == \E q \in Procs : Step(q)
Spec == Init /\ [][Next]_vars

-----------------------------------------------------------------------------
(* The counters of an observation agree with its state, however the scans  *)
(* overlap and whichever of them is killed: a finding has been resolved    *)
(* once more than it came back if it is resolved, and as often if it is    *)
(* not; a new one has neither, and one that is back has been seen again.   *)
CountersAgree ==
    \A o \in seen :
        /\ o.fixed = o.back + (IF o.state = "resolved" THEN 1 ELSE 0)
        /\ o.state = "new" => o.again = 0 /\ o.fixed = 0
        /\ o.back <= o.again
        /\ o.state = "reintroduced" => o.back > 0

Reconciled  == {i \in DOMAIN scans : scans[i].reconciled}
With(f)     == {i \in Reconciled : scans[i].found[f] # None}
Before(i)   == {j \in Reconciled : scans[j].at < scans[i].at}
Last(S)     == CHOOSE i \in S : \A j \in S : scans[j].at <= scans[i].at
Returns(f)  == {i \in With(f) : /\ Before(i) \cap With(f) # {}
                                /\ Last(Before(i)) \notin With(f)}
First(f)    == {x \in seen : x.finding = f /\ x.state = "new"}

(* Scan after scan, each reading what the one before has committed, with   *)
(* crashes and database errors anywhere: the last observation of a finding *)
(* tells how often the scans have seen it, whether the last one has, and   *)
(* how often it came back after a scan without it.                         *)
HistoryIsTrue ==
    "scans" \notin late => \A f \in Findings :
        IF With(f) = {} THEN IsLatest(f, None)
        ELSE LET o == CHOOSE x \in seen : IsLatest(f, x)
             IN  /\ (o.state = "resolved") = (Last(Reconciled) \notin With(f))
                 /\ o.again = Cardinality(With(f)) - 1
                 /\ o.back = Cardinality(Returns(f))
                 /\ Cardinality(First(f)) = 1

ActiveIn(i) == {o.finding : o \in {x \in seen : x.scan = i /\ x.state # "resolved"}}

(* What "raven changes" compares are the findings of the two scans,        *)
(* overlapping or not, as long as both were reconciled, and what it lists  *)
(* as resolved by the later of two had not been found by it.  A summary is *)
(* only ever written for a scan that was reconciled.                       *)
ChangesAreReal ==
    \A i \in DOMAIN scans :
        /\ ActiveIn(i) = IF scans[i].reconciled
                         THEN {f \in Findings : scans[i].found[f] # None} ELSE {}
        /\ scans[i].summary => scans[i].reconciled

Done(t)     == {i \in DOMAIN t : t[i].action # "reject"}
Hashes(t)   == {i \in DOMAIN t : t[i].after # None}
Labelled(t) == {i \in DOMAIN t : t[i].action \in {"admit", "restore"}}
Latest(S)   == CHOOSE i \in S : \A j \in S : j <= i

Tells(t, r) ==
    LET last == t[Latest(Done(t))].action IN
    IF Done(t) = {} \/ last = "purge" THEN r = None
    ELSE /\ r # None
         /\ r.live = (last # "delete")
         /\ Hashes(t) # {} /\ r.reason = t[Latest(Hashes(t))].after

(* The audit rows of a print tell the state of its row, and the last hash  *)
(* is that of the reason it holds, so that "audit --verify" reports no     *)
(* tampering: unless its row was written from an outdated read, and        *)
(* whatever is killed, refused, deleted, purged and marked again.  There   *)
(* is a label for every mark that is audited, and no other.                *)
TrailTellsState ==
    \A p \in Prints :
        /\ labels[p] = Cardinality(Labelled(trail[p]))
        /\ p \notin late => Tells(trail[p], RowOf(p))
=============================================================================
