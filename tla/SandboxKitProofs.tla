--------------------------- MODULE SandboxKitProofs ---------------------------
(***************************************************************************)
(* Proofs about SandboxKit, for any hosts and any bounds: the type         *)
(* invariant, that the marker and the bundle tell the truth, and that the  *)
(* research plane never runs under another profile's marker.               *)
(*                                                                         *)
(* None of the three is inductive: each relates the marker to what runs,   *)
(* and a command changes the two in different steps.  Agreement says what  *)
(* holds at the steps in between, where an interrupt may leave things.     *)
(***************************************************************************)
EXTENDS SandboxKit, TLAPS

Counted ==
    /\ spent \in [{"commands", "interrupts", "outages", "deaths"} -> Nat]
    /\ ~daemon => spent.outages > 0

(* What runs is what the checks of the command in hand have seen. *)
ChecksStand ==
    /\ live \cap Checked(cmd) \subseteq canary
    /\ bad \cap Of(Checked(cmd)) = {}

AllowStands == Research(cmd) /\ "research" \in live => cmd.allow = proxy

Agreement ==
    /\ marker.st = "UNBUILT" => marker = NoMarker
    /\ pc = "prepare" =>
         /\ marker.st # "RUNNING" /\ cmd.prof \in Profiles
         /\ marker = NoMarker \/ marker.prof = cmd.prof
    /\ pc \in {"boot", "check", "uplink", "uplinked", "rollback", "partial", "running"} =>
         marker.st = "PREPARED" /\ marker.prof = cmd.prof
    /\ pc \in {"check", "uplink", "uplinked", "running"} => AllowStands
    /\ pc \in {"uplink", "uplinked", "running"} => ChecksStand
    /\ pc \in {"partial", "mended", "remove"} => live \subseteq survived
    /\ pc \in {"partial", "mended"} /\ spent.outages = 0 /\ failures = 0 => "app" \notin live
    /\ pc \in {"stopped", "mend", "mended"} => marker # NoMarker
    /\ pc = "reset" => marker.st = "RUNNING"

SInv == TypeOK /\ Counted /\ Agreement /\ FilesTellTruth /\ ProfilesNeverMix

CommandOK == pc \in Stages /\ cmd \in Commands /\ (pc = "idle" <=> cmd = NoCommand)
PlaneOK ==
    /\ live \subseteq Groups /\ bad \subseteq Of(live) /\ canary \subseteq live
    /\ healthy \in BOOLEAN /\ volume \in {"none", "clean", "corpus"} /\ proxy \subseteq Hosts
    /\ survived \subseteq live /\ failures \in 0..MaxFailures
MarkerOK == marker \in Markers /\ (marker.st = "UNBUILT" <=> marker.prof = "none")
OthersOK ==
    /\ ackFile \in BOOLEAN /\ daemon \in BOOLEAN /\ confirmed \in BOOLEAN
    /\ bundle \in {"none", "clean", "secret"} /\ partial \in {"none", "clean", "secret"}

LEMMA TypeParts ==
    /\ TypeOK <=> CommandOK /\ PlaneOK /\ MarkerOK /\ OthersOK
    /\ TypeOK' <=> CommandOK' /\ PlaneOK' /\ MarkerOK' /\ OthersOK'
BY DEF TypeOK, CommandOK, PlaneOK, MarkerOK, OthersOK

-----------------------------------------------------------------------------
(* How a command begins, goes on and ends, for its stage and record. *)
LEMMA NoCommandType == NoCommand \in Commands
BY DEF NoCommand, Commands

LEMMA EndType == ASSUME NEW op, NEW code, End(op, code) PROVE CommandOK'
BY NoCommandType DEF End, CommandOK, Stages

LEMMA GoType ==
    ASSUME NEW stage \in Stages \ {"idle"}, CommandOK, pc # "idle", Go(stage)
    PROVE  CommandOK'
BY DEF Go, CommandOK

LEMMA EnterType ==
    ASSUME NEW c \in Commands, c.op # "none", NEW stage \in Stages \ {"idle"}, OthersOK,
           Enter(c, stage)
    PROVE  CommandOK'
<1>1. [c EXCEPT !.cut = ~daemon] \in Commands
  BY DEF Commands, OthersOK
<1>2. [c EXCEPT !.cut = ~daemon] # NoCommand
  BY DEF Commands, NoCommand
<1> QED
  BY <1>1, <1>2 DEF Enter, CommandOK

LEMMA PlainType ==
    ASSUME NEW op \in {"stop", "destroy", "reset", "recover", "export"}
    PROVE  Plain(op) \in Commands /\ Plain(op).op # "none"
BY DEF Plain, NoCommand, Commands

LEMMA WrittenType ==
    ASSUME NEW st \in {"PREPARED", "RUNNING", "PARTIAL"}, cmd \in Commands, cmd.prof \in Profiles
    PROVE  /\ Written(st) \in Markers
           /\ Written(st).st = st /\ Written(st).prof = cmd.prof /\ cmd.prof # "none"
           /\ LET m == [Written(st) EXCEPT !.seed = TRUE, !.allow = cmd.allow]
              IN  m \in Markers /\ m.st = st /\ m.prof = cmd.prof /\ m.allow = cmd.allow
BY DEF Written, NoMarker, Markers, Commands, Profiles

(* What the two calls of the container daemon do to what runs. *)
LEMMA OfParts ==
    /\ \A a, b : Of(a \cup b) = Of(a) \cup Of(b)
    /\ \A a, b : Of(a \ b) = Of(a) \ Of(b)
    /\ Of({}) = {}
    /\ \A a, b : a \subseteq b => Of(a) \subseteq Of(b)
BY DEF Of

(* What a compose down may leave: some of the groups that ran, as they     *)
(* were, and the app only if it failed half-way or reached no daemon.      *)
LEMMA DownKeeps ==
    ASSUME NEW v \in BOOLEAN, PlaneOK, Down(v)
    PROVE  /\ live' \subseteq live /\ survived' = live'
           /\ bad' \subseteq bad /\ bad' \subseteq Of(live') /\ canary' = canary \cap live'
           /\ healthy' \in BOOLEAN /\ volume' \in {"none", "clean", "corpus"}
           /\ "research" \in live' => proxy' = proxy
           /\ proxy' \subseteq Hosts /\ failures' \in 0..MaxFailures
           /\ failures' = 0 => failures = 0
           /\ daemon /\ failures' = 0 => "app" \notin live'
<1>1. CASE ~daemon
  BY <1>1 DEF Down, PlaneOK
<1>2. ASSUME NEW kept \in SUBSET live, Leave(kept)
      PROVE  /\ live' = kept /\ survived' = live'
             /\ bad' \subseteq bad /\ bad' \subseteq Of(live') /\ canary' = canary \cap live'
             /\ healthy' \in BOOLEAN /\ proxy' \subseteq Hosts
             /\ "research" \in live' => proxy' = proxy
  BY <1>2 DEF Leave, PlaneOK
<1>3. CASE daemon /\ failures' = failures
  <2>1. PICK kept \in SUBSET (live \ {"app"}) : Leave(kept)
    BY <1>3, SandboxAssumption DEF Down, PlaneOK
  <2> QED
    BY <1>2, <1>3, <2>1 DEF Down, PlaneOK
<1>4. CASE daemon /\ failures' # failures
  <2>1. /\ failures < MaxFailures /\ failures' = failures + 1
        /\ volume' \in {volume} \cup IF v THEN {"none"} ELSE {}
        /\ \E kept \in SUBSET live : Leave(kept)
    BY <1>4 DEF Down
  <2>2. PICK kept \in SUBSET live : Leave(kept)
    BY <2>1
  <2>3. failures' \in 0..MaxFailures /\ failures' # 0
    BY <2>1, SandboxAssumption DEF PlaneOK
  <2> QED
    BY <1>2, <2>1, <2>2, <2>3 DEF PlaneOK
<1> QED
  BY <1>1, <1>3, <1>4

LEMMA DownType ==
    ASSUME NEW v \in BOOLEAN, PlaneOK, Down(v) PROVE PlaneOK'
BY DownKeeps DEF PlaneOK

LEMMA ComposeUpType ==
    ASSUME NEW groups \in SUBSET Groups, PlaneOK, cmd \in Commands, ComposeUp(groups)
    PROVE  PlaneOK'
<1> PICK broken \in SUBSET Of(groups), well \in BOOLEAN : ComposeUp(groups)!(broken, well)
  BY DEF ComposeUp
<1>1. bad' \subseteq Of(live')
  <2>1. Of(live \cup groups) = Of(live) \cup Of(groups)
    BY OfParts
  <2> QED
    BY <2>1 DEF PlaneOK
<1>2. proxy' \subseteq Hosts
  BY DEF PlaneOK, Commands
<1> QED
  BY <1>1, <1>2 DEF PlaneOK

LEMMA InitType == Init => TypeOK
<1> SUFFICES ASSUME Init PROVE TypeOK
  OBVIOUS
<1>1. MarkerOK
  BY DEF Init, MarkerOK, NoMarker, Markers
<1>2. CommandOK
  BY NoCommandType DEF Init, CommandOK, Stages
<1>3. PlaneOK /\ OthersOK
  <2>1. failures \in 0..MaxFailures
    BY SandboxAssumption DEF Init
  <2> QED
    BY <2>1, OfParts DEF Init, PlaneOK, OthersOK
<1> QED
  BY <1>1, <1>2, <1>3, TypeParts

LEMMA InitSInv == Init => SInv
<1> SUFFICES ASSUME Init PROVE SInv
  OBVIOUS
<1>2. Counted
  BY DEF Init, Counted, Limit
<1>3. Agreement /\ FilesTellTruth /\ ProfilesNeverMix
  BY DEF Init, Agreement, FilesTellTruth, ProfilesNeverMix, NoMarker, RunningIsVerified,
         AllowlistIsCurrent, PartialIsEmpty
<1> QED
  BY InitType, <1>2, <1>3 DEF SInv


LEMMA CutType ==
    ASSUME cmd \in Commands PROVE [cmd EXCEPT !.cut = TRUE] \in Commands
                                  /\ [cmd EXCEPT !.cut = TRUE] # NoCommand
BY DEF Commands, NoCommand

LEMMA DieType == ASSUME PlaneOK, Die PROVE PlaneOK'
<1>1. CASE \E g \in live : /\ live' = live \ {g} /\ bad' = bad \ Of({g})
                          /\ canary' = canary \ {g} /\ UNCHANGED healthy
  <2> PICK g \in live : /\ live' = live \ {g} /\ bad' = bad \ Of({g})
                       /\ canary' = canary \ {g} /\ UNCHANGED healthy
    BY <1>1
  <2>1. Of(live \ {g}) = Of(live) \ Of({g})
    BY OfParts
  <2> QED
    BY <2>1 DEF Die, PlaneOK
<1> QED
  BY <1>1 DEF Die, PlaneOK

LEMMA UpBeginType ==
    ASSUME NEW c \in Commands, c.op = "up", TypeOK, UpBegin(c) PROVE TypeOK'
<1> USE TypeParts
<1>1. CASE ackFile' = ackFile /\ confirmed' = confirmed /\ \E code : End("up", code)
  BY <1>1, EndType DEF UpBegin, PlaneOK, plane, rest, OthersOK, MarkerOK
<1>2. CASE ackFile' = TRUE /\ confirmed' = Asks(c) /\ Enter(c, "prepare")
  BY <1>2, EnterType DEF UpBegin, Asks, PlaneOK, plane, rest, OthersOK, MarkerOK, Stages
<1> QED
  BY <1>1, <1>2 DEF UpBegin

LEMMA TypeStep ==
    ASSUME TypeOK, Agreement, Next PROVE TypeOK'
<1> USE TypeParts
<1>1. CASE UpPrepare
  BY <1>1, WrittenType, EndType, GoType DEF UpPrepare, PlaneOK, plane, rest, OthersOK,
     MarkerOK, CommandOK, Stages, Agreement
<1>2. CASE UpBoot
  <2>1. \E g \in SUBSET Groups : ComposeUp(g) \/ UNCHANGED plane
    BY <1>2 DEF UpBoot, Checked, Groups
  <2>2. PlaneOK'
    BY <2>1, ComposeUpType DEF plane, PlaneOK, CommandOK
  <2>3. CommandOK'
    BY <1>2, GoType DEF UpBoot, Stages
  <2> QED
    BY <1>2, <2>2, <2>3 DEF UpBoot, rest, OthersOK, MarkerOK
<1>3. CASE UpCheck
  BY <1>3, GoType DEF UpCheck, Verified, Checked, AppHealthy, ResearchClosed, PlaneOK,
     rest, OthersOK, MarkerOK, Stages
<1>4. CASE UpUplink
  BY <1>4, GoType, ComposeUpType DEF UpUplink, plane, PlaneOK, rest, OthersOK,
     MarkerOK, Stages, Groups, CommandOK
<1>5. CASE UpUplinked
  BY <1>5, GoType DEF UpUplinked, PlaneOK, rest, OthersOK, MarkerOK, Stages
<1>6. CASE UpRollback
  <2>1. PlaneOK'
    BY <1>6, DownType DEF UpRollback, Teardown
  <2>2. CommandOK'
    BY <1>6, GoType, EndType DEF UpRollback, Stages
  <2> QED
    BY <1>6, <2>1, <2>2 DEF UpRollback, rest, OthersOK, MarkerOK
<1>7. CASE UpPartial
  BY <1>7, WrittenType, EndType DEF UpPartial, PlaneOK, plane, rest, OthersOK,
     MarkerOK, Markers, CommandOK, Agreement
<1>8. CASE UpRunning
  BY <1>8, WrittenType, EndType DEF UpRunning, PlaneOK, plane, rest, OthersOK,
     MarkerOK, Markers, CommandOK, Agreement
<1>9. CASE Stop
  <2>1. PlaneOK'
    BY <1>9, DownType DEF Stop, PlaneOK, plane
  <2>2. OthersOK' /\ MarkerOK'
    BY <1>9 DEF Stop, OthersOK, MarkerOK, rest
  <2>3. CommandOK'
    BY <1>9, PlainType, EndType, EnterType DEF Stop, Stages
  <2> QED
    BY <2>1, <2>2, <2>3
<1>10. CASE Stopped
  BY <1>10, EndType DEF Stopped, PlaneOK, plane, rest, OthersOK, MarkerOK, Markers,
     Agreement
<1>11. CASE Destroy
  <2>1. PlaneOK'
    BY <1>11, DownType DEF Destroy, Teardown
  <2>2. CommandOK'
    BY <1>11, PlainType, EnterType DEF Destroy, Stages
  <2> QED
    BY <1>11, <2>1, <2>2 DEF Destroy, rest, OthersOK, MarkerOK
<1>12. CASE Remove
  BY <1>12, EndType DEF Remove, PlaneOK, plane, rest, OthersOK, MarkerOK, Markers,
     NoMarker
<1>13. CASE Reset
  BY <1>13, PlainType, EndType, EnterType DEF Reset, PlaneOK, rest, OthersOK, MarkerOK,
     Stages
<1>14. CASE ResetDone
  <2>1. PlaneOK' /\ OthersOK' /\ CommandOK'
    BY <1>14, EndType DEF ResetDone, PlaneOK, OthersOK, plane, rest
  <2>2. MarkerOK'
    BY <1>14 DEF ResetDone, MarkerOK, Markers
  <2> QED
    BY <2>1, <2>2
<1>15. CASE Recover
  BY <1>15, PlainType, EndType, EnterType DEF Recover, PlaneOK, plane, rest, OthersOK,
     MarkerOK, Markers, Stages
<1>16. CASE RecoverTeardown
  <2>1. PlaneOK'
    BY <1>16, DownType DEF RecoverTeardown, Teardown
  <2>2. CommandOK'
    BY <1>16, GoType, EndType DEF RecoverTeardown, Stages
  <2> QED
    BY <1>16, <2>1, <2>2 DEF RecoverTeardown, rest, OthersOK, MarkerOK
<1>17. CASE Recovered
  BY <1>17, EndType DEF Recovered, PlaneOK, plane, rest, OthersOK, MarkerOK, Markers,
     Agreement
<1>18. CASE Export
  BY <1>18, PlainType, EndType, EnterType DEF Export, PlaneOK, plane, OthersOK,
     MarkerOK, Stages
<1>19. CASE Deliver
  BY <1>19, EndType DEF Deliver, PlaneOK, plane, OthersOK, MarkerOK
<1>20. CASE Detonate
  BY <1>20, EndType DEF Detonate, PlaneOK, plane, rest, OthersOK, MarkerOK
<1>21. CASE Inspect
  BY <1>21, EndType DEF Inspect, PlaneOK, plane, rest, OthersOK, MarkerOK
<1>22. CASE Interrupt
  BY <1>22, EndType DEF Interrupt, PlaneOK, plane, rest, OthersOK, MarkerOK
<1>23. CASE Outage
  <2>1. PlaneOK' /\ OthersOK' /\ MarkerOK'
    BY <1>23 DEF Outage, PlaneOK, OthersOK, MarkerOK, plane
  <2>2. CommandOK'
    BY <1>23, CutType DEF Outage, CommandOK
  <2> QED
    BY <2>1, <2>2
<1>24. CASE Back
  BY <1>24 DEF Back, PlaneOK, plane, OthersOK, MarkerOK, CommandOK
<1>25. CASE Die
  BY <1>25, DieType DEF Die, rest, OthersOK, MarkerOK, CommandOK
<1>26. CASE Up
  BY <1>26, UpBeginType DEF Up, Commands
<1>27. CASE Upgrade
  <2> DEFINE p == IF marker = NoMarker THEN "local-sandbox" ELSE marker.prof
  <2>1. CASE marker.st = "RUNNING"
    BY <1>27, <2>1, EndType DEF Upgrade, PlaneOK, plane, rest, OthersOK, MarkerOK
  <2>2. p \in Profiles
    BY DEF Agreement, MarkerOK, Markers, Profiles
  <2>3. ASSUME NEW u \in BOOLEAN, UpBegin([op |-> "up", prof |-> p, allow |-> {}, uplink |-> u,
                                           cut |-> FALSE])
        PROVE  TypeOK'
    BY <2>2, <2>3, UpBeginType DEF Commands
  <2> QED
    BY <1>27, <2>1, <2>3 DEF Upgrade
<1> QED
  BY <1>1, <1>2, <1>3, <1>4, <1>5, <1>6, <1>7, <1>8, <1>9, <1>10, <1>11, <1>12, <1>13,
     <1>14, <1>15, <1>16, <1>17, <1>18, <1>19, <1>20, <1>21, <1>22, <1>23, <1>24,
     <1>25, <1>26, <1>27 DEF Next, UpSteps


LEMMA SpendCounted ==
    ASSUME Counted, NEW k \in {"commands", "interrupts", "outages", "deaths"}, Spend(k)
    PROVE  /\ spent' \in [{"commands", "interrupts", "outages", "deaths"} -> Nat]
           /\ spent'.outages = IF k = "outages" THEN spent.outages + 1 ELSE spent.outages
BY DEF Counted, Spend

LEMMA CountedStep == ASSUME SInv, Next PROVE Counted'
<1> USE DEF SInv, Counted
<1>1. CASE UpPrepare
  BY <1>1, SpendCounted DEF UpPrepare, rest, UpBegin, End, Go, Enter
<1>2. CASE UpBoot
  BY <1>2, SpendCounted DEF UpBoot, rest, UpBegin, End, Go, Enter
<1>3. CASE UpCheck
  BY <1>3, SpendCounted DEF UpCheck, rest, UpBegin, End, Go, Enter
<1>4. CASE UpUplink
  BY <1>4, SpendCounted DEF UpUplink, rest, UpBegin, End, Go, Enter
<1>5. CASE UpUplinked
  BY <1>5, SpendCounted DEF UpUplinked, rest, UpBegin, End, Go, Enter
<1>6. CASE UpRollback
  BY <1>6, SpendCounted DEF UpRollback, rest, UpBegin, End, Go, Enter
<1>7. CASE UpPartial
  BY <1>7, SpendCounted DEF UpPartial, rest, UpBegin, End, Go, Enter
<1>8. CASE UpRunning
  BY <1>8, SpendCounted DEF UpRunning, rest, UpBegin, End, Go, Enter
<1>9. CASE Stop
  BY <1>9, SpendCounted DEF Stop, rest, UpBegin, End, Go, Enter
<1>10. CASE Stopped
  BY <1>10, SpendCounted DEF Stopped, rest, UpBegin, End, Go, Enter
<1>11. CASE Destroy
  BY <1>11, SpendCounted DEF Destroy, rest, UpBegin, End, Go, Enter
<1>12. CASE Remove
  BY <1>12, SpendCounted DEF Remove, rest, UpBegin, End, Go, Enter
<1>13. CASE Reset
  BY <1>13, SpendCounted DEF Reset, rest, UpBegin, End, Go, Enter
<1>14. CASE ResetDone
  BY <1>14, SpendCounted DEF ResetDone, rest, UpBegin, End, Go, Enter
<1>15. CASE Recover
  BY <1>15, SpendCounted DEF Recover, rest, UpBegin, End, Go, Enter
<1>16. CASE RecoverTeardown
  BY <1>16, SpendCounted DEF RecoverTeardown, rest, UpBegin, End, Go, Enter
<1>17. CASE Recovered
  BY <1>17, SpendCounted DEF Recovered, rest, UpBegin, End, Go, Enter
<1>18. CASE Export
  BY <1>18, SpendCounted DEF Export, rest, UpBegin, End, Go, Enter
<1>19. CASE Deliver
  BY <1>19, SpendCounted DEF Deliver, rest, UpBegin, End, Go, Enter
<1>20. CASE Detonate
  BY <1>20, SpendCounted DEF Detonate, rest, UpBegin, End, Go, Enter
<1>21. CASE Inspect
  BY <1>21, SpendCounted DEF Inspect, rest, UpBegin, End, Go, Enter
<1>22. CASE Interrupt
  BY <1>22, SpendCounted DEF Interrupt, rest, UpBegin, End, Go, Enter
<1>23. CASE Outage
  BY <1>23, SpendCounted DEF Outage, rest, UpBegin, End, Go, Enter
<1>24. CASE Back
  BY <1>24, SpendCounted DEF Back, rest, UpBegin, End, Go, Enter
<1>25. CASE Die
  BY <1>25, SpendCounted DEF Die, rest, UpBegin, End, Go, Enter
<1>26. CASE Up
  BY <1>26, SpendCounted DEF Up, rest, UpBegin, End, Go, Enter
<1>27. CASE Upgrade
  BY <1>27, SpendCounted DEF Upgrade, rest, UpBegin, End, Go, Enter
<1> QED
  BY <1>1, <1>2, <1>3, <1>4, <1>5, <1>6, <1>7, <1>8, <1>9, <1>10, <1>11, <1>12, <1>13,
     <1>14, <1>15, <1>16, <1>17, <1>18, <1>19, <1>20, <1>21, <1>22, <1>23, <1>24,
     <1>25, <1>26, <1>27 DEF Next, UpSteps

LEMMA RecoverCases ==
    ASSUME Recover
    PROVE  /\ UNCHANGED <<plane, rest>> /\ Spend("commands")
           /\ \/ marker.st = "RUNNING" /\ marker' = [marker EXCEPT !.st = "STOPPED"] /\ pc' = "idle"
              \/ marker' = marker /\ pc' = "idle"
              \/ marker' = marker /\ marker # NoMarker /\ pc' = "mend"
<1>1. UNCHANGED <<plane, rest>> /\ Spend("commands")
  BY DEF Recover
<1>2. CASE marker.st = "RUNNING" /\ Ps = {}
  BY <1>1, <1>2 DEF Recover, End
<1>3. CASE ~(marker.st = "RUNNING" /\ Ps = {}) /\ marker # NoMarker /\ Ps # {}
  BY <1>1, <1>3 DEF Recover, End, Enter
<1>4. CASE ~(marker.st = "RUNNING" /\ Ps = {}) /\ ~(marker # NoMarker /\ Ps # {})
  BY <1>1, <1>4 DEF Recover, End
<1> QED
  BY <1>1, <1>2, <1>3, <1>4

LEMMA OutageKeeps ==
    ASSUME TypeOK, Outage
    PROVE  /\ cmd'.prof = cmd.prof /\ cmd'.allow = cmd.allow
           /\ UNCHANGED <<plane, bundle, marker, pc>> /\ Spend("outages")
BY DEF Outage, TypeOK, Commands

(* The four steps that call compose down. *)
Downs == UpRollback \/ RecoverTeardown \/ Destroy \/ (Stop /\ marker # NoMarker)

LEMMA DownsLeave ==
    ASSUME SInv, Downs
    PROVE  /\ UNCHANGED <<marker, bundle, daemon>> /\ spent'.outages = spent.outages
           /\ live' \subseteq live /\ survived' = live'
           /\ bad' \subseteq bad /\ canary' = canary \cap live'
           /\ "research" \in live' => proxy' = proxy
           /\ failures' = 0 => failures = 0
           /\ daemon /\ failures' = 0 => "app" \notin live'
<1>1. PlaneOK /\ Counted
  BY TypeParts DEF SInv
<1>2. \E v \in BOOLEAN : Down(v)
  BY DEF Downs, UpRollback, RecoverTeardown, Destroy, Stop, Teardown
<1>3. UNCHANGED <<marker, bundle, daemon>>
  BY DEF Downs, UpRollback, RecoverTeardown, Destroy, Stop, rest
<1>4. spent'.outages = spent.outages
  BY <1>1, SpendCounted DEF Downs, UpRollback, RecoverTeardown, Destroy, Stop
<1> QED
  BY <1>1, <1>2, <1>3, <1>4, DownKeeps

LEMMA DownsTell == ASSUME SInv, Downs PROVE FilesTellTruth' /\ ProfilesNeverMix'
<1>1. RunningIsVerified' /\ AllowlistIsCurrent'
  BY DownsLeave DEF SInv, FilesTellTruth, RunningIsVerified, AllowlistIsCurrent, Checked, Research
<1>2. PartialIsEmpty' /\ ProfilesNeverMix'
  BY DownsLeave DEF SInv, FilesTellTruth, PartialIsEmpty, ProfilesNeverMix
<1> QED
  BY <1>1, <1>2, DownsLeave DEF SInv, FilesTellTruth

(* A call of compose down leaves no step of up in hand. *)
LEMMA DownsAgree == ASSUME SInv, Downs PROVE Agreement'
<1>1. /\ UpRollback => pc' \in {"idle", "partial"} /\ pc = "rollback" /\ (pc' = "partial" => cmd' = cmd)
      /\ RecoverTeardown => pc' \in {"idle", "mended"} /\ pc = "mend"
      /\ Destroy => pc' = "remove"
      /\ Stop => pc' \in {"idle", "stopped"}
  BY DEF UpRollback, RecoverTeardown, Destroy, Stop, Enter, Go, End
<1>2. spent'.outages = 0 => daemon
  BY DownsLeave DEF SInv, Counted
<1> QED
  BY <1>1, <1>2, DownsLeave DEF Downs, SInv, Agreement, NoMarker

LEMMA UpBeginKeeps ==
    ASSUME NEW c, UpBegin(c)
    PROVE  /\ UNCHANGED <<plane, rest, marker>>
           /\ \/ pc' = "idle"
              \/ /\ ~UpRefused(c) /\ ~UpNoop(c) /\ pc' = "prepare"
                 /\ cmd' = [c EXCEPT !.cut = ~daemon]
BY DEF UpBegin, End, Enter

LEMMA AgreementStep ==
    ASSUME SInv, Next, TypeOK' PROVE Agreement'
<1>1. CASE UpPrepare
  BY <1>1, SpendCounted DEF UpPrepare, End, Go, Enter, Plain, plane, rest, SInv,
     TypeOK, Counted, Commands, Agreement, ChecksStand, AllowStands, Checked, Research,
     NoMarker, Written
<1>2. CASE UpBoot
  BY <1>2, SpendCounted DEF UpBoot, End, Go, Enter, Plain, plane, rest, SInv, TypeOK,
     Counted, Commands, Agreement, ChecksStand, AllowStands, Checked, Research,
     NoMarker, ComposeUp, Of
<1>3. CASE UpCheck
  BY <1>3, SpendCounted DEF UpCheck, End, Go, Enter, Plain, plane, rest, SInv, TypeOK,
     Counted, Commands, Agreement, ChecksStand, AllowStands, Checked, Research,
     NoMarker, Verified, EgressDenied, ResearchClosed, Hardened, Of, Defects
<1>4. CASE UpUplink
  BY <1>4, SpendCounted DEF UpUplink, End, Go, Enter, Plain, plane, rest, SInv, TypeOK,
     Counted, Commands, Agreement, ChecksStand, AllowStands, Checked, Research,
     NoMarker, ComposeUp, Of
<1>5. CASE UpUplinked
  <2>1. /\ UNCHANGED <<live, bad, proxy, marker, cmd, survived, failures, spent>>
        /\ canary \subseteq canary' /\ pc' \in {"running", "rollback"} /\ pc = "uplinked"
    BY <1>5 DEF UpUplinked, Go, rest
  <2>2. ChecksStand' /\ AllowStands'
    BY <2>1 DEF SInv, Agreement, ChecksStand, AllowStands, Checked, Research
  <2> QED
    BY <2>1, <2>2 DEF SInv, Agreement, NoMarker
<1>6. CASE UpRollback
  BY <1>6, DownsAgree DEF Downs
<1>7. CASE UpPartial
  BY <1>7, SpendCounted DEF UpPartial, End, Go, Enter, Plain, plane, rest, SInv,
     TypeOK, Counted, Commands, Agreement, ChecksStand, AllowStands, Checked, Research,
     NoMarker, Written
<1>8. CASE UpRunning
  BY <1>8, SpendCounted DEF UpRunning, End, Go, Enter, Plain, plane, rest, SInv,
     TypeOK, Counted, Commands, Agreement, ChecksStand, AllowStands, Checked, Research,
     NoMarker, Written
<1>9. CASE Stop
  <2>1. CASE marker # NoMarker
    BY <1>9, <2>1, DownsAgree DEF Downs
  <2>2. CASE marker = NoMarker
    BY <1>9, <2>2, SpendCounted DEF Stop, End, plane, rest, SInv, Counted, Agreement, ChecksStand, AllowStands, Checked, Research
  <2> QED
    BY <2>1, <2>2
<1>10. CASE Stopped
  BY <1>10, SpendCounted DEF Stopped, End, Go, Enter, Plain, plane, rest, SInv, TypeOK,
     Counted, Commands, Agreement, ChecksStand, AllowStands, Checked, Research, NoMarker
<1>11. CASE Destroy
  BY <1>11, DownsAgree DEF Downs
<1>12. CASE Remove
  BY <1>12, SpendCounted DEF Remove, End, Go, Enter, Plain, plane, rest, SInv, TypeOK,
     Counted, Commands, Agreement, ChecksStand, AllowStands, Checked, Research, NoMarker
<1>13. CASE Reset
  BY <1>13, SpendCounted DEF Reset, End, Go, Enter, Plain, plane, rest, SInv, TypeOK,
     Counted, Commands, Agreement, ChecksStand, AllowStands, Checked, Research, NoMarker
<1>14. CASE ResetDone
  BY <1>14, SpendCounted DEF ResetDone, End, Go, Enter, Plain, plane, rest, SInv,
     TypeOK, Counted, Commands, Agreement, ChecksStand, AllowStands, Checked, Research,
     NoMarker
<1>15. CASE Recover
  BY <1>15, SpendCounted, RecoverCases DEF plane, rest, SInv, TypeOK, Counted,
     Commands, Agreement, ChecksStand, AllowStands, Checked, Research, NoMarker, Markers
<1>16. CASE RecoverTeardown
  BY <1>16, DownsAgree DEF Downs
<1>17. CASE Recovered
  BY <1>17, SpendCounted DEF Recovered, End, Go, Enter, Plain, plane, rest, SInv,
     TypeOK, Counted, Commands, Agreement, ChecksStand, AllowStands, Checked, Research,
     NoMarker
<1>18. CASE Export
  BY <1>18, SpendCounted DEF Export, End, Go, Enter, Plain, plane, rest, SInv, TypeOK,
     Counted, Commands, Agreement, ChecksStand, AllowStands, Checked, Research, NoMarker
<1>19. CASE Deliver
  BY <1>19, SpendCounted DEF Deliver, End, Go, Enter, Plain, plane, rest, SInv, TypeOK,
     Counted, Commands, Agreement, ChecksStand, AllowStands, Checked, Research, NoMarker
<1>20. CASE Detonate
  BY <1>20, SpendCounted DEF Detonate, End, Go, Enter, Plain, plane, rest, SInv,
     TypeOK, Counted, Commands, Agreement, ChecksStand, AllowStands, Checked, Research,
     NoMarker
<1>21. CASE Inspect
  BY <1>21, SpendCounted DEF Inspect, End, Go, Enter, Plain, plane, rest, SInv, TypeOK,
     Counted, Commands, Agreement, ChecksStand, AllowStands, Checked, Research, NoMarker
<1>22. CASE Interrupt
  BY <1>22, SpendCounted DEF Interrupt, End, Go, Enter, Plain, plane, rest, SInv,
     TypeOK, Counted, Commands, Agreement, ChecksStand, AllowStands, Checked, Research,
     NoMarker
<1>23. CASE Outage
  <2>1. spent'.outages # 0
    BY <1>23, SpendCounted, OutageKeeps DEF SInv, Counted
  <2> QED
    BY <1>23, <2>1, OutageKeeps DEF plane, SInv, Agreement, ChecksStand, AllowStands,
       Checked, Research, NoMarker
<1>24. CASE Back
  BY <1>24, SpendCounted DEF Back, End, Go, Enter, Plain, plane, rest, SInv, TypeOK,
     Counted, Commands, Agreement, ChecksStand, AllowStands, Checked, Research, NoMarker
<1>25. CASE Die
  BY <1>25, SpendCounted DEF Die, End, Go, Enter, Plain, plane, rest, SInv, TypeOK,
     Counted, Commands, Agreement, ChecksStand, AllowStands, Checked, Research,
     NoMarker, Of
<1>26. CASE Up
  BY <1>26, SpendCounted, UpBeginKeeps DEF Up, plane, rest, SInv, TypeOK, Counted,
     Commands, Agreement, ChecksStand, AllowStands, Checked, Research, NoMarker,
     UpNoop, UpRefused
<1>27. CASE Upgrade
  <2> DEFINE p == IF marker = NoMarker THEN "local-sandbox" ELSE marker.prof
  <2>1. CASE marker.st = "RUNNING"
    BY <1>27, <2>1, SpendCounted DEF Upgrade, End, plane, rest, SInv, Counted, Agreement
  <2>2. p \in Profiles
    BY DEF SInv, TypeOK, Agreement, Markers, Profiles
  <2>3. ASSUME NEW u \in BOOLEAN, UpBegin([op |-> "up", prof |-> p, allow |-> {}, uplink |-> u,
                                           cut |-> FALSE])
        PROVE  Agreement'
    BY <2>2, <2>3, UpBeginKeeps, SpendCounted, <1>27
       DEF Upgrade, plane, rest, SInv, Counted, Agreement, UpRefused, UpNoop, NoMarker
  <2> QED
    BY <1>27, <2>1, <2>3 DEF Upgrade
<1> QED
  BY <1>1, <1>2, <1>3, <1>4, <1>5, <1>6, <1>7, <1>8, <1>9, <1>10, <1>11, <1>12, <1>13,
     <1>14, <1>15, <1>16, <1>17, <1>18, <1>19, <1>20, <1>21, <1>22, <1>23, <1>24,
     <1>25, <1>26, <1>27 DEF Next, UpSteps

LEMMA TruthStep ==
    ASSUME SInv, Next, TypeOK' PROVE FilesTellTruth'
<1>1. CASE UpPrepare
  BY <1>1, SpendCounted DEF UpPrepare, End, Go, Enter, Plain, plane, rest, SInv,
     TypeOK, Counted, Commands, FilesTellTruth, RunningIsVerified, AllowlistIsCurrent,
     PartialIsEmpty, Agreement, ChecksStand, AllowStands, Checked, Research, NoMarker,
     Written
<1>2. CASE UpBoot
  BY <1>2, SpendCounted DEF UpBoot, End, Go, Enter, Plain, plane, rest, SInv, TypeOK,
     Counted, Commands, FilesTellTruth, RunningIsVerified, AllowlistIsCurrent,
     PartialIsEmpty, Agreement, ChecksStand, AllowStands, Checked, Research, NoMarker,
     ComposeUp, Of
<1>3. CASE UpCheck
  BY <1>3, SpendCounted DEF UpCheck, End, Go, Enter, Plain, plane, rest, SInv, TypeOK,
     Counted, Commands, FilesTellTruth, RunningIsVerified, AllowlistIsCurrent,
     PartialIsEmpty, Agreement, ChecksStand, AllowStands, Checked, Research, NoMarker,
     Verified, EgressDenied, ResearchClosed, Hardened, Of, Defects
<1>4. CASE UpUplink
  BY <1>4, SpendCounted DEF UpUplink, End, Go, Enter, Plain, plane, rest, SInv, TypeOK,
     Counted, Commands, FilesTellTruth, RunningIsVerified, AllowlistIsCurrent,
     PartialIsEmpty, Agreement, ChecksStand, AllowStands, Checked, Research, NoMarker,
     ComposeUp, Of
<1>5. CASE UpUplinked
  BY <1>5, SpendCounted DEF UpUplinked, End, Go, Enter, Plain, plane, rest, SInv,
     TypeOK, Counted, Commands, FilesTellTruth, RunningIsVerified, AllowlistIsCurrent,
     PartialIsEmpty, Agreement, ChecksStand, AllowStands, Checked, Research, NoMarker
<1>6. CASE UpRollback
  BY <1>6, DownsTell DEF Downs
<1>7. CASE UpPartial
  BY <1>7, SpendCounted DEF UpPartial, End, Go, Enter, Plain, plane, rest, SInv,
     TypeOK, Counted, Commands, FilesTellTruth, RunningIsVerified, AllowlistIsCurrent,
     PartialIsEmpty, Agreement, ChecksStand, AllowStands, Checked, Research, NoMarker,
     Written
<1>8. CASE UpRunning
  BY <1>8, SpendCounted DEF UpRunning, End, Go, Enter, Plain, plane, rest, SInv,
     TypeOK, Counted, Commands, FilesTellTruth, RunningIsVerified, AllowlistIsCurrent,
     PartialIsEmpty, Agreement, ChecksStand, AllowStands, Checked, Research, NoMarker,
     Written
<1>9. CASE Stop
  <2>1. CASE marker # NoMarker
    BY <1>9, <2>1, DownsTell DEF Downs
  <2>2. CASE marker = NoMarker
    BY <1>9, <2>2, SpendCounted DEF Stop, End, plane, rest, SInv, Counted, FilesTellTruth, RunningIsVerified,
       AllowlistIsCurrent, PartialIsEmpty, Checked, Research
  <2> QED
    BY <2>1, <2>2
<1>10. CASE Stopped
  BY <1>10, SpendCounted DEF Stopped, End, Go, Enter, Plain, plane, rest, SInv, TypeOK,
     Counted, Commands, FilesTellTruth, RunningIsVerified, AllowlistIsCurrent,
     PartialIsEmpty, Agreement, ChecksStand, AllowStands, Checked, Research, NoMarker
<1>11. CASE Destroy
  BY <1>11, DownsTell DEF Downs
<1>12. CASE Remove
  BY <1>12, SpendCounted DEF Remove, End, Go, Enter, Plain, plane, rest, SInv, TypeOK,
     Counted, Commands, FilesTellTruth, RunningIsVerified, AllowlistIsCurrent,
     PartialIsEmpty, Agreement, ChecksStand, AllowStands, Checked, Research, NoMarker
<1>13. CASE Reset
  BY <1>13, SpendCounted DEF Reset, End, Go, Enter, Plain, plane, rest, SInv, TypeOK,
     Counted, Commands, FilesTellTruth, RunningIsVerified, AllowlistIsCurrent,
     PartialIsEmpty, Agreement, ChecksStand, AllowStands, Checked, Research, NoMarker
<1>14. CASE ResetDone
  <2>1. /\ UNCHANGED <<live, bad, canary, proxy, bundle>>
        /\ marker' = [marker EXCEPT !.seed = FALSE] /\ marker.st = "RUNNING"
    BY <1>14 DEF ResetDone, SInv, Agreement, plane, rest
  <2>2. marker'.st = "RUNNING" /\ marker'.prof = marker.prof /\ marker'.allow = marker.allow
    BY <2>1 DEF SInv, TypeOK, Markers
  <2> QED
    BY <2>1, <2>2 DEF SInv, FilesTellTruth, RunningIsVerified, AllowlistIsCurrent,
       PartialIsEmpty, Checked, Research
<1>15. CASE Recover
  <2>1. /\ UNCHANGED <<live, bad, canary, proxy, bundle, survived, failures>>
        /\ spent'.outages = 0 => spent.outages = 0
    BY <1>15, SpendCounted, RecoverCases DEF plane, rest, SInv, Counted
  <2>2. marker' = marker \/ marker'.st = "STOPPED"
    BY <1>15, RecoverCases DEF SInv, TypeOK, Markers
  <2> QED
    BY <2>1, <2>2 DEF SInv, FilesTellTruth, RunningIsVerified, AllowlistIsCurrent,
       PartialIsEmpty, Checked, Research
<1>16. CASE RecoverTeardown
  BY <1>16, DownsTell DEF Downs
<1>17. CASE Recovered
  BY <1>17, SpendCounted DEF Recovered, End, Go, Enter, Plain, plane, rest, SInv,
     TypeOK, Counted, Commands, FilesTellTruth, RunningIsVerified, AllowlistIsCurrent,
     PartialIsEmpty, Agreement, ChecksStand, AllowStands, Checked, Research, NoMarker
<1>18. CASE Export
  BY <1>18, SpendCounted DEF Export, End, Go, Enter, Plain, plane, rest, SInv, TypeOK,
     Counted, Commands, FilesTellTruth, RunningIsVerified, AllowlistIsCurrent,
     PartialIsEmpty, Agreement, ChecksStand, AllowStands, Checked, Research, NoMarker
<1>19. CASE Deliver
  BY <1>19, SpendCounted DEF Deliver, End, Go, Enter, Plain, plane, rest, SInv, TypeOK,
     Counted, Commands, FilesTellTruth, RunningIsVerified, AllowlistIsCurrent,
     PartialIsEmpty, Agreement, ChecksStand, AllowStands, Checked, Research, NoMarker
<1>20. CASE Detonate
  BY <1>20, SpendCounted DEF Detonate, End, Go, Enter, Plain, plane, rest, SInv,
     TypeOK, Counted, Commands, FilesTellTruth, RunningIsVerified, AllowlistIsCurrent,
     PartialIsEmpty, Agreement, ChecksStand, AllowStands, Checked, Research, NoMarker
<1>21. CASE Inspect
  BY <1>21, SpendCounted DEF Inspect, End, Go, Enter, Plain, plane, rest, SInv, TypeOK,
     Counted, Commands, FilesTellTruth, RunningIsVerified, AllowlistIsCurrent,
     PartialIsEmpty, Agreement, ChecksStand, AllowStands, Checked, Research, NoMarker
<1>22. CASE Interrupt
  BY <1>22, SpendCounted DEF Interrupt, End, Go, Enter, Plain, plane, rest, SInv,
     TypeOK, Counted, Commands, FilesTellTruth, RunningIsVerified, AllowlistIsCurrent,
     PartialIsEmpty, Agreement, ChecksStand, AllowStands, Checked, Research, NoMarker
<1>23. CASE Outage
  <2>1. spent'.outages # 0
    BY <1>23, SpendCounted, OutageKeeps DEF SInv, Counted
  <2> QED
    BY <1>23, <2>1, OutageKeeps DEF plane, SInv, FilesTellTruth, RunningIsVerified,
       AllowlistIsCurrent, PartialIsEmpty, Agreement, ChecksStand, AllowStands,
       Checked, Research, NoMarker
<1>24. CASE Back
  BY <1>24, SpendCounted DEF Back, End, Go, Enter, Plain, plane, rest, SInv, TypeOK,
     Counted, Commands, FilesTellTruth, RunningIsVerified, AllowlistIsCurrent,
     PartialIsEmpty, Agreement, ChecksStand, AllowStands, Checked, Research, NoMarker
<1>25. CASE Die
  BY <1>25, SpendCounted DEF Die, End, Go, Enter, Plain, plane, rest, SInv, TypeOK,
     Counted, Commands, FilesTellTruth, RunningIsVerified, AllowlistIsCurrent,
     PartialIsEmpty, Agreement, ChecksStand, AllowStands, Checked, Research, NoMarker,
     Of
<1>26. CASE Up
  BY <1>26, SpendCounted, UpBeginKeeps DEF Up, plane, rest, SInv, TypeOK, Counted,
     Commands, FilesTellTruth, RunningIsVerified, AllowlistIsCurrent, PartialIsEmpty,
     Agreement, ChecksStand, AllowStands, Checked, Research, NoMarker, UpNoop, UpRefused
<1>27. CASE Upgrade
  BY <1>27, SpendCounted, UpBeginKeeps DEF Upgrade, End, Go, Enter, Plain, plane, rest,
     SInv, TypeOK, Counted, Commands, FilesTellTruth, RunningIsVerified,
     AllowlistIsCurrent, PartialIsEmpty, Agreement, ChecksStand, AllowStands, Checked,
     Research, NoMarker, UpRefused, UpNoop, Profiles, Markers
<1> QED
  BY <1>1, <1>2, <1>3, <1>4, <1>5, <1>6, <1>7, <1>8, <1>9, <1>10, <1>11, <1>12, <1>13,
     <1>14, <1>15, <1>16, <1>17, <1>18, <1>19, <1>20, <1>21, <1>22, <1>23, <1>24,
     <1>25, <1>26, <1>27 DEF Next, UpSteps

LEMMA MixStep ==
    ASSUME SInv, Next, TypeOK' PROVE ProfilesNeverMix'
<1>1. CASE UpPrepare
  BY <1>1, SpendCounted DEF UpPrepare, End, Go, Enter, Plain, plane, rest, SInv,
     TypeOK, Counted, Commands, ProfilesNeverMix, Agreement, Research, NoMarker, Written
<1>2. CASE UpBoot
  BY <1>2, SpendCounted DEF UpBoot, End, Go, Enter, Plain, plane, rest, SInv, TypeOK,
     Counted, Commands, ProfilesNeverMix, Agreement, Research, NoMarker, ComposeUp, Of,
     Checked
<1>3. CASE UpCheck
  BY <1>3, SpendCounted DEF UpCheck, End, Go, Enter, Plain, plane, rest, SInv, TypeOK,
     Counted, Commands, ProfilesNeverMix, Agreement, Research, NoMarker, Verified,
     EgressDenied, ResearchClosed, Hardened, Of, Defects
<1>4. CASE UpUplink
  BY <1>4, SpendCounted DEF UpUplink, End, Go, Enter, Plain, plane, rest, SInv, TypeOK,
     Counted, Commands, ProfilesNeverMix, Agreement, Research, NoMarker, ComposeUp, Of
<1>5. CASE UpUplinked
  BY <1>5, SpendCounted DEF UpUplinked, End, Go, Enter, Plain, plane, rest, SInv,
     TypeOK, Counted, Commands, ProfilesNeverMix, Agreement, Research, NoMarker
<1>6. CASE UpRollback
  BY <1>6, DownsTell DEF Downs
<1>7. CASE UpPartial
  BY <1>7, SpendCounted DEF UpPartial, End, Go, Enter, Plain, plane, rest, SInv,
     TypeOK, Counted, Commands, ProfilesNeverMix, Agreement, Research, NoMarker, Written
<1>8. CASE UpRunning
  BY <1>8, SpendCounted DEF UpRunning, End, Go, Enter, Plain, plane, rest, SInv,
     TypeOK, Counted, Commands, ProfilesNeverMix, Agreement, Research, NoMarker, Written
<1>9. CASE Stop
  <2>1. CASE marker # NoMarker
    BY <1>9, <2>1, DownsTell DEF Downs
  <2>2. CASE marker = NoMarker
    BY <1>9, <2>2, SpendCounted DEF Stop, End, plane, rest, SInv, Counted, ProfilesNeverMix
  <2> QED
    BY <2>1, <2>2
<1>10. CASE Stopped
  BY <1>10, SpendCounted DEF Stopped, End, Go, Enter, Plain, plane, rest, SInv, TypeOK,
     Counted, Commands, ProfilesNeverMix, Agreement, Research, NoMarker
<1>11. CASE Destroy
  BY <1>11, DownsTell DEF Downs
<1>12. CASE Remove
  BY <1>12, SpendCounted DEF Remove, End, Go, Enter, Plain, plane, rest, SInv, TypeOK,
     Counted, Commands, ProfilesNeverMix, Agreement, Research, NoMarker
<1>13. CASE Reset
  BY <1>13, SpendCounted DEF Reset, End, Go, Enter, Plain, plane, rest, SInv, TypeOK,
     Counted, Commands, ProfilesNeverMix, Agreement, Research, NoMarker
<1>14. CASE ResetDone
  BY <1>14, SpendCounted DEF ResetDone, End, Go, Enter, Plain, plane, rest, SInv,
     TypeOK, Counted, Commands, ProfilesNeverMix, Agreement, Research, NoMarker
<1>15. CASE Recover
  BY <1>15, SpendCounted, RecoverCases DEF plane, rest, SInv, TypeOK, Counted,
     Commands, ProfilesNeverMix, Agreement, Research, NoMarker, Markers
<1>16. CASE RecoverTeardown
  BY <1>16, DownsTell DEF Downs
<1>17. CASE Recovered
  BY <1>17, SpendCounted DEF Recovered, End, Go, Enter, Plain, plane, rest, SInv,
     TypeOK, Counted, Commands, ProfilesNeverMix, Agreement, Research, NoMarker
<1>18. CASE Export
  BY <1>18, SpendCounted DEF Export, End, Go, Enter, Plain, plane, rest, SInv, TypeOK,
     Counted, Commands, ProfilesNeverMix, Agreement, Research, NoMarker
<1>19. CASE Deliver
  BY <1>19, SpendCounted DEF Deliver, End, Go, Enter, Plain, plane, rest, SInv, TypeOK,
     Counted, Commands, ProfilesNeverMix, Agreement, Research, NoMarker
<1>20. CASE Detonate
  BY <1>20, SpendCounted DEF Detonate, End, Go, Enter, Plain, plane, rest, SInv,
     TypeOK, Counted, Commands, ProfilesNeverMix, Agreement, Research, NoMarker
<1>21. CASE Inspect
  BY <1>21, SpendCounted DEF Inspect, End, Go, Enter, Plain, plane, rest, SInv, TypeOK,
     Counted, Commands, ProfilesNeverMix, Agreement, Research, NoMarker
<1>22. CASE Interrupt
  BY <1>22, SpendCounted DEF Interrupt, End, Go, Enter, Plain, plane, rest, SInv,
     TypeOK, Counted, Commands, ProfilesNeverMix, Agreement, Research, NoMarker
<1>23. CASE Outage
  BY <1>23, SpendCounted, OutageKeeps DEF plane, SInv, Counted, ProfilesNeverMix,
     Agreement, Research, NoMarker
<1>24. CASE Back
  BY <1>24, SpendCounted DEF Back, End, Go, Enter, Plain, plane, rest, SInv, TypeOK,
     Counted, Commands, ProfilesNeverMix, Agreement, Research, NoMarker
<1>25. CASE Die
  BY <1>25, SpendCounted DEF Die, End, Go, Enter, Plain, plane, rest, SInv, TypeOK,
     Counted, Commands, ProfilesNeverMix, Agreement, Research, NoMarker, Of
<1>26. CASE Up
  BY <1>26, SpendCounted, UpBeginKeeps DEF Up, plane, rest, SInv, TypeOK, Counted,
     Commands, ProfilesNeverMix, Agreement, Research, NoMarker, UpNoop, UpRefused
<1>27. CASE Upgrade
  BY <1>27, SpendCounted, UpBeginKeeps DEF Upgrade, End, Go, Enter, Plain, plane, rest,
     SInv, TypeOK, Counted, Commands, ProfilesNeverMix, Agreement, Research, NoMarker,
     UpRefused, UpNoop, Profiles, Markers
<1> QED
  BY <1>1, <1>2, <1>3, <1>4, <1>5, <1>6, <1>7, <1>8, <1>9, <1>10, <1>11, <1>12, <1>13,
     <1>14, <1>15, <1>16, <1>17, <1>18, <1>19, <1>20, <1>21, <1>22, <1>23, <1>24,
     <1>25, <1>26, <1>27 DEF Next, UpSteps

-----------------------------------------------------------------------------
LEMMA SInvStep == SInv /\ [Next]_vars => SInv'
<1> SUFFICES ASSUME SInv, [Next]_vars PROVE SInv'
  OBVIOUS
<1>1. CASE Next
  <2>1. TypeOK'
    BY <1>1, TypeStep DEF SInv
  <2> QED
    BY <1>1, <2>1, CountedStep, AgreementStep, TruthStep, MixStep DEF SInv
<1>2. CASE UNCHANGED vars
  BY <1>2 DEF vars, SInv, TypeOK, Counted, Agreement, ChecksStand, AllowStands,
     FilesTellTruth,
              RunningIsVerified, AllowlistIsCurrent, PartialIsEmpty, ProfilesNeverMix
<1> QED
  BY <1>1, <1>2

LEMMA SInvAlways == Spec => []SInv
BY InitSInv, SInvStep, PTL DEF Spec

(* Marker, command in hand, containers, files and histories keep their     *)
(* types, whatever is interrupted, dies or is out of reach.                *)
THEOREM SandboxTypeCorrect == Spec => []TypeOK
<1>1. SInv => TypeOK
  BY DEF SInv
<1> QED
  BY <1>1, SInvAlways, PTL

(* RUNNING stands for containers that were checked since they started and  *)
(* an allowlist the proxy enforces, PARTIAL for nothing but what a compose *)
(* down left running, and no bundle with a secret is delivered: for any    *)
(* hosts, commands, interrupts, outages, failing downs and deaths of       *)
(* containers.                                                             *)
THEOREM MarkerTellsTruth == Spec => []FilesTellTruth
<1>1. SInv => FilesTellTruth
  BY DEF SInv
<1> QED
  BY <1>1, SInvAlways, PTL

(* The research plane never runs under the marker of another profile, but  *)
(* for what a compose down has left behind.                                *)
THEOREM ProfilesAreApart == Spec => []ProfilesNeverMix
<1>1. SInv => ProfilesNeverMix
  BY DEF SInv
<1> QED
  BY <1>1, SInvAlways, PTL
-----------------------------------------------------------------------------
(* What the two action properties need besides: a yes that was given in    *)
(* this command, and whether the daemon was in reach all through it.       *)
Consent == pc \in {"prepare", "boot"} /\ Research(cmd) => confirmed
Reached ==
    /\ pc # "idle" /\ ~daemon => cmd.cut
    /\ pc = "mended" /\ ~cmd.cut /\ failures = 0 => "app" \notin live
    /\ marker = NoMarker => live \subseteq survived

EInv == SInv /\ Consent /\ Reached

(* Actions that end the command in hand or pass to its next step. *)
LateSteps == UpBoot \/ UpCheck \/ UpUplink \/ UpUplinked \/ UpRollback \/ UpPartial \/ UpRunning
Finishes  == Stopped \/ Remove \/ ResetDone \/ RecoverTeardown \/ Recovered \/ Deliver
Starts    == Stop \/ Destroy \/ Reset \/ Recover \/ Export \/ Detonate \/ Inspect
World     == Interrupt \/ Outage \/ Back \/ Die

LEMMA NextParts ==
    Next => Up \/ Upgrade \/ UpPrepare \/ LateSteps \/ Finishes \/ Starts \/ World
BY DEF Next, UpSteps, LateSteps, Finishes, Starts, World

LEMMA LateStages ==
    /\ LateSteps => pc' \notin {"prepare", "boot", "mended"} /\ pc # "idle"
    /\ Finishes => pc' \in {"idle", "mended"} /\ pc # "idle"
    /\ Starts => pc' \notin {"prepare", "boot", "mended"}
    /\ Finishes /\ pc' = "mended" => RecoverTeardown
<1>1. LateSteps => pc' \notin {"prepare", "boot", "mended"} /\ pc # "idle"
  BY DEF LateSteps, UpBoot, UpCheck, UpUplink, UpUplinked, UpRollback, UpPartial, UpRunning, Go, End
<1>2. Finishes => pc' \in {"idle", "mended"} /\ pc # "idle"
  BY DEF Finishes, Stopped, Remove, ResetDone, RecoverTeardown, Recovered, Deliver, Go, End
<1>3. Finishes /\ pc' = "mended" => RecoverTeardown
  BY DEF Finishes, Stopped, Remove, ResetDone, Recovered, Deliver, End
<1>4. Recover => pc' \in {"idle", "mend"}
  BY RecoverCases
<1>5. Starts => pc' \notin {"prepare", "boot", "mended"}
  BY <1>4 DEF Starts, Stop, Destroy, Reset, Export, Detonate, Inspect, Enter, End
<1> QED
  BY <1>1, <1>2, <1>3, <1>5

(* How up and upgrade begin: what they take down, and what they record. *)
LEMMA UpBegins ==
    ASSUME Up \/ Upgrade
    PROVE  /\ UNCHANGED <<plane, rest, marker>>
           /\ \/ pc' = "idle" /\ last'[1] = "up"
              \/ pc' = "prepare" /\ (~daemon => cmd'.cut) /\ (Research(cmd) => confirmed)'
<1>1. ASSUME NEW p, NEW a, NEW u,
             UpBegin([op |-> "up", prof |-> p, allow |-> a, uplink |-> u, cut |-> FALSE])
      PROVE  /\ UNCHANGED <<plane, rest, marker>>
             /\ \/ pc' = "idle" /\ last'[1] = "up"
                \/ pc' = "prepare" /\ (~daemon => cmd'.cut) /\ (Research(cmd) => confirmed)'
  <2> DEFINE c == [op |-> "up", prof |-> p, allow |-> a, uplink |-> u, cut |-> FALSE]
  <2>1. c.prof = p /\ [c EXCEPT !.cut = ~daemon].prof = p
    OBVIOUS
  <2>2. ~daemon => [c EXCEPT !.cut = ~daemon].cut
    BY Zenon
  <2>3. UpBegin(c)
    BY <1>1
  <2> HIDE DEF c
  <2>4. CASE \E code : End("up", code)
    BY <2>3, <2>4 DEF UpBegin, End
  <2>5. CASE confirmed' = Asks(c) /\ Enter(c, "prepare")
    BY <2>1, <2>2, <2>3, <2>5 DEF UpBegin, Enter, Asks, Research
  <2> QED
    BY <2>3, <2>4, <2>5 DEF UpBegin
<1>2. CASE Up
  BY <1>1, <1>2 DEF Up
<1>3. CASE Upgrade
  <2>1. CASE End("up", 2) /\ UNCHANGED <<plane, rest, marker, ackFile, confirmed>>
    BY <2>1 DEF End
  <2> QED
    BY <1>1, <1>3, <2>1 DEF Upgrade
<1> QED
  BY <1>2, <1>3

LEMMA ConsentStep == ASSUME SInv, Consent, Next PROVE Consent'
<1>1. CASE Up \/ Upgrade
  BY <1>1, UpBegins DEF Consent
<1>2. CASE UpPrepare
  BY <1>2 DEF UpPrepare, Go, End, Consent
<1>3. CASE LateSteps \/ Finishes \/ Starts
  BY <1>3, LateStages DEF Consent
<1>4. CASE World
  BY <1>4, OutageKeeps DEF World, Interrupt, Outage, Back, Die, End, Consent, Research, SInv
<1> QED
  BY <1>1, <1>2, <1>3, <1>4, NextParts

LEMMA StepsKeep ==
    /\ UpPrepare \/ LateSteps \/ Finishes =>
         daemon' = daemon /\ (pc' = "idle" \/ cmd' = cmd)
    /\ Starts => daemon' = daemon /\ (pc' = "idle" \/ (~daemon => cmd'.cut))
<1>1. UpPrepare \/ LateSteps =>
        daemon' = daemon /\ (pc' = "idle" \/ cmd' = cmd)
  BY DEF UpPrepare, LateSteps, UpBoot, UpCheck, UpUplink, UpUplinked, UpRollback, UpPartial,
     UpRunning, Go, End, rest
<1>2. Finishes => daemon' = daemon /\ (pc' = "idle" \/ cmd' = cmd)
  BY DEF Finishes, Stopped, Remove, ResetDone, RecoverTeardown, Recovered, Deliver, Go, End, rest
<1>3. ASSUME NEW op, NEW stage, Enter(Plain(op), stage) PROVE (~daemon => cmd'.cut)
  BY <1>3, Zenon DEF Enter, Plain, NoCommand
<1>4. Recover => daemon' = daemon /\ (pc' = "idle" \/ (~daemon => cmd'.cut))
  <2> SUFFICES ASSUME Recover
               PROVE  daemon' = daemon /\ (pc' = "idle" \/ (~daemon => cmd'.cut))
    OBVIOUS
  <2>1. daemon' = daemon
    BY DEF Recover, rest
  <2>2. pc' = "idle" \/ Enter(Plain("recover"), "mend")
    BY DEF Recover, End
  <2> QED
    BY <1>3, <2>1, <2>2
<1>5. Starts => daemon' = daemon /\ (pc' = "idle" \/ (~daemon => cmd'.cut))
  <2>1. ASSUME Stop \/ Reset \/ Export \/ Detonate \/ Inspect
        PROVE  /\ daemon' = daemon
               /\ pc' = "idle" \/ \E op, stage : Enter(Plain(op), stage)
    BY <2>1 DEF Stop, Reset, Export, Detonate, Inspect, End, rest
  <2>2. Destroy => daemon' = daemon /\ Enter(Plain("destroy"), "remove")
    BY DEF Destroy, rest
  <2> QED
    BY <1>3, <1>4, <2>1, <2>2, Zenon DEF Starts
<1> QED
  BY <1>1, <1>2, <1>5

LEMMA ReachStep ==
    ASSUME SInv, Reached, Next PROVE (pc # "idle" /\ ~daemon => cmd.cut)'
<1>1. CASE Up \/ Upgrade
  BY <1>1, UpBegins DEF rest
<1>2. CASE UpPrepare \/ LateSteps \/ Finishes
  <2>1. pc # "idle"
    BY <1>2, LateStages DEF UpPrepare
  <2> QED
    BY <1>2, <2>1, StepsKeep DEF Reached
<1>3. CASE Starts
  BY <1>3, StepsKeep
<1>4. CASE Interrupt \/ Back \/ Die
  BY <1>4 DEF Interrupt, Back, Die, End, rest, Reached
<1>5. CASE Outage
  <2>1. CASE pc # "idle"
    <3>1. cmd' = [cmd EXCEPT !.cut = TRUE] /\ cmd \in Commands
      BY <1>5, <2>1 DEF Outage, SInv, TypeOK
    <3> QED
      BY <3>1 DEF Commands
  <2> QED
    BY <1>5, <2>1 DEF Outage
<1> QED
  BY <1>1, <1>2, <1>3, <1>4, <1>5, NextParts DEF World

LEMMA MendedStep ==
    ASSUME SInv, Reached, Next
    PROVE  (pc = "mended" /\ ~cmd.cut /\ failures = 0 => "app" \notin live)'
<1>1. CASE Up \/ Upgrade \/ UpPrepare \/ LateSteps \/ Starts
  BY <1>1, UpBegins, LateStages DEF UpPrepare, Go, End
<1>2. CASE Finishes
  <2> SUFFICES ASSUME RecoverTeardown, ~cmd.cut, failures' = 0 PROVE "app" \notin live'
    BY <1>2, LateStages, StepsKeep
  <2>1. daemon
    BY DEF RecoverTeardown, Reached
  <2> QED
    BY <2>1, DownsLeave DEF Downs
<1>3. CASE Outage
  <2>1. pc = "mended" => ~(~cmd'.cut)
    BY <1>3 DEF Outage, SInv, TypeOK, Commands
  <2> QED
    BY <1>3, <2>1 DEF Outage
<1>4. CASE Interrupt \/ Back \/ Die
  BY <1>4 DEF Interrupt, Back, Die, End, plane, Reached
<1> QED
  BY <1>1, <1>2, <1>3, <1>4, NextParts DEF World

LEMMA UnmarkedStep ==
    ASSUME SInv, Reached, Next PROVE (marker = NoMarker => live \subseteq survived)'
<1>1. CASE Up \/ Upgrade
  BY <1>1, UpBegins DEF plane, rest, Reached
<1>2. CASE UpPrepare \/ LateSteps
  <2>1. CASE marker' = marker /\ LateSteps
    BY <2>1 DEF LateSteps, UpBoot, UpCheck, UpUplink, UpUplinked, UpRollback, UpPartial, UpRunning,
       SInv, Agreement, NoMarker
  <2>2. \A st \in {"PREPARED", "RUNNING", "PARTIAL"} :
           /\ Written(st) # NoMarker
           /\ [Written(st) EXCEPT !.seed = TRUE, !.allow = cmd.allow] # NoMarker
    BY DEF Written, NoMarker
  <2> QED
    BY <1>2, <2>1, <2>2 DEF LateSteps, UpPrepare, UpBoot, UpCheck, UpUplink, UpUplinked, UpRollback,
       UpPartial, UpRunning, rest
<1>3. CASE Finishes
  <2>1. CASE Remove
    BY <2>1 DEF Remove, plane, rest, SInv, Agreement
  <2>2. CASE Stopped \/ Recovered
    <3>1. marker \in Markers
      BY DEF SInv, TypeOK
    <3>2. marker'.st # "UNBUILT"
      BY <2>2, <3>1 DEF Stopped, Recovered, Markers
    <3> QED
      BY <3>2 DEF NoMarker
  <2>3. CASE ResetDone
    <3>1. marker \in Markers /\ marker.st = "RUNNING"
      BY <2>3 DEF ResetDone, SInv, TypeOK, Agreement
    <3>2. marker'.st # "UNBUILT"
      BY <2>3, <3>1 DEF ResetDone, Markers
    <3> QED
      BY <3>2 DEF NoMarker
  <2>4. CASE RecoverTeardown
    BY <2>4 DEF RecoverTeardown, rest, SInv, Agreement
  <2>5. CASE Deliver
    BY <2>5 DEF Deliver, plane, Reached
  <2> QED
    BY <1>3, <2>1, <2>2, <2>3, <2>4, <2>5 DEF Finishes
<1>4. CASE Starts
  <2>1. live' = survived' \/ (live' = live /\ survived' = survived)
    BY <1>4, RecoverCases, DownsLeave DEF Downs, Starts, Stop, Destroy, Reset, Export, Detonate,
       Inspect, plane
  <2>2. marker' = NoMarker => marker = NoMarker
    <3>1. [marker EXCEPT !.st = "STOPPED"] # NoMarker
      BY DEF NoMarker, SInv, TypeOK, Markers
    <3> QED
      BY <1>4, <3>1, RecoverCases DEF Starts, Stop, Destroy, Reset, Export, Detonate, Inspect
  <2> QED
    BY <1>4, <2>1, <2>2, StepsKeep DEF Reached
<1>5. CASE World
  BY <1>5, OutageKeeps DEF World, Interrupt, Back, Die, plane, rest, Reached, SInv
<1> QED
  BY <1>1, <1>2, <1>3, <1>4, <1>5, NextParts

LEMMA EInvAlways == Spec => []EInv
<1>1. Init => EInv
  BY InitSInv DEF Init, EInv, Consent, Reached
<1>2. EInv /\ [Next]_vars => EInv'
  <2> SUFFICES ASSUME EInv, [Next]_vars PROVE EInv'
    OBVIOUS
  <2>1. CASE Next
    BY <2>1, SInvStep, ConsentStep, ReachStep, MendedStep, UnmarkedStep DEF EInv, Reached
  <2>2. CASE UNCHANGED vars
    BY <2>2, SInvStep DEF EInv, Consent, Reached, vars, Research
  <2> QED
    BY <2>1, <2>2
<1> QED
  BY <1>1, <1>2, PTL DEF Spec

(* No command starts the research plane but one in which the developer was *)
(* asked and said yes, whatever earlier commands have left on disk.        *)
THEOREM ResearchNeedsAYes == Spec => ResearchIsConfirmed
<1>1. EInv /\ [Next]_vars => [~("research" \in live) /\ "research" \in live' => confirmed]_vars
  <2> SUFFICES ASSUME EInv, Next, ~("research" \in live), "research" \in live' PROVE confirmed
    OBVIOUS
  <2>1. UpBoot \/ UpUplink
    <3>1. CASE Up \/ Upgrade
      BY <3>1, UpBegins DEF plane
    <3>2. CASE UpPrepare \/ LateSteps
      BY <3>2, DownsLeave DEF EInv, Downs, LateSteps, UpPrepare, UpCheck, UpUplinked, UpRollback,
         UpPartial, UpRunning, plane
    <3>3. CASE Finishes
      BY <3>3, DownsLeave DEF EInv, Downs, Finishes, Stopped, Remove, ResetDone, Recovered,
         Deliver, plane
    <3>4. CASE Starts
      BY <3>4, RecoverCases, DownsLeave DEF EInv, Downs, Starts, Stop, Reset, Export, Detonate,
         Inspect, plane
    <3>5. CASE World
      BY <3>5 DEF World, Interrupt, Outage, Back, Die, plane
    <3> QED
      BY <3>1, <3>2, <3>3, <3>4, <3>5, NextParts
  <2>2. ~UpUplink
    BY DEF UpUplink, ComposeUp, plane
  <2>3. pc = "boot" /\ Research(cmd)
    BY <2>1, <2>2 DEF UpBoot, ComposeUp, Checked, plane
  <2> QED
    BY <2>3 DEF EInv, Consent
<1> QED
  BY <1>1, EInvAlways, PTL DEF Spec, ResearchIsConfirmed

(* recover that had the daemon in reach all through ends in a marker that  *)
(* matches what runs: RUNNING for a healthy app, or one under which only   *)
(* what a compose down has left runs on.                                   *)
THEOREM RecoverTellsWhatRuns == Spec => RecoverTells
<1>1. EInv /\ [Next]_vars =>
        [Ends("recover") /\ daemon /\ ~cmd.cut =>
           IF marker'.st = "RUNNING"
             THEN "app" \in live /\ healthy
             ELSE /\ live' \subseteq survived'
                  /\ marker # NoMarker /\ failures = 0 => "app" \notin live']_vars
  <2> SUFFICES ASSUME EInv, Next, Ends("recover"), daemon, ~cmd.cut
               PROVE  IF marker'.st = "RUNNING"
                        THEN "app" \in live /\ healthy
                        ELSE /\ live' \subseteq survived'
                             /\ marker # NoMarker /\ failures = 0 => "app" \notin live'
    OBVIOUS
  <2>1. last' = <<"recover", 0>> /\ pc' = "idle"
    BY DEF Ends
  <2>2. Recover \/ Recovered
    <3>1. CASE Up \/ Upgrade
      BY <2>1, <3>1, UpBegins
    <3>2. CASE UpPrepare \/ LateSteps
      BY <2>1, <3>2 DEF LateSteps, UpPrepare, UpBoot, UpCheck, UpUplink, UpUplinked, UpRollback,
         UpPartial, UpRunning, End, Go
    <3>3. CASE Finishes
      BY <2>1, <3>3 DEF Finishes, Stopped, Remove, ResetDone, RecoverTeardown, Deliver, End, Go
    <3>4. CASE Starts
      BY <2>1, <3>4 DEF Starts, Stop, Destroy, Reset, Export, Detonate, Inspect, End, Enter
    <3>5. CASE Interrupt
      BY <2>1, <3>5 DEF Interrupt, End
    <3>6. CASE Outage \/ Back \/ Die
      <4>1. spent'.commands = spent.commands
        BY <3>6 DEF Outage, Back, Die, Spend, EInv, SInv, Counted
      <4>2. pc' = pc
        BY <3>6 DEF Outage, Back, Die
      <4> QED
        BY <2>1, <4>1, <4>2 DEF Ends
    <3> QED
      BY <3>1, <3>2, <3>3, <3>4, <3>5, <3>6, NextParts DEF World
  <2>3. CASE Recovered
    <3>1. /\ live' \subseteq survived' /\ marker \in Markers
          /\ failures = 0 => "app" \notin live'
      BY <2>3 DEF Recovered, EInv, Reached, SInv, TypeOK, Agreement, plane
    <3>2. marker'.st = "PARTIAL"
      BY <2>3, <3>1 DEF Recovered, Markers
    <3> QED
      BY <3>1, <3>2
  <2>4. CASE Recover
    <3>1. /\ live' = live /\ survived' = survived /\ marker \in Markers /\ Ps = live
          /\ marker = NoMarker => live \subseteq survived
      BY <2>4, RecoverCases DEF EInv, Reached, SInv, TypeOK, plane, Ps
    <3>2. CASE marker.st = "RUNNING" /\ live = {}
      <4>1. marker' = [marker EXCEPT !.st = "STOPPED"]
        BY <2>4, <3>1, <3>2 DEF Recover
      <4>2. marker'.st = "STOPPED"
        BY <3>1, <4>1 DEF Markers
      <4> QED
        BY <3>1, <3>2, <4>2
    <3>3. CASE ~(marker.st = "RUNNING" /\ live = {}) /\ marker # NoMarker /\ live # {}
      <4>1. marker.st = "RUNNING" /\ AppHealthy /\ marker' = marker
        BY <2>1, <2>4, <3>1, <3>3 DEF Recover, Enter
      <4> QED
        BY <4>1 DEF AppHealthy
    <3>4. CASE marker.st # "RUNNING" /\ (live = {} \/ marker = NoMarker)
      BY <2>4, <3>1, <3>4 DEF Recover
    <3> QED
      BY <3>2, <3>3, <3>4 DEF NoMarker
  <2> QED
    BY <2>2, <2>3, <2>4
<1> QED
  BY <1>1, EInvAlways, PTL DEF Spec, RecoverTells
===============================================================================
