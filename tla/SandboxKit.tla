------------------------------ MODULE SandboxKit ------------------------------
(***************************************************************************)
(* The lifecycle commands of the local sandbox (sandbox_kit/cli.py): up,   *)
(* stop, destroy, reset, recover, upgrade, export, detonate and inspect on *)
(* one sandbox name.  A command reads the marker file, calls the container *)
(* daemon several times and writes the marker again, so what the marker    *)
(* says and what runs are two things that interrupts (Ctrl-C, a killed     *)
(* terminal), daemon outages, compose calls that take effect in part and   *)
(* containers that die pull apart.                                         *)
(*                                                                         *)
(* Services are taken in three groups: "app" (sb-app, sb-redis, sb-seed    *)
(* and their canaries), "research" (sb-egress, sb-detonate and their       *)
(* self-checks) and "uplink" (sb-uplink, which publishes a host port).     *)
(***************************************************************************)
EXTENDS Naturals, FiniteSets

CONSTANTS Hosts,          \* what --allow-host may name
          MaxCommands,    \* bound: commands the developer types
          MaxInterrupts,  \* bound: commands killed half-way
          MaxOutages,     \* bound: times the daemon becomes unreachable
          MaxFailures,    \* bound: compose downs that fail half-way
          MaxDeaths       \* bound: containers that die or turn unhealthy

ASSUME SandboxAssumption ==
    {MaxCommands, MaxInterrupts, MaxOutages, MaxFailures, MaxDeaths} \subseteq Nat

Defects  == {<<"app", "egress">>, <<"app", "hardening">>, <<"research", "closure">>,
             <<"uplink", "egress">>}
Of(groups) == {d \in Defects : d[1] \in groups}
Groups   == {"app", "research", "uplink"}
Profiles == {"app-only", "local-sandbox", "research-sandbox"}
Stages   == {"idle", "prepare", "boot", "check", "uplink", "uplinked", "rollback", "partial",
             "running", "stopped", "remove", "reset", "mend", "mended", "deliver"}
NoMarker == [st |-> "UNBUILT", prof |-> "none", seed |-> FALSE, allow |-> {}]

VARIABLES
    marker,     \* state.json, or NoMarker
    ackFile,    \* ack.txt exists
    live,       \* the groups whose containers run
    bad,        \* defects of what runs, each one that some check of up finds
    healthy,    \* sb-app's healthcheck
    volume,     \* the named volume: "none", "clean" or "corpus"
    proxy,      \* the allowlist in the environment of the running sb-egress
    bundle,     \* the export directory: "none", "clean" or "secret"
    partial,    \* the bundle still being built, in dest.partial
    daemon,     \* the container daemon answers
    pc,         \* the next step of the command in hand
    cmd,        \* the command in hand, with the marker it has read
    last,       \* the last command that ended, and its exit code
    canary,     \* history: groups whose checks have run since they were started
    confirmed,  \* history: the developer has answered yes in this command
    survived,   \* history: groups that a compose down has left running
    failures,   \* history: compose downs that failed half-way so far
    spent       \* history: commands, interrupts, outages and deaths so far

vars == <<marker, ackFile, live, bad, healthy, volume, proxy, bundle, partial,
          daemon, pc, cmd, last, canary, confirmed, survived, failures, spent>>
plane == <<live, bad, healthy, volume, proxy, canary, survived, failures>>
rest  == <<bundle, partial, daemon>>

Commands == [op : {"none", "up", "stop", "destroy", "reset", "recover", "export"},
             prof : Profiles \cup {"none"}, allow : SUBSET Hosts, uplink : BOOLEAN,
             cut : BOOLEAN]
NoCommand == [op |-> "none", prof |-> "none", allow |-> {}, uplink |-> FALSE,
              cut |-> FALSE]
Markers == [st : {"UNBUILT", "PREPARED", "RUNNING", "STOPPED", "PARTIAL"},
            prof : Profiles \cup {"none"}, seed : BOOLEAN, allow : SUBSET Hosts]
Limit == [commands |-> MaxCommands, interrupts |-> MaxInterrupts,
          outages |-> MaxOutages, deaths |-> MaxDeaths]

TypeOK ==
    /\ marker \in Markers
    /\ marker.st = "UNBUILT" <=> marker.prof = "none"
    /\ ackFile \in BOOLEAN /\ healthy \in BOOLEAN /\ daemon \in BOOLEAN
    /\ live \subseteq Groups /\ bad \subseteq Of(live) /\ canary \subseteq live
    /\ volume \in {"none", "clean", "corpus"}
    /\ proxy \subseteq Hosts
    /\ bundle \in {"none", "clean", "secret"} /\ partial \in {"none", "clean", "secret"}
    /\ pc \in Stages /\ cmd \in Commands
    /\ pc = "idle" <=> cmd = NoCommand
    /\ confirmed \in BOOLEAN
    /\ survived \subseteq live /\ failures \in 0..MaxFailures

Init ==
    /\ marker = NoMarker /\ ackFile = FALSE
    /\ live = {} /\ bad = {} /\ healthy = TRUE /\ volume = "none" /\ proxy = {}
    /\ bundle = "none" /\ partial = "none" /\ daemon = TRUE
    /\ pc = "idle" /\ cmd = NoCommand /\ last = <<"none", 0>>
    /\ canary = {} /\ confirmed = FALSE /\ survived = {} /\ failures = 0
    /\ spent = [k \in DOMAIN Limit |-> 0]

-----------------------------------------------------------------------------
Spend(k) == spent[k] < Limit[k] /\ spent' = [spent EXCEPT ![k] = @ + 1]

(* A command that ends at once, or at the end of its steps. *)
End(op, code) == pc' = "idle" /\ cmd' = NoCommand /\ last' = <<op, code>>
Go(stage)     == pc' = stage /\ UNCHANGED <<cmd, last>>
Enter(c, stage) ==
    /\ pc' = stage
    /\ cmd' = [c EXCEPT !.cut = ~daemon]
    /\ last' = <<"none", 0>>
Plain(op) == [NoCommand EXCEPT !.op = op]

(* What is left of the containers when only those of some groups stay. *)
Leave(kept) ==
    /\ live' = kept /\ survived' = kept
    /\ bad' = bad \cap Of(kept) /\ canary' = canary \cap kept
    /\ proxy' = IF "research" \in kept THEN proxy ELSE {}
    /\ healthy' = ("app" \in kept => healthy)

(* compose down: it enables no compose profile, so it may leave the groups *)
(* that only a profile starts alone (external: whether Compose does), and  *)
(* its exit code is not looked at, so when it fails half-way, or with the  *)
(* daemon out of reach, what is left runs on and nobody is told.           *)
Down(volumes) ==
    \/ /\ daemon /\ failures' = failures
       /\ volume' = IF volumes THEN "none" ELSE volume
       /\ \E kept \in SUBSET (live \ {"app"}) : Leave(kept)
    \/ /\ daemon /\ failures < MaxFailures /\ failures' = failures + 1
       /\ volume' \in {volume} \cup IF volumes THEN {"none"} ELSE {}
       /\ \E kept \in SUBSET live : Leave(kept)
    \/ /\ ~daemon /\ survived' = live
       /\ UNCHANGED <<live, bad, healthy, volume, proxy, canary, failures>>
Teardown == Down(TRUE)

(* No docker binary, or a call that ends in a timeout, does raise. *)
Raises == failures' # failures \/ ~daemon

(* compose ps: an empty list when the daemon does not answer. *)
Ps == IF daemon THEN live ELSE {}

Research(c) == c.prof = "research-sandbox"
Runtime(c)  == c.prof # "app-only"

(* docker compose up -d: starts what its compose profiles enable, replaces *)
(* what changed, leaves every other running container alone.               *)
ComposeUp(groups) ==
    \E broken \in SUBSET Of(groups), well \in BOOLEAN :
        /\ live' = live \cup groups
        /\ bad' = (bad \ Of(groups)) \cup broken
        /\ canary' = canary \ groups /\ survived' = survived \ groups
        /\ failures' = failures
        /\ proxy' = IF "research" \in groups THEN cmd.allow ELSE proxy
        /\ healthy' = IF "app" \in groups THEN well ELSE healthy
        /\ volume' = IF "app" \notin groups \/ broken # {} THEN
                        IF volume = "none" THEN "clean" ELSE volume
                     ELSE "corpus"

-----------------------------------------------------------------------------
(* up: what is refused without touching anything (E210, a switch of        *)
(* profile), what is a no-op, and what needs an answer from the developer. *)
UpRefused(c) ==
    \/ Research(c) # (c.allow # {})
    \/ marker # NoMarker /\ marker.prof # c.prof
UpNoop(c) ==
    \/ marker.st = "RUNNING"
    \/ marker.st = "PREPARED" /\ ~Runtime(c)
(* Mutant: an acknowledgement on file is enough for every profile. *)
AsksOnce(c) == c.prof # "app-only" /\ marker = NoMarker /\ ~ackFile

Asks(c) ==
    \/ Research(c)
    \/ c.prof = "local-sandbox" /\ marker = NoMarker /\ ~ackFile

(* Gates that fail and an acknowledgement that is declined end like a      *)
(* refusal.  Otherwise the acknowledgement is persisted, whatever profile. *)
UpBegin(c) ==
    /\ UNCHANGED <<plane, rest, marker>>
    /\ \/ /\ UpRefused(c) \/ ~UpNoop(c)
          /\ End("up", 2)
          /\ UNCHANGED <<ackFile, confirmed>>
       \/ /\ ~UpRefused(c) /\ UpNoop(c)
          /\ End("up", 0)
          /\ UNCHANGED <<ackFile, confirmed>>
       \/ /\ ~UpRefused(c) /\ ~UpNoop(c)
          /\ confirmed' = Asks(c)
          /\ ackFile' = TRUE
          /\ Enter(c, "prepare")

Up == /\ pc = "idle" /\ Spend("commands")
      /\ \E p \in Profiles, a \in SUBSET Hosts, u \in BOOLEAN :
            UpBegin([op |-> "up", prof |-> p, allow |-> a, uplink |-> u,
                     cut |-> FALSE])

(* upgrade: refused while RUNNING, else up of the profile in the marker,   *)
(* always without an allowlist.                                            *)
Upgrade ==
    /\ pc = "idle" /\ Spend("commands")
    /\ LET p == IF marker = NoMarker THEN "local-sandbox" ELSE marker.prof
       IN  IF marker.st = "RUNNING"
             THEN /\ End("up", 2)
                  /\ UNCHANGED <<plane, rest, marker, ackFile, confirmed>>
             ELSE \E u \in BOOLEAN :
                    UpBegin([op |-> "up", prof |-> p, allow |-> {}, uplink |-> u,
                             cut |-> FALSE])

(* Mutant: the marker does not say whose sandbox it is. *)
WrittenBare(st) == [NoMarker EXCEPT !.st = st]

(* The marker up writes: intent first (PREPARED), what it found at the end. *)
Written(st) == [NoMarker EXCEPT !.st = st, !.prof = cmd.prof]

(* Mutant: the intent is not recorded before the daemon is touched. *)
UpPrepareUnrecorded ==
    /\ pc = "prepare"
    /\ IF Runtime(cmd) THEN Go("boot") /\ UNCHANGED marker
                       ELSE End("up", 0) /\ marker' = [NoMarker EXCEPT !.st = "PREPARED",
                                                                     !.prof = cmd.prof]
    /\ UNCHANGED <<plane, rest, ackFile, confirmed, spent>>

UpPrepare ==
    /\ pc = "prepare"
    /\ marker' = Written("PREPARED")
    /\ IF Runtime(cmd) THEN Go("boot") ELSE End("up", 0)
    /\ UNCHANGED <<plane, rest, ackFile, confirmed, spent>>

(* The groups up starts, and whose checks must pass. *)
Checked(c) == {"app"} \cup (IF Research(c) THEN {"research"} ELSE {})

(* Build and start, with any of the groups started when it fails. *)
UpBoot ==
    /\ pc = "boot"
    /\ \/ daemon /\ ComposeUp(Checked(cmd)) /\ Go("check")
       \/ /\ daemon /\ Go("rollback")
          /\ \E started \in SUBSET Checked(cmd) : ComposeUp(started)
       \/ UNCHANGED plane /\ Go("rollback")
    /\ UNCHANGED <<rest, marker, ackFile, confirmed, spent>>

(* The self-checks before RUNNING may be claimed. *)
EgressDenied   == <<"app", "egress">> \notin bad
ResearchClosed == "research" \in live /\ <<"research", "closure">> \notin bad
Hardened       == <<"app", "hardening">> \notin bad
AppHealthy     == "app" \in live /\ healthy
SeedArrived    == "app" \in live /\ volume = "corpus"
UplinkDenied   == "app" \in live /\ <<"uplink", "egress">> \notin bad

(* Mutant: the seed and the health are enough. *)
VerifiedHealth(c) == daemon /\ AppHealthy /\ SeedArrived /\ Checked(c) \subseteq live

Verified(c) ==
    /\ daemon
    /\ EgressDenied
    /\ Research(c) => ResearchClosed
    /\ Hardened /\ AppHealthy /\ SeedArrived

UpCheck ==
    /\ pc = "check"
    /\ IF Verified(cmd)
         THEN /\ canary' = canary \cup Checked(cmd)
              /\ Go(IF cmd.uplink THEN "uplink" ELSE "running")
         ELSE canary' = canary /\ Go("rollback")
    /\ UNCHANGED <<live, bad, healthy, volume, proxy, survived, failures, rest, marker,
                   ackFile, confirmed, spent>>

(* The opt-in uplink: a second compose up, then the health and the        *)
(* reachability of the proxy, and the egress canary inside the app again.  *)
UpUplink ==
    /\ pc = "uplink"
    /\ \/ daemon /\ ComposeUp({"uplink"}) /\ (Go("uplinked") \/ Go("rollback"))
       \/ UNCHANGED plane /\ Go("rollback")
    /\ UNCHANGED <<rest, marker, ackFile, confirmed, spent>>

UpUplinked ==
    /\ pc = "uplinked"
    /\ IF daemon /\ "uplink" \in live /\ UplinkDenied
         THEN canary' = canary \cup {"uplink"} /\ Go("running")
         ELSE canary' = canary /\ Go("rollback")
    /\ UNCHANGED <<live, bad, healthy, volume, proxy, survived, failures, rest, marker,
                   ackFile, confirmed, spent>>

(* A teardown that raises in the handler ends the command as it stands. *)
UpRollback ==
    /\ pc = "rollback"
    /\ Teardown
    /\ Go("partial") \/ (Raises /\ End("up", 2))
    /\ UNCHANGED <<rest, marker, ackFile, confirmed, spent>>

UpPartial ==
    /\ pc = "partial"
    /\ marker' = Written("PARTIAL")
    /\ End("up", 2)
    /\ UNCHANGED <<plane, rest, ackFile, confirmed, spent>>

UpRunning ==
    /\ pc = "running"
    /\ marker' = [Written("RUNNING") EXCEPT !.seed = TRUE, !.allow = cmd.allow]
    /\ End("up", 0)
    /\ UNCHANGED <<plane, rest, ackFile, confirmed, spent>>

-----------------------------------------------------------------------------
(* stop: containers away, volumes kept, STOPPED whatever the marker said,  *)
(* unless the call itself raises.                                          *)
Stop ==
    /\ pc = "idle" /\ Spend("commands")
    /\ UNCHANGED <<rest, marker, ackFile, confirmed>>
    /\ IF marker = NoMarker
         THEN End("stop", 0) /\ UNCHANGED plane
         ELSE /\ Down(FALSE)
              /\ Enter(Plain("stop"), "stopped") \/ (Raises /\ End("stop", 2))

Stopped ==
    /\ pc = "stopped"
    /\ marker' = [marker EXCEPT !.st = "STOPPED"]
    /\ End("stop", 0)
    /\ UNCHANGED <<plane, rest, ackFile, confirmed, spent>>

(* destroy --yes: an error of the daemon does not stop it. *)
Destroy ==
    /\ pc = "idle" /\ Spend("commands")
    /\ Teardown
    /\ Enter(Plain("destroy"), "remove")
    /\ UNCHANGED <<rest, marker, ackFile, confirmed>>

Remove ==
    /\ pc = "remove"
    /\ marker' = NoMarker /\ ackFile' = FALSE
    /\ End("destroy", 0)
    /\ UNCHANGED <<plane, rest, confirmed, spent>>

(* reset --yes: purges the corpus and its records, then the marker's seed. *)
Reset ==
    /\ pc = "idle" /\ Spend("commands")
    /\ UNCHANGED <<live, bad, healthy, proxy, canary, survived, failures, rest, marker,
                   ackFile, confirmed>>
    /\ IF marker.st = "RUNNING" /\ daemon /\ "app" \in live
         THEN volume' = "clean" /\ Enter(Plain("reset"), "reset")
         ELSE volume' = volume /\ End("reset", 2)

ResetDone ==
    /\ pc = "reset"
    /\ marker' = [marker EXCEPT !.seed = FALSE]
    /\ End("reset", 0)
    /\ UNCHANGED <<plane, rest, ackFile, confirmed, spent>>

(* Mutant: recover takes a RUNNING marker with live containers at its word. *)
RecoverTrusts ==
    /\ pc = "idle" /\ Spend("commands")
    /\ UNCHANGED <<plane, rest, ackFile, confirmed>>
    /\ CASE marker.st = "RUNNING" /\ Ps = {} ->
                marker' = [marker EXCEPT !.st = "STOPPED"] /\ End("recover", 0)
         [] marker # NoMarker /\ marker.st # "RUNNING" /\ Ps # {} ->
                UNCHANGED marker /\ Enter(Plain("recover"), "mend")
         [] OTHER -> UNCHANGED marker /\ End("recover", 0)

(* recover: compares the marker with what ps shows. *)
Recover ==
    /\ pc = "idle" /\ Spend("commands")
    /\ UNCHANGED <<plane, rest, ackFile, confirmed>>
    /\ CASE marker.st = "RUNNING" /\ Ps = {} ->
                marker' = [marker EXCEPT !.st = "STOPPED"] /\ End("recover", 0)
         [] marker # NoMarker /\ Ps # {} ->
                IF marker.st = "RUNNING" /\ AppHealthy
                  THEN UNCHANGED marker /\ End("recover", 0)
                  ELSE UNCHANGED marker /\ Enter(Plain("recover"), "mend")
         [] OTHER -> UNCHANGED marker /\ End("recover", 0)

RecoverTeardown ==
    /\ pc = "mend"
    /\ Teardown
    /\ Go("mended") \/ (Raises /\ End("recover", 2))
    /\ UNCHANGED <<rest, marker, ackFile, confirmed, spent>>

Recovered ==
    /\ pc = "mended"
    /\ marker' = [marker EXCEPT !.st = "PARTIAL"]
    /\ End("recover", 0)
    /\ UNCHANGED <<plane, rest, ackFile, confirmed, spent>>

-----------------------------------------------------------------------------
(* export: builds dest.partial, which may hold a secret by a mistake of    *)
(* the generator, scans it and renames it, or deletes it (E307).           *)
Export ==
    /\ pc = "idle" /\ Spend("commands")
    /\ UNCHANGED <<plane, bundle, daemon, marker, ackFile, confirmed>>
    /\ \E force \in BOOLEAN, content \in {"clean", "secret"} :
         IF marker.st = "RUNNING" /\ (bundle = "none" \/ force) /\ daemon
            /\ "app" \in live
           THEN partial' = content /\ Enter(Plain("export"), "deliver")
           ELSE partial' = partial /\ End("export", 2)

Deliver ==
    /\ pc = "deliver"
    /\ partial' = "none"
    /\ IF partial = "secret"
         THEN bundle' = bundle /\ End("export", 2)
         ELSE bundle' = partial /\ End("export", 0)
    /\ UNCHANGED <<plane, daemon, marker, ackFile, confirmed, spent>>

(* detonate: the marker's allowlist, then the proxy's own decision. *)
Fetches(h) == h \in marker.allow /\ "research" \in live /\ daemon /\ h \in proxy
Detonate ==
    /\ pc = "idle" /\ Spend("commands")
    /\ \E h \in Hosts :
          End("detonate", IF marker.st = "RUNNING" /\ Fetches(h) THEN 0 ELSE 2)
    /\ UNCHANGED <<plane, rest, marker, ackFile, confirmed>>

(* inspect: both egress canaries and the hardening once more. *)
Inspect ==
    /\ pc = "idle" /\ Spend("commands")
    /\ End("inspect", IF marker.st = "RUNNING" /\ daemon /\ "app" \in live
                           /\ EgressDenied /\ UplinkDenied /\ Hardened
                        THEN 0 ELSE 2)
    /\ UNCHANGED <<plane, rest, marker, ackFile, confirmed>>

-----------------------------------------------------------------------------
(* What happens to a command and to its containers from outside. *)
Interrupt ==
    /\ pc # "idle" /\ Spend("interrupts")
    /\ End("interrupt", 2)
    /\ UNCHANGED <<plane, rest, marker, ackFile, confirmed>>

Outage ==
    /\ daemon /\ Spend("outages")
    /\ daemon' = FALSE
    /\ cmd' = IF pc = "idle" THEN cmd ELSE [cmd EXCEPT !.cut = TRUE]
    /\ UNCHANGED <<plane, bundle, partial, marker, ackFile, pc, last, confirmed>>

Back ==
    /\ ~daemon /\ daemon' = TRUE
    /\ UNCHANGED <<plane, bundle, partial, marker, ackFile, pc, cmd, last,
                   confirmed, spent>>

Die ==
    /\ Spend("deaths")
    /\ \/ \E g \in live : /\ live' = live \ {g} /\ bad' = bad \ Of({g})
                          /\ canary' = canary \ {g} /\ survived' = survived \ {g}
                          /\ UNCHANGED healthy
       \/ /\ "app" \in live /\ healthy /\ healthy' = FALSE
          /\ UNCHANGED <<live, bad, canary, survived>>
    /\ UNCHANGED <<volume, proxy, failures, rest, marker, ackFile, pc, cmd, last, confirmed>>

UpSteps == UpPrepare \/ UpBoot \/ UpCheck \/ UpUplink \/ UpUplinked \/ UpRollback \/ UpPartial
           \/ UpRunning
Next ==
    \/ Up \/ Upgrade \/ UpSteps
    \/ Stop \/ Stopped \/ Destroy \/ Remove \/ Reset \/ ResetDone
    \/ Recover \/ RecoverTeardown \/ Recovered
    \/ Export \/ Deliver \/ Detonate \/ Inspect
    \/ Interrupt \/ Outage \/ Back \/ Die

Spec == Init /\ [][Next]_vars

-----------------------------------------------------------------------------
Ends(op) == /\ last' = <<op, 0>> /\ pc' = "idle"
            /\ pc # "idle" \/ spent'.commands # spent.commands

RunningIsVerified ==
    marker.st = "RUNNING" =>
        /\ live \cap Checked(marker) \subseteq canary
        /\ bad \cap Of(Checked(marker)) = {}

AllowlistIsCurrent ==
    marker.st = "RUNNING" /\ marker.prof = "research-sandbox" /\ "research" \in live
        => marker.allow = proxy

PartialIsEmpty ==
    marker.st = "PARTIAL" =>
        /\ live \subseteq survived
        /\ spent.outages = 0 /\ failures = 0 => "app" \notin live

(* The files the kit leaves behind tell the truth, whatever was            *)
(* interrupted, stopped or left running before.  Under RUNNING, those of   *)
(* the profile's groups that run have passed the checks of up since they   *)
(* were started, and the allowlist detonate checks is the one the proxy    *)
(* enforces.  Under PARTIAL ("rolled back") nothing runs that was started  *)
(* since a compose down: only what that down left, and never the app when  *)
(* no down failed and the daemon was always in reach.  And a bundle with a *)
(* secret is never delivered, even after an export that was killed.        *)
FilesTellTruth ==
    RunningIsVerified /\ AllowlistIsCurrent /\ PartialIsEmpty /\ bundle # "secret"

(* The research plane runs only under a marker of the research profile:    *)
(* up writes its intent before it starts anything, so a start that was     *)
(* interrupted cannot be continued as another profile.  What a compose     *)
(* down has left running is all that a later marker may not know of.       *)
ProfilesNeverMix ==
    "research" \in live => marker.prof = "research-sandbox" \/ "research" \in survived

(* The research plane is started only in a command in which the developer  *)
(* was asked and said yes: no earlier answer counts.                       *)
ResearchIsConfirmed ==
    [][~("research" \in live) /\ "research" \in live' => confirmed]_vars

(* With the daemon in reach, recover ends in a marker that matches what    *)
(* runs: RUNNING for a healthy app; under another marker only what a       *)
(* compose down has left, and the app only if one failed half-way.         *)
RecoverTells ==
    [][Ends("recover") /\ daemon /\ ~cmd.cut =>
         IF marker'.st = "RUNNING"
           THEN "app" \in live /\ healthy
           ELSE /\ live' \subseteq survived'
                /\ marker # NoMarker /\ failures = 0 => "app" \notin live']_vars
=============================================================================
