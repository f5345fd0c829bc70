# wraithwall in TLA+

wraithwall is a deception and threat-intelligence platform: a Flask application
with background threads, Redis, a SQL database and external services, fed by a
Cowrie SSH honeypot, plus a sandbox kit and five library packages. This
directory holds TLA+ modules of its stateful core, TLC configurations that check
them on small instances, and TLAPS proofs of the invariants that matter most.
Paths below are relative to the repository root; `wraithwall/x.py` stands for
`src/wraithwall/x.py`.

    tlc -config Ship_retry.cfg MCCowrieShip.tla      # one run
    tlapm CowrieShipProofs.tla                       # one proof module

## 1. Inventory

What carries state, how the parts interact, and what is hard about them.

| part | state | operations | hard behaviour |
| --- | --- | --- | --- |
| Cowrie pipeline (`wraithwall/cowrie_intelligence.py`) | position in the log (Redis), event queue, dedup map (memory), live and completed session records, recent list, total (Redis) | watcher thread, up to four event workers, close handler with LLM analysis and enrichment | workers share records through unlocked GET / SETEX; full queue; torn lines; crash between queueing and saving |
| Alert gates (same file) | velocity and dedup counters, rate per window (Redis), alert queue, suppressed count (memory) | triage, velocity gate, dedup gate, alert worker | INCR then EXPIRE; bounded queue; summary that only a later alert triggers |
| Log shipping (`wraithwall/cowrie_ship.py`, `sandbox_kit/seed/shipper.py`) | `cowrie:log`, dedup key per batch | POST of a batch, retries, reruns of the seed container | a post that timed out is still in hand when its retry arrives; dedup key before append |
| Canary billing (`wraithwall/canary_service.py`) | one subscription row per user; references at the payment provider | checkout, trial start, webhooks, browser return, trial verification, cancel, hourly billing job | no lock on the row; provider calls between load and commit; lost answers; duplicated webhooks |
| Canary tokens (same file) | tokens, hits, counters | create, trap, deactivate | read-modify-write of the counter, alert dedup before the alert |
| Gateway (`wraithwall/gateway.py`) | challenge keys, failure counter, block key | challenge, verify | single use by GET then DELETE; counter without life time |
| Credential lures (`wraithwall/credential_propagation.py`) and supply-chain canaries (`wraithwall/supply_chain_canary.py`) | `lure:*`, `lures:active`, `lures:triggered`, registry file | plant, evict, trigger, delete, rotate, beacon | eviction by two planters, a deleted lure written back, dead members of the active set |
| Campaign correlator (`wraithwall/campaign_correlator.py`), deception event bus (`wraithwall/deception_event_bus.py`) | fingerprints, campaigns, potential counters; events and chain per address | ingest session, ingest event, publish | read-modify-write across processes, alert dedup before the alert |
| Notifications (`wraithwall/thread_utils.py`) | pool, dead letters | submit, notify with retries, request threads | degraded paths: inline execution, no client, full deque |
| LLM firewall, cache, honeypot, budgets | cache, counters, circuit breaker | call with fallback | a failed call that looks like an empty answer; slots reserved and not used; lock held over the call |
| Dossiers (`wraithwall/dossier_*.py`) | campaigns, sessions, hash chain (SQLite) | upsert with retention, webhook destinations | lock of one process; retention cuts the chain's head |
| Incident response, live events, sandbox trials, link checker, public API | counters and slots | requests | counters read and written apart, slots not given back |
| Behavioural identity, recalibration, scoring modules | vectors, actors, merge log | match, create, merge | match-then-create |
| ASN, BGP, IOC, YARA, STIX, fingerprint corpus | caches of external data | scheduled jobs | dedup by EXISTS then SETEX |
| Sandbox kit (`sandbox_kit/*.py`) | marker `state.json`, acknowledgement, export bundle; containers, their health, the corpus volume, the proxy's allowlist (container daemon) | up, upgrade, stop, destroy, reset, recover, export, detonate, inspect | a command writes the marker and calls the daemon in turns, and may be killed between two of them; the daemon may be out of reach; containers die |
| WraithMesh (`packages/wraithmesh`) | sensor: offset, rollups, cooldown, epoch (disk), open sessions (memory); aggregator: campaigns (SQLite), scores (memory and SQLite) | tail the log, roll up, post; merge, credit, refuse | sent-mark before the post, offset after the file; request threads without a lock |
| RavenScan memory (`packages/ravenscan`, `raven/memory`) | marks of false positives, audit rows, scan records, observations of findings, the switch (one SQLite file per project) | mark, edit, delete, purge, scan, disable, enable | commands that overlap read before they write, with no transaction around both; a scan commits four times |
| RavenScan analysis, detonation sandbox, canary-kit, dml-spec, honeypot-mitre | files | command line, library | sequential |

How they interact. The honeypot appends to a log file that the watcher tails; in
the sandbox profile the seed container's shipper posts lines to `/api/cowrie/ship`,
which appends them to `cowrie:log`. A closed session goes from the pipeline to the
triage and the alert queue, to the campaign correlator in a thread, and to the lure
check on logins; lures, canaries and gateway publish to the deception event bus,
which feeds the correlator. Everything notifies through `thread_utils`. The canary
service is called by browsers, by the payment providers' webhooks and by the
scheduler. The sandbox kit starts the application in containers and is itself only
driven from a terminal; the mesh's sensors tail the same kind of log as the watcher and
talk to an aggregator of their own; the scanner stands alone. The components share Redis and nothing else that a property is about,
which is why each is a module with its own environment.

What makes each correct: lines are neither lost nor doubled beyond what a crash may
cost, and a session's record is its log (pipeline); an attack is reported once, at a
bounded rate, and no suppression is silent or for ever (alerts); a batch arrives
once and in order (shipping); what is paid is granted once, nothing is charged twice
or after cancellation, and every trial that is due leaves that state (billing); the
marker says what runs, and nothing unchecked runs under RUNNING (sandbox kit); an
observation is posted once in a cooldown and a campaign names only who saw it (mesh);
the history of a finding and the audit of a mark tell what happened (scanner memory);
a proof of work is
used once and a block follows the threshold (gateway); each trigger of a lure is
counted and the active set is bounded (lures); what is claimed of an address is so and no
pivot is missed (event bus); a
chain of evidence verifies (dossiers).

## 2. Modules

| module | models |
| --- | --- |
| `CowriePipeline` | watcher, event queue, workers, session store |
| `LineDelivery` | abstract promise about a line of the log; `CowriePipeline` implements it |
| `CowrieAlerts` | from the close of a session to a sent, summarized or dropped alert |
| `CowrieShip` | shipper and ingest endpoint |
| `CanaryBilling` | one user's subscription, the provider and the billing job |
| `SandboxKit` | the commands of the sandbox kit on one sandbox, step by step between calls of the container daemon |
| `WraithMesh` | the mesh's sensors, the post, and the aggregator's handler threads |
| `ScanMemory` | the scanner's memory under overlapping commands |
| `DeceptionBus` | a publish on the deception event bus: the list of an address, its pivot and its chain |
| `CredentialLures` | lures planted, evicted, triggered and deleted, over `DeceptionBus` |
| `MC...` | the small instances: model values and bounds |
| `...Proofs` of `CowriePipeline`, `CowrieAlerts`, `CowrieShip`, `CanaryBilling`, `SandboxKit`, `WraithMesh`, `ScanMemory`, `CredentialLures` | theorems; those of `CredentialLures` are about its bus too |

**CowriePipeline.** `log` and `half` are the honeypot's file; a line is its number,
so a record `cowrie_session:{sid}` is, per field, the sequence of line numbers stored
in it. `watcher`, `cursor` and `saved` are the watcher thread, the offset in the open
file and `cowrie_intel:log_pos`: `WatchOpen`, `WatchLine`, `WatchTorn`, `WatchSave`
are the iterations of `_watch_cowrie_log`. `queue` is `event_queue` (a full queue
drops). Each worker has a control point `pc`, the line in hand and the record it read.
`Connect`, `Dedup`, `AppendGet`, `AppendSet` and `RiskAlert` are the handlers of
connect, command, login and download, split where another thread can come between
two Redis calls. `CloseLoad` to `CloseDelete` are `_handle_close` in its order: load,
analysis (which ends the handler when the LLM call fails), store, index, count, enrich,
threshold, alert, delete. `CompletedExpires` ends the 30 days of a completed record, which
the recent list and the total outlive; `expired` keeps whose it was. `SavedExpires` ends the
saved position's, also while the process is down. `RedisFault` is a raising Redis call, with
the except clause that catches it (a `WatchOpen` whose GET raises starts at 0); `Crash` keeps
the file and Redis. Data left out: payloads, scores, what enrichment adds; a command only
keeps whether it is blank, risky or a repetition.

**LineDelivery.** Each line goes unwritten, written, queued, handling, done, or is
given up; in file order into the queue, at most `QueueMax` queued and as many in
hand as there are workers, and never back. `CowriePipeline!DeliverySpec` is
its specification under the mapping `status` (while no crash happens).

**CowrieAlerts.** `velocity` and `dedup` are counters `[n, ttl]`: INCR and EXPIRE are
two actions, because a fault or a crash between them is what leaves a key for good.
`Close` is the triage (`Session`, `Background`, `MassScanner`, `Benign` are CRYSTAL's
rules over score and shape of the session), `Velocity`, `Record`, `Dedup`,
`QueueThreat`, `QueueSession` are the steps of a worker; `Take` and `Send` are the
alert worker, with the per-window rate key, the suppressed count it keeps in memory and
the summary it sends when a later window begins. `HighRisk` is the alert a command of a high
stage raises while its session is open. `WorkerFault` is a Redis call that raises: Redis may
have carried it out all the same.

**CowrieShip.** `Post` is a request on the wire, in a slot; `MarkBatch` (SET NX of the
dedup key) and `PushBatch` (RPUSH) are the two Redis calls of `cowrie_ship`; `Receive`,
`Timeout` and `Deadline` are the shipper's loop, `Rerun` the seed container started
again, `KeyExpires` the life time of the key. A post that timed out stays in hand.

**CanaryBilling.** `row` is the user's subscription. A request loads the row into its
slot (`Subscribe`, `TrialStart`, `Return`, `Cancel`, `Webhook`), and a second action
commits (`SubscribeDone`, `TrialDone`, `ActivateDone`, `VerifyDone`, `CancelDone`,
`WebhookDone`); in between other requests and the job commit. `VerifyDone` starts the trial
whether or not the refund of the authorized amount goes through, as the code does. `Commit` is the unit of
work of SQLAlchemy: only changed columns are written. `JobStart` to `JobExpire` are
`run_trial_billing` with `_attempt_trial_charge` and its failure handler. An end date
is the time left; `Tick` moves every date, also those a request has loaded. `Pay` makes
a webhook due, which the provider sends until it is answered 200.

**SandboxKit.** `marker` is `state.json` (state, profile, seed, allowlist), `live` the
groups of services that run (the app with its store and seed, the research plane, the
uplink), `bad` the defects a check of `up` would find in them, `proxy` the allowlist the
running proxy enforces. A command in hand is a stage `pc` and what it was called with:
`UpPrepare` to `UpRunning` are `cmd_up` from the intent it records to the last marker,
with `UpBoot` (build and start, of which any part may have come up when it fails),
`UpCheck` (every self-check, abstracted to the defect it detects), the opt-in uplink,
and the rollback. `Stop`/`Stopped`, `Destroy`/`Remove`, `Reset`/`ResetDone`,
`Recover`/`RecoverTeardown`/`Recovered`, `Export`/`Deliver` are the others, cut where a
kill (`Interrupt`) or an outage can come between the daemon and the file. `Down` is
`compose.down`, which names no compose profile and whose exit code nobody looks at: it stops
the app, and of the research plane and the uplink, which only a profile starts, any part may
run on; a bounded number of times it fails half-way, and then anything may; without the daemon
everything does. What raises (a timeout, no docker) ends a command where it stands (`Raises`).
`Ps` gives an empty list when the daemon does not answer. History: `canary` (groups checked
since they were started), `confirmed` (the developer said yes in this command), `survived`
(groups that a `down` left running and no `up` has started again), `failures` (downs that
failed half-way).

**WraithMesh.** Per node: `log` (Cowrie's file, whose last line may be a `half`), `saved` and
`pos` (offset on disk and in the process), `torn` (lines the process read as a half), `open` (sessions in memory), `seen` (rollups), `cooling`, `epoch`, and
`hand`, the observations signed and not answered. `ReadTorn` reads what there is of a line
and moves the offset past it; the rest, read by a later pass, is no JSON either, so the
process is done with the line at once (an offset inside it stands for its end). `ReadClosed`, `Bump`, `Mark` are the
commits of `_finalize_session` one by one; `Eof` is the end of a pass, where the offset is
saved; `once` says whether the sensor runs with `--once` (all posts after the pass) or in
a loop (each post at once). `Post` reaches a handler thread of the aggregator, which
goes through `Get` (or `Refuse`), `Upsert`, `SaveReputation` and `Reply`, and lives on
when the sensor has given up. `SaveFails` is an error while the scores are saved, after the
campaign was. `SensorDies` and `AggregatorDies` are crashes; `Planted` is
an exchange partner sending a key of the feed's traps back.

**ScanMemory.** `marks` are the rows of `false_positives`, `trail` the audit rows per
fingerprint, `seen` the observations of findings with their counters, `scans` the scan
records. A process holds what its command has read (`proc`): `Load` reads, `Admit`,
`Restore`, `Correct`, `Delete`, `Purge` commit. `Update` is SQLAlchemy's unit of work: the
attributes that differ from the copy read, by row id, and a failed transaction when the
row is gone; `NextId` is SQLite's rowid, which a purge of the last row frees. `Save`,
`Stamp`, `LoadLatest`, `Reconcile`, `Snapshot`, `Summarise` are a scan; `Fails` is an error
of the database, which a scan survives without its memory, `Killed` the end of any command.
`late` records what was committed on an outdated read: the prints whose row was written,
with the print that holds a row id given again, and the scans.

**DeceptionBus.** A publish in hand (`bus`) goes through the calls of
`publish_deception_event`: `Push` (one pipeline: LPUSH, LTRIM, EXPIRE), `LookBack` and
`ClaimPivot` are `_check_pivot`, `ReadChain`, `WriteChain` and `ClaimChain` are
`_check_chain`, with a GET that raises taken for an empty chain. An event is its kind, which
fixes its source, bait and stage as the callers give them; a time is an age that ends at
more than a day, and the keys' life times count down in `BusTick`. History: `hit`, the age
of an address's last event of each stage, and `pivoted`.

**CredentialLures.** It extends the bus. `count` is `lure:<id>` reduced to its trigger count,
`active` and `triggered` the two sorted sets, `stamp` the score in the first. `Login` to
`Told` are `check_cowrie_login_for_lure` and `record_trigger`, which holds `lock` from
`Acquire` until its publish is through; `Plant` to `Drop` are `plant_lure` and
`_store_lure`, `Delete` to `Forget` the endpoint of the administrator, both without the
lock. `Expire` ends a record's life and leaves its place in `active`; `JobFails` and
`PublishFails` are Redis calls that raise. History: `made`, `gone`, `hits`.

## 3. Runs

All passing runs together fire every action of every next-state relation.

| run | shows | bounds, and why they are enough |
| --- | --- | --- |
| `Pipe_one_worker` | types; `CompletedIsTheLog` (a completed record is the delivered log, and no live record outlives it); refinement of `LineDelivery`; `EveryLineSettles`, `QueuedCloseCompletes` under fairness | one worker (a host of up to three cores), one session of 4 lines, queue of 2, two commands, torn lines: a full queue, a repeated command and a lost connect or close line all happen |
| `Pipe_two_workers` | `RecordsHoldOwnLines`, `TotalCountsCompleted`, `IndexedOnce`, `CrashIsBounded` | two workers, two sessions, 4 lines (no commands: logins and downloads take the same GET / SETEX, and without commands the LLM is not asked), one crash, one raising Redis call or expired position, one completed record that gets 30 days old: every pair of handlers overlaps, in one session and across two, and a close line comes round again after the crash, also once its record has expired (4.5 million states) |
| `Ship_retry` | `LogIsSound`: `AtMostOnce` and `NoGap` | three batches, two posts in hand, two runs, one crash, one fault |
| `Alerts` | `CampaignAlertedOnce`, `VelocityCap`, `CapIsKept` (`WindowCap` and `NothingVanishes`); `KeysExpire` | two workers, two sessions or high-risk commands of one address and campaign, caps of 1, two windows, one crash, one Redis call that raises, carried out or not: each cap is reached and exceeded (149 thousand states) |
| `Billing` | `ChargedOnce`, `OnePaymentOnePeriod`, `CancelHolds`; `PaidIsGranted`, `DueTrialSettles` under fairness | two requests in hand, two references, two user calls or repeated webhooks, one crash, one lost answer of the provider or failed refund, each period one unit of time; a second initial state, after a webhook whose lookup failed and a restart, has a trial begun and one call left, so that a cancellation or a new checkout meets the job within the two calls (204 thousand states) |
| `Sandbox` | `FilesTellTruth`, `ProfilesNeverMix`, `ResearchIsConfirmed`, `RecoverTells` | four commands, one killed half-way, one outage, one `compose down` that fails half-way, any `down` leaving groups of other compose profiles, one container that dies, two hosts to allow: a failed or killed start, what another command makes of it, and a recover (5 million states) |
| `Mesh` | `UplinksAreFresh`, `CorroborationIsReal`, `RollupCounts` | two nodes with two sessions of one key, four lines in all, two handler threads, one crash of either side or failing save of the scores, one cooldown that ends, one planted key or half line, the threshold at 1, every session of a key reported: both nodes report the key at once, one reads its log again, and one misses a line it read too early (2.4 million states) |
| `Memory` | `CountersAgree`, `HistoryIsTrue`, `ChangesAreReal`, `TrailTellsState` | four commands, two at a time, one killed or failing, one fingerprint with two reasons and a secret, one finding in two forms: an outdated commit with two commands before it, and a finding that goes and comes back (1.6 million states); a row id that a purge frees and another fingerprint gets takes two fingerprints and five commands, and is left to theorem `AuditTellsTheMark` |
| `Lures` | `ClaimsAreTrue` (chains and pivots), `LuresAreTrue` (counts and the maximum), `QuietOnceGone` | two threads, one address, three lures of which one may be active, four events, logins or requests, one crash, one raising call, a list of three events of which two are looked at, a day of two ticks: two plants overlap and evict, a trigger overlaps a deletion, all three stages are hit, and each key expires (2.2 million states) |

Each property of these runs has a mutant, a plausible wrong version of one action
defined beside it, that TLC refutes under the same configuration.

Runs that show where the code and its own words differ:

| run | what the code does | what it says |
| --- | --- | --- |
| `Pipe_llm_failure` | a failed LLM call ends the close handler: no completed record, no alert | "Always send basic Telegram alert for every working/completed session" (`cowrie_intelligence.py:1166`) |
| `Ship_lost_batch` | the dedup key precedes the append: after a crash between them the retry is taken for a duplicate | "so a retried batch is accepted exactly once" (`cowrie_ship.py:11`) |
| `Billing_trial` | the webhook of a trial's card authorization grants a paid period and ends the trial | "Verify trial card authorization, refund, and activate the trial period" (`canary_service.py:1114`) |

Every counter bound (the constants whose names begin with `Max`, but for `QueueMax`,
`AlertMax`, `RecentMax`, `VelocityMax`, `GlobalMax` and `MaxAttempts`, which are the
code's own limits) is a guard on actions of the environment or on the start of a command,
never on a step of the code. Deadlock is not checked where the environment may fall silent
for good (a log that ends, a shipper that is done, no command left to type); in the
billing runs it is, since time always passes. Workers, sessions, lures, nodes, handler threads, command
processes, reasons and forms of a finding are interchangeable, and taken as symmetric in
the runs that check safety only.

Fairness. The pipeline assumes weak fairness of its own threads (each is a loop that
blocks with a time-out of a second at most) and of the honeypot finishing a line it
began. The
alert run assumes it of the workers, the alert worker and the expiry of keys that have
a life time. Billing assumes that requests are answered, that the scheduler runs
the job (`docs/architecture/RUNTIME_VALIDATION.md:24`, every hour), that time passes,
and, as strong fairness because slots come and go, that the provider sends an
unanswered webhook again (the handlers' docstrings rely on it). No fairness is assumed of users, crashes, faults or payments. The shipper, the sandbox, the
mesh, the scanner's memory and the lures are checked for safety only: a command ends by
itself, and nothing there waits for another actor except a post, which has a timeout, and a
trigger, which waits for the lock of another one.

## 4. Proofs

For every value of the constants that the named assumptions allow:

| theorem | states | inductive invariant |
| --- | --- | --- |
| `PipelineDelivers` | `Spec /\ [](crashes = 0) => DeliverySpec`: as long as the process does not crash, the pipeline implements `LineDelivery` | `FInv`: the lines the watcher has passed are handled, taken up or given up, each one of the three; in the queue in file order, each in one place, none beyond the position in the file (`RInv`) |
| `OneWorkerKeepsTheLog` | `CompletedIsTheLog`, with one worker, an LLM that answers, and neither crash nor failing Redis call (`Calm`) | `KInv`: also, lines are handled in the order of the log; a live record, and the copy in hand, holds what was appended of its session so far, and there is none before the connect or after the close |
| `CrashesLoseLittle` | `CrashIsBounded`: what crashes lose, and what comes round again | `LInv`: the saved position is never past the watcher's, and the lines before the watcher's position that are neither settled nor taken up are at most a queue and a hand per worker for each crash; `AInv`: while no call failed, at most one handled line lies past the saved position, the very next one |
| `TypeCorrect` | `TypeOK` of the pipeline | `TInv`: the types, and a busy worker holds a line of the log whose kind fits its control point; without it `FieldOf` and `Sid` of a worker would mean nothing |
| `RecentIsRight` | `IndexedOnce` | `XInv`: also the workers between storing a new record and pushing it on the list count: together at most as many as the records a session has or had |
| `TotalIsRight` | `TotalCountsCompleted` | `NInv`: a worker past the store has made its session's record, so that the workers about to count are among the records, expired ones included, that are not counted yet |
| `RecordsAreOwn` | `RecordsHoldOwnLines` | `OInv`: also the record a worker read holds lines of the worker's own session |
| `ShipTypeCorrect`, `ShippedOnceInOrder` | types; `LogIsSound` | `OnceInv`: a key that exists covers every append, and at most one request is between marking a batch and pushing it; `InOrder`: in a first run without crash or fault every batch before the next one is in the log or being pushed, and so is one whose key is set |
| `AlertTypeCorrect` | types of the alert gates, queue bound included | itself |
| `WindowIsCapped`, `AddressIsCapped`, `AlertedOnce` | `CapIsKept`; the cap per address, one alert per campaign in the life of the key | the key's counter bounds the history of what it let through, also for the worker between INCR and its decision |
| `BillingTypeCorrect` | types of the billing model | itself, with two lemmas on what a commit writes |
| `CancelledIsNotCharged` | `CancelHolds` | `CancelInv`: a cancellation in time is still in the row, and a run that decided to charge has none behind it; a stale copy cannot take it back, because a commit only writes what it changed |
| `TrialIsChargedOnce` | `ChargedOnce` | `ChargeInv`: a charged trial is in the hands of the run that charged it, on a copy loaded as a trial, or it has ended |
| `OnePeriodPerPayment` | `OnePaymentOnePeriod` | `RefInv`: a reference not handed out is in the hands of the one request that opened it; `OneInv`: the row and every stale copy of it have no period, or the one of the reference |
| `SandboxTypeCorrect`, `MarkerTellsTruth`, `ProfilesAreApart` | types of the sandbox; `FilesTellTruth`; `ProfilesNeverMix` | `SInv`: the three, and `Agreement`, which says per stage of a command how marker, command, checks and allowlist stand to each other, so that a kill at any stage leaves a marker that is true |
| `ResearchNeedsAYes`, `RecoverTellsWhatRuns` | `ResearchIsConfirmed`; `RecoverTells` | `EInv`: `SInv`; `Consent`, an `up` about to start the research plane was confirmed, whatever it read from disk; `Reached`, a command that met no outage had the daemon all through, recover's teardown then left no app unless a `down` failed half-way, and without a marker nothing runs but what a `down` left |
| `MeshTypeCorrect` | types of sensors, threads and scores | itself |
| `CorroborationNeverInvented` | `CorroborationIsReal` | `Real`: also an observation in hand, and the set of nodes a thread has read and will write, name only nodes that closed a session of that key; logs only grow |
| `UplinksNeverStale` | `UplinksAreFresh` | `Fresh`: the observations in hand have different keys, all cooling and not posted in this cooldown (but for the one just made and the one that waits for its answer), and epochs that rise along the list, above the last one posted and up to the stored one |
| `RollupsCountSessions` | `RollupCounts` | `Rolled`: the log closes a session once; a rollup counts at most the sessions closed before the position, and all of the log once more per stop; of a process never stopped, exactly the sessions whose two lines it read whole, and those opened and not yet closed among them are the ones in memory |
| `MemoryTypeCorrect` | types of the memory, unique row ids, fingerprints and times included | itself, with `GateFirst`: no mark carries a secret past its gate |
| `CountersNeverDrift`, `ChangesNeverInvented` | `CountersAgree`; `ChangesAreReal` | `MInv`: also `OwnRecord` (a scan record belongs to one process, which is what makes it reconciled) and `CommittedRows` (observations read are rows that were committed, of reconciled scans) |
| `AuditTellsTheMark` | `TrailTellsState` | `TrailInv`: the property and that each set of audit rows has a latest one; `MInv` gives that a row that still has the id a command read is, if nobody was late, the row it read |
| `HistoryTellsTheScans` | `HistoryIsTrue` | `HistInv`: a scan has its time before it reconciles, and one row per finding; while no scan was late, the reconciled scans have a last one, each finding they found has one first row, and its last row tells its sightings and returns |
| `LureTypeCorrect` | types of the bus and the lures, the bound of an address's list included | itself, with `LuresInOrder`: what is active was stamped, what was stamped was made |
| `ClaimsAreSound` | `ClaimsAreTrue` | `BusInv`: a stage in a chain's record, or in the copy a publish holds, was hit no longer ago than the record says; and an address whose list shows a pivot is claimed or in the hands of a publish that still looks |
| `TriggersNeverLost` | `TriggersCounted`, the first half of `LuresAreTrue` | `JobsInv`: who reads or writes a record to count on it holds the lock, and the count it read is still the number of triggers; a record being planted has none |
| `LuresAreAccountedFor` | `LuresAreTrue`, its second half `ActiveBounded` | `EvictsEnough`: for every set of plants that are evicting, the active lures fit the room they leave, or one of them will make them fit by what it still has to evict; one bound for all of them together is not inductive |
| `GoneIsQuiet` | `QuietOnceGone` | `JobsInv`: a login that began after its lure was gone never gets past its look at `lures:active`, since a lure is planted once |

They use the assumptions on the constants only: bounds are naturals, queues hold at
least one element, sets that a CHOOSE needs are not empty, the value for "no row" is no
row. The number of workers, sessions, batches, addresses, nodes, threads, commands,
crashes and faults is arbitrary; workers, of the pipeline and of the lures, are finitely
many, since what they hold is counted. Two theorems have a hypothesis besides.
`PipelineDelivers` leaves out crashes, after which a line may come round again (what then
holds is `CrashesLoseLittle`). `OneWorkerKeepsTheLog` has one worker, since with two the
property is false (`cowrie_intelligence.py:1564`), and nothing that fails, since a raising
call drops the line it was for.

Proofs follow one pattern: one lemma per group of actions, an action at a time, a conjunct
at a time; a last step by temporal logic. What counts (`TotalIsRight`, `CrashesLoseLittle`,
`LuresAreAccountedFor`) compares the finite sets before and after a step, with the
library's theorems on their cardinality. What selects from a history (`RollupsCountSessions`,
`AuditTellsTheMark`, `HistoryTellsTheScans`) is stated over positions and sets of rows, of
which a step adds one, so that no induction over the history is needed.

Only model-checked: liveness (`EveryLineSettles`, `QueuedCloseCompletes`, `KeysExpire`,
`PaidIsGranted`, `DueTrialSettles`), since the prover has neither ENABLED nor fairness; what
the three runs with a counterexample show; and that nothing gets stuck. Every safety
property of a passing run is a theorem.

## 5. Observations

Facts met while modelling that no run is about.

- Pipeline. Two workers that append to one session may lose a login attempt
  (`cowrie_intelligence.py:1564`; `tests/test_sandbox_seed.py:392` expects completed
  sessions to carry theirs). The watcher never reopens the log, so rotation and `os.replace`
  leave it on the old file. The recent list and the total outlive the completed records (30
  days, 1142): a close line read again after that makes a second record of the session, and
  the list and the total have it twice. `_check_geo_velocity` subtracts a longitude from a time (1360).
- Alerts. CRYSTAL's two suppress rules cannot be reached from `_check_threshold_alerts`,
  whose callers only pass scores above them, so `cowrie:suppressed` stays empty. An INCR
  without its EXPIRE, after a crash or error, mutes a campaign for good
  (`docs/architecture/notification_graph.json:206` gives the key 900 s); `KeysExpire` is
  stated for runs without either.
- Billing. Each hourly run charges first and sets the grace period anew
  (`canary_service.py:1449`), so with a card that is always declined it never ends, although
  1299 tells the user it does. A payment webhook whose lookup fails is answered 200 and
  not sent again. A reference whose webhook is sent again after another was granted grants
  a second period. A lost answer to a charge leads to a second charge. A refund of the card
  authorization that fails is not looked at (1142).
- Sandbox. `stop` writes STOPPED with the daemon out of reach, while the containers run
  on (`cli.py:720`; `state.py:10` wants no state that is not backed by reality). A leftover
  uplink of a killed `up` is not looked at by the next `up` without one (`cli.py:371`).
  `compose down` names no profile, although `up` needs one for the research plane and the
  uplink, and its exit code is ignored (`compose.py:216`): PARTIAL ("left no running
  containers"), and a destroy that removes the marker, may leave them running. The model
  states what holds all the same: only what a `down` left, and never the app unless one failed.
- Mesh. A line read while Cowrie is writing it is lost, and with it the session: the offset is
  past the half, and neither half is JSON (`sensor/cowrie.py:131`).
- Scanner memory. `load_false_positives` (`scanner.py:70`) has no caller, so marking a
  false positive suppresses nothing. A run summary counts as resolved what any earlier scan
  resolved. An `enable` that the environment refuses has cleared the stored switch by then
  (`store.py:276`). After two edits that overlap, the audit reports tampering where there
  was none. A scan that died after its save compares as a scan without findings.
  SQLite gives the id of a purged last row to the next mark, and an edit, deletion or purge
  goes by id: one that read its row before the purge writes or deletes the mark of another
  fingerprint (`store.py`, `false_positives`), and the audit of that one no longer verifies.
- Deception bus. `deception_event_bus.py` calls `send_telegram_alert_bg` and
  `write_immutable_log` without a definition or an import of either; the NameError is caught
  (163, 233, 268), so that a claim takes its dedup key and no alert goes out. A stage of a
  chain keeps its first time for as long as events refresh the chain's key (198-200), so that
  an address active for more than a day misses the full-chain claim whatever it does within
  one, although 187 says "within 24h"; the order of the stages, which 187 gives too, is not
  looked at. A GET that raises lets the event overwrite the chain (195). Nothing in the
  package publishes a reverse canary, and the correlator turns every event of the bus away.
- Credential lures. A lure that was deleted or evicted while it was triggered comes back as a
  record in no list. Plants that overlap each evict what the other one has counted. Expired
  lures keep their place in `lures:active`, so that rotation stops planting (648); evicted
  ones stay in `lures:triggered`. `start` of the rotation has no caller in the package.
- Dossiers. `dossier_auth.load_owned_campaign` and `dossier_pipeline` call `_get_campaign`
  with two arguments.

## 6. Plan

In order; each with its abstract promise, its run and the theorem worth proving.

1. Proofs: every safety property has its theorem. Next to prove are abstract promises of
   the other components: an append-once log implemented by `CowrieShip`, a window of capped
   counters by `CowrieAlerts`, an audited register by `ScanMemory`.
2. `CampaignCorrelator` over sessions: potential counters, create and update across
   processes; abstract: a set of sessions per campaign.
3. `GatewayChallenge`: tokens, single-use challenge, failure counter, block.
4. `Notify`: retries, dead letters, pool and request threads; composed with `CowrieAlerts`,
   so that an alert is sent, summarized or dead-lettered.
5. `CircuitBreaker` with the LLM budget; `DossierStore` (the chain verifies from its first
   kept row); `IncidentLimiter`, `LiveEvents` and `SandboxTrial` as one family of counters.
6. Supply-chain canaries over `CredentialLures`; log rotation in `CowriePipeline`; the canary
   and gateway sensors of the mesh.

Runs are few on purpose; a new component takes the place of a weaker run, whose hazard
stays listed.

## 7. Not modelled

Pure functions (scores, similarity, YARA and STIX rendering, corpus generation, the
scanner's patterns), HTML and API views, requests to third-party intelligence services, the
generated compose files and their static gates: they keep no state that two actors share, or
their results are data to the components above. SQLAlchemy, SQLite, Redis, the container
daemon, the payment providers and the honeypot are external and modelled by how the code uses
them: single Redis commands and single SQL transactions are atomic, a SET NX and an INCR
return what they did, a key may expire between two commands, a call that raises may have been
carried out, a compose call takes effect as a whole, in part or not at all. Whether a `compose
down` that names no profile stops the services of one is Compose's affair: both are allowed.
`ps` is taken to list every container of the project.

What the models assume of the deployment. The clock of the scans rises strictly; the code takes
the wall clock (`store.py:535`), which may tie or go back between processes. The lock of
`record_trigger` excludes every other trigger, as it does in one process; `Dockerfile:13` starts
two. Lures enter `lures:active` through `plant_lure` only; `supply_chain_canary.py:155` also
adds to it, without eviction. An exception that leaves the watcher's loop
(`cowrie_intelligence.py:1739`) makes it open the log again, at the saved position; that restart
without a crash is left out. A session of the mesh has one command line: with several, losing
one changes its key. An error after a scan has reconciled (`main.py:259`) ends it as `Killed`
does. The class of the subscription row is not in the repository: its defaults are external.

In the mesh an observation is genuine or refused; signatures,
manifests and confidence arithmetic are left out. In the scanner's memory, operator
preferences and detector outcomes entered by hand are left out: each is one read and one
commit on a row of its own. The hourly limits on checkout creation only refuse requests.
