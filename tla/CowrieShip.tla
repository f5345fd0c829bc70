----------------------------- MODULE CowrieShip -----------------------------
(***************************************************************************)
(* The signed ingest protocol: the seed shipper posts its corpus batch by  *)
(* batch (src/sandbox_kit/seed/shipper.py) and the endpoint appends each   *)
(* batch once to the Redis list cowrie:log                                 *)
(* (src/src/wraithwall/cowrie_ship.py).                                    *)
(*                                                                         *)
(* The shipper gives up on an answer after ten seconds and posts the batch *)
(* again until its deadline; the server knows nothing of that, so several  *)
(* posts of one batch may be handled at the same time, each in a thread.   *)
(* The endpoint marks the batch (SET NX) and then appends it (RPUSH).  The *)
(* server may crash and a Redis call may raise, done or not.               *)
(*                                                                         *)
(* A batch is its number.  Every post of the shipper is signed and well    *)
(* formed, so the 400, 401 and 413 answers are left out.                   *)
(***************************************************************************)
EXTENDS Naturals, Sequences, FiniteSets

CONSTANTS
    NBatches,      \* batches of the corpus
    Slots,         \* bound: the posts the server has in hand at once
    NoSlot,        \* no post
    MaxRuns,       \* bound: runs of the one-shot seed container
    MaxCrashes,    \* bound: crashes of the server
    MaxFaults      \* bound: Redis calls that raise

ASSUME ShipBounds ==
    /\ NBatches \in Nat \ {0} /\ NoSlot \notin Slots
    /\ MaxRuns \in Nat /\ MaxCrashes \in Nat /\ MaxFaults \in Nat

Batches == 1..NBatches

VARIABLES
    shipper,   \* "post" | "wait" | "done" | "failed"
    next,      \* the batch to ship
    late,      \* the deadline of ship_to_app has passed
    posts,     \* [Slots -> the batch of a post and where the server is with it]
    last,      \* the post whose answer the shipper waits for
    answer,    \* its answer, "none" until it comes
    keys,      \* cowrie:ship:batch:* in Redis
    logd,      \* the batches in cowrie:log
    runs, crashes, faults,     \* bounded environment
    expired                    \* history: batches whose key has expired

client == <<shipper, next, late, last>>
redis  == <<keys, logd>>
env    == <<runs, crashes, faults>>
vars   == <<client, posts, answer, redis, env, expired>>

Stages  == {"sent", "push", "over"}
Answers == {"none", "accepted", "deduplicated", "unavailable"}

Init ==
    /\ shipper = "post" /\ next = 1 /\ late = FALSE
    /\ posts = [p \in Slots |-> [batch |-> 1, at |-> "over"]]
    /\ last = NoSlot /\ answer = "none"
    /\ keys = {} /\ logd = <<>>
    /\ runs = 1 /\ crashes = 0 /\ faults = 0 /\ expired = {}

----------------------------------------------------------------------------
(* The shipper, ship_to_app. *)

Post ==
    /\ shipper = "post"
    /\ \E p \in Slots :
          /\ posts[p].at = "over"
          /\ posts' = [posts EXCEPT ![p] = [batch |-> next, at |-> "sent"]]
          /\ last' = p
    /\ answer' = "none"
    /\ shipper' = "wait"
    /\ UNCHANGED <<next, late, redis, env, expired>>

\* Mutant of Receive: one batch too many.
ReceiveOffByOne ==
    /\ shipper = "wait" /\ answer # "none"
    /\ IF answer = "unavailable" THEN shipper' = "failed" /\ UNCHANGED next
       ELSE IF next <= NBatches THEN shipper' = "post" /\ next' = next + 1
       ELSE shipper' = "done" /\ UNCHANGED next
    /\ UNCHANGED <<late, posts, last, answer, redis, env, expired>>

\* Any 200 counts as shipped; another status aborts with E304.
Receive ==
    /\ shipper = "wait" /\ answer # "none"
    /\ \/ /\ answer = "unavailable"
          /\ shipper' = "failed" /\ UNCHANGED next
       \/ /\ answer # "unavailable" /\ next < NBatches
          /\ shipper' = "post" /\ next' = next + 1
       \/ /\ answer # "unavailable" /\ next = NBatches
          /\ shipper' = "done" /\ UNCHANGED next
    /\ UNCHANGED <<late, posts, last, answer, redis, env, expired>>

\* Mutant of Timeout: a batch that is not answered is skipped.
TimeoutSkips ==
    /\ shipper = "wait" /\ answer = "none"
    /\ IF next < NBatches THEN shipper' = "post" /\ next' = next + 1
       ELSE shipper' = "done" /\ UNCHANGED next
    /\ UNCHANGED <<late, posts, last, answer, redis, env, expired>>

\* No answer (status 0): the same batch again, until the deadline.
Timeout ==
    /\ shipper = "wait" /\ answer = "none"
    /\ shipper' = IF late THEN "failed" ELSE "post"
    /\ UNCHANGED <<next, late, posts, last, answer, redis, env, expired>>

\* SHIP_TIMEOUT_S seconds have gone by since ship_to_app began.
Deadline ==
    /\ ~late /\ late' = TRUE
    /\ UNCHANGED <<shipper, next, posts, last, answer, redis, env, expired>>

\* The seed container runs again.
Rerun ==
    /\ shipper \in {"done", "failed"} /\ runs < MaxRuns
    /\ runs' = runs + 1
    /\ shipper' = "post" /\ next' = 1 /\ late' = FALSE /\ answer' = "none"
    /\ last' = NoSlot
    /\ UNCHANGED <<posts, redis, crashes, faults, expired>>

----------------------------------------------------------------------------
(* The endpoint, cowrie_ship. *)

\* The server is through with post p: only the last post is still waited for.
Reply(p, result) ==
    /\ posts' = [posts EXCEPT ![p].at = "over"]
    /\ answer' = IF p = last /\ shipper = "wait" THEN result ELSE answer

\* Mutant of MarkBatch: the key is looked up first and set with the push.
MarkLooksOnly(p) ==
    LET b == posts[p].batch IN
    /\ posts[p].at = "sent"
    /\ IF b \notin {logd[i] : i \in 1..Len(logd)}
       THEN posts' = [posts EXCEPT ![p].at = "push"] /\ UNCHANGED answer
       ELSE Reply(p, "deduplicated")
    /\ keys' = keys \cup {b}
    /\ UNCHANGED <<client, logd, env, expired>>

\* SET NX of the batch's key: only the post that sets it goes on.
MarkBatch(p) ==
    LET b == posts[p].batch IN
    /\ posts[p].at = "sent"
    /\ IF b \notin keys
       THEN posts' = [posts EXCEPT ![p].at = "push"] /\ UNCHANGED answer
       ELSE Reply(p, "deduplicated")
    /\ keys' = keys \cup {b}
    /\ UNCHANGED <<client, logd, env, expired>>

\* RPUSH of the lines, then the answer 200.
PushBatch(p) ==
    /\ posts[p].at = "push"
    /\ logd' = Append(logd, posts[p].batch)
    /\ Reply(p, "accepted")
    /\ UNCHANGED <<client, keys, env, expired>>

\* The Redis call raises, carried out or not: the answer is 503.
RedisRaises(p) ==
    LET b == posts[p].batch IN
    /\ faults < MaxFaults /\ faults' = faults + 1
    /\ \/ /\ posts[p].at = "sent"
          /\ keys' \in {keys, keys \cup {b}} /\ UNCHANGED logd
       \/ /\ posts[p].at = "push"
          /\ logd' \in {logd, Append(logd, b)} /\ UNCHANGED keys
    /\ Reply(p, "unavailable")
    /\ UNCHANGED <<client, runs, crashes, expired>>

\* The server dies: what its threads had in hand is never answered.
Crash ==
    /\ crashes < MaxCrashes /\ crashes' = crashes + 1
    /\ posts' = [p \in Slots |-> [posts[p] EXCEPT !.at = "over"]]
    /\ UNCHANGED <<client, answer, redis, runs, faults, expired>>

Working(p) == posts[p].at # "over"

\* A key outlives the run that set it: BATCH_DEDUP_TTL is 300 seconds, the
\* deadline 60 and an answer 10.
KeyExpires ==
    /\ shipper \in {"done", "failed"} /\ \A p \in Slots : ~Working(p)
    /\ \E b \in keys : keys' = keys \ {b} /\ expired' = expired \cup {b}
    /\ UNCHANGED <<client, posts, answer, logd, env>>

Handle(p) == MarkBatch(p) \/ PushBatch(p)

Ship == Post \/ Receive \/ Timeout

Next ==
    \/ Ship \/ Deadline \/ Rerun
    \/ \E p \in Slots : Handle(p) \/ RedisRaises(p)
    \/ Crash \/ KeyExpires

Spec == Init /\ [][Next]_vars

----------------------------------------------------------------------------
(* What must hold. *)

TypeOK ==
    /\ shipper \in {"post", "wait", "done", "failed"}
    /\ next \in Batches /\ late \in BOOLEAN
    /\ posts \in [Slots -> [batch : Batches, at : Stages]]
    /\ last \in Slots \cup {NoSlot} /\ answer \in Answers
    /\ keys \subseteq Batches /\ logd \in Seq(Batches)
    /\ runs \in Nat \ {0} /\ crashes \in Nat /\ faults \in Nat
    /\ expired \subseteq Batches

InLog(b)   == \E i \in 1..Len(logd) : logd[i] = b
Pushing(b) == \E p \in Slots : posts[p].batch = b /\ posts[p].at = "push"
Quiet      == \A p \in Slots : ~Working(p)

\* A batch is in cowrie:log at most once while its key lives, whatever
\* retries overlap, calls fail and servers crash.
AtMostOnce ==
    \A i, j \in 1..Len(logd) :
        logd[i] = logd[j] => i = j \/ logd[i] \in expired

\* Batches are shipped in order and a rejected one aborts the run: without a
\* crash or fault, no batch of a first run is in the log before every earlier
\* one is there or is being appended.
FirstRun == crashes = 0 /\ faults = 0 /\ runs = 1
There(b) == InLog(b) \/ Pushing(b)
NoGap    == FirstRun => \A b \in Batches : InLog(b) => \A a \in 1..(b - 1) : There(a)

\* No batch twice and none left out.
LogIsSound == AtMostOnce /\ NoGap

\* cowrie_ship.py:11-12: "Batches are deduplicated by content hash ..., so a
\* retried batch is accepted exactly once".
RetriedBatchIsLogged == shipper = "done" /\ Quiet => \A b \in Batches : InLog(b)

=============================================================================
