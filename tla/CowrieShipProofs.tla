-------------------------- MODULE CowrieShipProofs --------------------------
(***************************************************************************)
(* Proofs about CowrieShip, for any number of batches and slots and any    *)
(* bounds: the type invariant, and that a batch is in cowrie:log at most   *)
(* once while its key lives.                                               *)
(***************************************************************************)
EXTENDS CowrieShip, TLAPS, SequenceTheorems

LEMMA StepTypeOK == TypeOK /\ [Next]_vars => TypeOK'
  <1> SUFFICES ASSUME TypeOK, [Next]_vars PROVE TypeOK'
    OBVIOUS
  <1> USE DEF TypeOK, Stages, Answers, client, redis, env
  <1>0. 1 \in Batches /\ \A n \in Batches : n < NBatches => n + 1 \in Batches
    BY ShipBounds DEF Batches
  <1>1. CASE Ship \/ Deadline \/ Rerun
    <2>1. CASE Post
      <3>1. PICK p \in Slots : posts' = [posts EXCEPT ![p] = [batch |-> next, at |-> "sent"]]
                               /\ last' = p
        BY <2>1 DEF Post
      <3> QED BY <2>1, <3>1 DEF Post
    <2>2. CASE Receive
      BY <1>0, <2>2 DEF Receive
    <2>3. CASE Timeout
      BY <2>3 DEF Timeout
    <2>4. CASE Deadline
      BY <2>4 DEF Deadline
    <2>5. CASE Rerun
      <3>1. runs + 1 \in Nat \ {0}
        OBVIOUS
      <3>2. UNCHANGED <<posts, keys, logd, crashes, faults, expired>>
        BY <2>5 DEF Rerun
      <3> QED BY <1>0, <2>5, <3>1, <3>2 DEF Rerun
    <2> QED BY <1>1, <2>1, <2>2, <2>3, <2>4, <2>5 DEF Ship
  <1>2. ASSUME NEW p \in Slots, NEW r \in Answers, Reply(p, r)
        PROVE  posts' \in [Slots -> [batch : Batches, at : Stages]] /\ answer' \in Answers
    BY <1>2 DEF Reply
  <1>3. ASSUME NEW p \in Slots, MarkBatch(p) PROVE TypeOK'
    <2>1. posts' \in [Slots -> [batch : Batches, at : Stages]] /\ answer' \in Answers
      <3>1. CASE Reply(p, "deduplicated")
        BY <1>2, <3>1
      <3>2. CASE posts' = [posts EXCEPT ![p].at = "push"] /\ UNCHANGED answer
        BY <3>2
      <3> QED BY <1>3, <3>1, <3>2 DEF MarkBatch
    <2> QED BY <1>3, <2>1 DEF MarkBatch
  <1>4. ASSUME NEW p \in Slots, PushBatch(p) PROVE TypeOK'
    <2>1. posts' \in [Slots -> [batch : Batches, at : Stages]] /\ answer' \in Answers
      BY <1>2, <1>4 DEF PushBatch
    <2>2. logd' \in Seq(Batches)
      BY <1>4, AppendProperties DEF PushBatch
    <2> QED BY <1>4, <2>1, <2>2 DEF PushBatch
  <1>5. ASSUME NEW p \in Slots, RedisRaises(p) PROVE TypeOK'
    <2>1. posts' \in [Slots -> [batch : Batches, at : Stages]] /\ answer' \in Answers
      BY <1>2, <1>5 DEF RedisRaises
    <2>2. posts[p].batch \in Batches
      OBVIOUS
    <2>3. Append(logd, posts[p].batch) \in Seq(Batches)
      BY <2>2, AppendProperties
    <2>4. logd' \in Seq(Batches) /\ keys' \subseteq Batches
      BY <1>5, <2>2, <2>3 DEF RedisRaises
    <2> QED BY <1>5, <2>1, <2>4 DEF RedisRaises
  <1>6. CASE Crash
    <2>1. posts' \in [Slots -> [batch : Batches, at : Stages]]
      BY <1>6 DEF Crash
    <2> QED BY <1>6, <2>1 DEF Crash
  <1>7. CASE KeyExpires
    BY <1>7 DEF KeyExpires
  <1>8. CASE UNCHANGED vars
    BY <1>8 DEF vars
  <1> QED BY <1>1, <1>3, <1>4, <1>5, <1>6, <1>7, <1>8 DEF Next, Handle

LEMMA InitTypeOK == Init => TypeOK
  <1> SUFFICES ASSUME Init PROVE TypeOK
    OBVIOUS
  <1>1. 1 \in Batches
    BY ShipBounds DEF Batches
  <1>2. <<>> \in Seq(Batches)
    OBVIOUS
  <1>3. 1 \in Nat \ {0}
    OBVIOUS
  <1> QED BY <1>1, <1>2, <1>3 DEF Init, TypeOK, Stages, Answers

\* Every variable keeps its type, for all values of the constants.
THEOREM ShipTypeCorrect == Spec => []TypeOK
  BY InitTypeOK, StepTypeOK, PTL DEF Spec

(***************************************************************************)
(* AtMostOnce is not inductive: it needs that the key of a batch guards    *)
(* it.  While the key has not expired, a batch that is in the log or being *)
(* appended has its key, one post at most appends it, and none does once   *)
(* it is in the log.                                                       *)
(***************************************************************************)
KeyGuards ==
    \A b \in Batches \ expired :
        /\ Pushing(b) => b \in keys
        /\ InLog(b) => b \in keys /\ ~Pushing(b)
OnePusher ==
    \A p, q \in Slots :
        /\ posts[p].at = "push" /\ posts[q].at = "push"
        /\ posts[p].batch = posts[q].batch
        /\ posts[p].batch \notin expired
        => p = q
OnceInv == TypeOK /\ AtMostOnce /\ KeyGuards /\ OnePusher

\* A step that appends nothing and starts no append keeps the invariant.
LEMMA QuietStep ==
    ASSUME OnceInv, TypeOK', logd' = logd, keys \subseteq keys', expired' = expired,
           \A p \in Slots : posts'[p].at = "push" => posts'[p] = posts[p]
    PROVE  OnceInv'
  <1>1. AtMostOnce'
    BY DEF OnceInv, AtMostOnce
  <1>2. \A b : Pushing(b)' => Pushing(b)
    BY DEF Pushing
  <1>3. KeyGuards'
    BY <1>2 DEF OnceInv, KeyGuards, InLog
  <1>4. OnePusher'
    BY DEF OnceInv, OnePusher
  <1> QED BY <1>1, <1>3, <1>4 DEF OnceInv

\* Appending the batch of a post that was in "push", which is then over.
LEMMA AppendStep ==
    ASSUME OnceInv, TypeOK', NEW p \in Slots, posts[p].at = "push",
           logd' = Append(logd, posts[p].batch), keys' = keys, expired' = expired,
           posts' = [posts EXCEPT ![p].at = "over"]
    PROVE  OnceInv'
  <1> DEFINE b == posts[p].batch
  <1>1. b \in Batches /\ logd \in Seq(Batches) /\ Len(logd) \in Nat
    BY LenProperties DEF OnceInv, TypeOK
  <1>2. /\ Len(logd') = Len(logd) + 1 /\ logd'[Len(logd) + 1] = b
        /\ \A i \in 1..Len(logd) : logd'[i] = logd[i]
    BY <1>1, AppendProperties
  <1>3. b \notin expired => ~InLog(b) /\ b \in keys
    BY <1>1 DEF OnceInv, KeyGuards, Pushing
  <1>4. AtMostOnce'
    BY <1>1, <1>2, <1>3 DEF OnceInv, AtMostOnce, InLog
  <1>5. \A c \in Batches : Pushing(c)' => Pushing(c)
    BY DEF Pushing, OnceInv, TypeOK
  <1>6. \A c \in Batches : InLog(c)' => InLog(c) \/ c = b
    BY <1>1, <1>2 DEF InLog
  <1>7. b \notin expired => ~Pushing(b)'
    BY DEF Pushing, OnceInv, OnePusher, TypeOK
  <1>8. KeyGuards'
    BY <1>3, <1>5, <1>6, <1>7 DEF OnceInv, KeyGuards
  <1>9. OnePusher'
    BY DEF OnceInv, OnePusher, TypeOK
  <1> QED BY <1>4, <1>8, <1>9 DEF OnceInv

LEMMA StepOnce == OnceInv /\ [Next]_vars => OnceInv'
  <1> SUFFICES ASSUME OnceInv, [Next]_vars PROVE OnceInv'
    OBVIOUS
  <1>0. TypeOK /\ TypeOK'
    BY StepTypeOK DEF OnceInv
  <1>1. CASE Ship \/ Deadline \/ Rerun \/ UNCHANGED vars
    <2>1. logd' = logd /\ keys' = keys /\ expired' = expired
      BY <1>1 DEF Ship, Post, Receive, Timeout, Deadline, Rerun, vars, redis
    <2>2. \A p \in Slots : posts'[p].at = "push" => posts'[p] = posts[p]
      BY <1>0, <1>1 DEF Ship, Post, Receive, Timeout, Deadline, Rerun, vars, TypeOK
    <2> QED BY <1>0, <2>1, <2>2, QuietStep
  <1>2. ASSUME NEW p \in Slots, MarkBatch(p) PROVE OnceInv'
    <2> DEFINE b == posts[p].batch
    <2>0. b \in Batches /\ logd' = logd /\ expired' = expired /\ keys' = keys \cup {b}
      BY <1>0, <1>2 DEF MarkBatch, TypeOK
    <2>1. CASE b \in keys
      <3>1. posts' = [posts EXCEPT ![p].at = "over"]
        BY <1>2, <2>1 DEF MarkBatch, Reply
      <3>2. \A q \in Slots : posts'[q].at = "push" => posts'[q] = posts[q]
        BY <1>0, <3>1 DEF TypeOK
      <3> QED BY <1>0, <2>0, <3>2, QuietStep
    <2>2. CASE b \notin keys
      <3>1. posts' = [posts EXCEPT ![p].at = "push"]
        BY <1>2, <2>2 DEF MarkBatch
      <3>2. b \notin expired => ~InLog(b) /\ ~Pushing(b)
        BY <2>0, <2>2 DEF OnceInv, KeyGuards
      <3>3. \A c \in Batches : Pushing(c)' => Pushing(c) \/ c = b
        BY <1>0, <3>1 DEF Pushing, TypeOK
      <3>4. KeyGuards'
        BY <2>0, <3>2, <3>3 DEF OnceInv, KeyGuards, InLog
      <3>5. OnePusher'
        BY <1>0, <2>0, <3>1, <3>2 DEF OnceInv, OnePusher, Pushing, TypeOK
      <3>6. AtMostOnce'
        BY <2>0 DEF OnceInv, AtMostOnce
      <3> QED BY <1>0, <3>4, <3>5, <3>6 DEF OnceInv
    <2> QED BY <2>1, <2>2
  <1>3. ASSUME NEW p \in Slots, PushBatch(p) PROVE OnceInv'
    BY <1>0, <1>3, AppendStep DEF PushBatch, Reply
  <1>4. ASSUME NEW p \in Slots, RedisRaises(p) PROVE OnceInv'
    <2>1. posts' = [posts EXCEPT ![p].at = "over"] /\ expired' = expired
      BY <1>4 DEF RedisRaises, Reply
    <2>2. CASE logd' = logd
      <3>1. keys \subseteq keys'
        BY <1>4 DEF RedisRaises
      <3>2. \A q \in Slots : posts'[q].at = "push" => posts'[q] = posts[q]
        BY <1>0, <2>1 DEF TypeOK
      <3> QED BY <1>0, <2>1, <2>2, <3>1, <3>2, QuietStep
    <2>3. CASE logd' # logd
      <3>1. posts[p].at = "push" /\ logd' = Append(logd, posts[p].batch) /\ keys' = keys
        BY <1>4, <2>3 DEF RedisRaises
      <3> QED BY <1>0, <2>1, <3>1, AppendStep
    <2> QED BY <2>2, <2>3
  <1>5. CASE Crash
    <2>1. logd' = logd /\ keys' = keys /\ expired' = expired
      BY <1>5 DEF Crash, redis
    <2>2. \A p \in Slots : posts'[p].at # "push"
      BY <1>0, <1>5 DEF Crash, TypeOK
    <2> QED BY <1>0, <2>1, <2>2, QuietStep
  <1>6. CASE KeyExpires
    <2>1. PICK b \in keys : keys' = keys \ {b} /\ expired' = expired \cup {b}
      BY <1>6 DEF KeyExpires
    <2>2. logd' = logd /\ posts' = posts
      BY <1>6 DEF KeyExpires
    <2>3. AtMostOnce' /\ OnePusher'
      BY <2>1, <2>2 DEF OnceInv, AtMostOnce, OnePusher
    <2>4. KeyGuards'
      BY <2>1, <2>2 DEF OnceInv, KeyGuards, InLog, Pushing
    <2> QED BY <1>0, <2>3, <2>4 DEF OnceInv
  <1> QED BY <1>1, <1>2, <1>3, <1>4, <1>5, <1>6 DEF Next, Handle

(***************************************************************************)
(* NoGap needs to know how far the shipper is: in a first run without a    *)
(* crash or fault, every batch before the next one is in the log or being  *)
(* appended, so is one with a key, and no post is ahead of the shipper.    *)
(***************************************************************************)
InOrder ==
    FirstRun =>
        /\ \A b \in keys \cup expired : There(b)
        /\ \A a \in Batches : a < next => There(a)
        /\ \A p \in Slots : Working(p) => posts[p].batch <= next
        /\ \A b \in Batches : InLog(b) => b <= next
        /\ shipper = "wait" => last \in Slots /\ posts[last].batch = next
        /\ shipper = "wait" /\ answer \in {"accepted", "deduplicated"} => There(next)

\* A step of the shipper: the log and what is being appended stay.
LEMMA ShipperInOrder == TypeOK /\ InOrder /\ (Ship \/ Deadline \/ UNCHANGED vars) => InOrder'
  <1> SUFFICES ASSUME TypeOK, InOrder, FirstRun', Ship \/ Deadline \/ UNCHANGED vars
               PROVE  InOrder'
    BY DEF InOrder
  <1>0. FirstRun /\ next \in Nat /\ NBatches \in Nat
    BY ShipBounds DEF FirstRun, Ship, Post, Receive, Timeout, Deadline, vars, env, TypeOK, Batches
  <1>1. logd' = logd /\ keys' = keys /\ expired' = expired
    BY DEF Ship, Post, Receive, Timeout, Deadline, vars, redis
  <1>2. CASE Post
    <2>1. PICK p \in Slots : /\ posts[p].at = "over" /\ last' = p
                             /\ posts' = [posts EXCEPT ![p] = [batch |-> next, at |-> "sent"]]
      BY <1>2 DEF Post
    <2>2. next' = next /\ answer' = "none"
      BY <1>2 DEF Post
    <2>3. \A b : There(b) => There(b)'
      BY <1>1, <2>1 DEF There, InLog, Pushing, TypeOK
    <2>4. \A q \in Slots : Working(q)' => posts'[q].batch <= next
      BY <1>0, <2>1 DEF Working, TypeOK, InOrder
    <2>5. posts'[last'].batch = next
      BY <2>1 DEF TypeOK
    <2> QED BY <1>0, <1>1, <2>1, <2>2, <2>3, <2>4, <2>5 DEF InOrder, InLog
  <1>3. CASE Receive
    <2>1. posts' = posts /\ shipper' # "wait" /\ next' \in Nat
          /\ (next' = next \/ (next' = next + 1 /\ There(next)))
      BY <1>0, <1>3 DEF Receive, InOrder, Answers, TypeOK
    <2>2. \A b : There(b)' <=> There(b)
      BY <1>1, <2>1 DEF There, InLog, Pushing
    <2>3. \A a \in Batches : a < next' => a < next \/ a = next
      BY <1>0, <2>1 DEF Batches
    <2>4. \A a \in Batches : a <= next => a <= next'
      BY <1>0, <2>1 DEF Batches
    <2>5. \A p \in Slots : posts[p].batch \in Batches
      BY DEF TypeOK
    <2> QED BY <1>0, <1>1, <2>1, <2>2, <2>3, <2>4, <2>5 DEF InOrder, InLog, Working
  <1>4. CASE Timeout \/ Deadline \/ UNCHANGED vars
    <2>1. posts' = posts /\ next' = next /\ answer' = answer /\ last' = last
          /\ (shipper' = "wait" => shipper = "wait")
      BY <1>4 DEF Timeout, Deadline, vars, client
    <2> QED BY <1>0, <1>1, <2>1 DEF InOrder, There, InLog, Pushing, Working
  <1> QED BY <1>2, <1>3, <1>4 DEF Ship

\* A step of the server, which neither dies nor sees a call fail.
LEMMA ServerInOrder ==
    ASSUME TypeOK, InOrder, NEW p \in Slots, Handle(p)
    PROVE  InOrder'
  <1> SUFFICES ASSUME FirstRun' PROVE InOrder'
    BY DEF InOrder
  <1>b. PICK b \in Batches : b = posts[p].batch
    BY DEF TypeOK
  <1>0. /\ FirstRun /\ next \in Nat /\ b \in Nat /\ logd \in Seq(Batches)
        /\ next' = next /\ last' = last /\ shipper' = shipper /\ expired' = expired
    BY DEF FirstRun, Handle, MarkBatch, PushBatch, env, client, TypeOK, Batches
  <1>1. b <= next
    BY <1>0, <1>b DEF Handle, MarkBatch, PushBatch, Working, InOrder
  <1>2. /\ \A c \in Batches : There(c) => There(c)'
        /\ There(b)' /\ keys' \subseteq keys \cup {b}
        /\ \A c \in Batches : InLog(c)' => InLog(c) \/ c = b
    <2>1. CASE MarkBatch(p)
      <3>1. logd' = logd /\ keys' = keys \cup {b}
        BY <1>b, <2>1 DEF MarkBatch
      <3>2. CASE b \in keys
        <4>1. posts[p].at = "sent" /\ posts' = [posts EXCEPT ![p].at = "over"]
          BY <1>b, <2>1, <3>2 DEF MarkBatch, Reply
        <4>2. \A c : There(c) => There(c)'
          BY <3>1, <4>1 DEF There, InLog, Pushing, TypeOK
        <4> QED BY <1>0, <3>1, <3>2, <4>2 DEF InOrder, InLog
      <3>3. CASE b \notin keys
        <4>1. posts[p].at = "sent" /\ posts' = [posts EXCEPT ![p].at = "push"]
          BY <1>b, <2>1, <3>3 DEF MarkBatch
        <4>2. \A c : There(c) => There(c)'
          BY <3>1, <4>1 DEF There, InLog, Pushing, TypeOK
        <4>3. Pushing(b)'
          BY <1>b, <4>1 DEF Pushing, TypeOK
        <4> QED BY <3>1, <4>2, <4>3 DEF There, InLog
      <3> QED BY <3>2, <3>3
    <2>2. CASE PushBatch(p)
      <3>1. /\ posts[p].at = "push" /\ logd' = Append(logd, b) /\ keys' = keys
            /\ posts' = [posts EXCEPT ![p].at = "over"]
        BY <1>b, <2>2 DEF PushBatch, Reply
      <3>2. /\ Len(logd') = Len(logd) + 1 /\ logd'[Len(logd) + 1] = b /\ Len(logd) \in Nat
            /\ \A i \in 1..Len(logd) : logd'[i] = logd[i]
        BY <1>0, <3>1, AppendProperties, LenProperties
      <3>3. InLog(b)' /\ \A c : InLog(c) => InLog(c)'
        BY <3>2 DEF InLog
      <3>4. \A c \in Batches : Pushing(c) => Pushing(c)' \/ c = b
        BY <1>b, <3>1 DEF Pushing, TypeOK
      <3>5. \A c \in Batches : InLog(c)' => InLog(c) \/ c = b
        BY <3>2 DEF InLog
      <3> QED BY <3>1, <3>3, <3>4, <3>5 DEF There
    <2> QED BY <2>1, <2>2 DEF Handle
  <1>3. \A q \in Slots : /\ posts'[q].batch = posts[q].batch
                         /\ Working(q)' => Working(q)
    BY DEF Handle, MarkBatch, PushBatch, Reply, Working, TypeOK
  <1>4. shipper = "wait" /\ answer' # answer => p = last
    BY DEF Handle, MarkBatch, PushBatch, Reply
  <1>5. shipper' = "wait" /\ answer' \in {"accepted", "deduplicated"} => There(next)'
    <2>1. CASE answer' = answer
      BY <1>0, <1>2, <2>1 DEF InOrder, TypeOK
    <2>2. CASE answer' # answer
      BY <1>0, <1>b, <1>2, <1>4, <2>2 DEF InOrder
    <2> QED BY <2>1, <2>2
  <1>6. \A c \in keys' \cup expired' : There(c)'
    BY <1>0, <1>2 DEF InOrder, TypeOK
  <1> QED BY <1>0, <1>1, <1>2, <1>3, <1>5, <1>6 DEF InOrder

LEMMA StepInOrder == TypeOK /\ InOrder /\ [Next]_vars => InOrder'
  <1> SUFFICES ASSUME TypeOK, InOrder, [Next]_vars PROVE InOrder'
    OBVIOUS
  <1>1. CASE Rerun \/ Crash \/ \E p \in Slots : RedisRaises(p)
    <2>1. ~FirstRun'
      BY <1>1 DEF Rerun, Crash, RedisRaises, FirstRun, TypeOK, env
    <2> QED BY <2>1 DEF InOrder
  <1>2. CASE KeyExpires
    <2>1. PICK b \in keys : keys' = keys \ {b} /\ expired' = expired \cup {b}
      BY <1>2 DEF KeyExpires
    <2>2. UNCHANGED <<client, posts, answer, logd, env>>
      BY <1>2 DEF KeyExpires
    <2> QED BY <2>1, <2>2
            DEF InOrder, FirstRun, There, InLog, Pushing, Working, client, env
  <1> QED BY <1>1, <1>2, ShipperInOrder, ServerInOrder DEF Next

\* However posts of one batch overlap, calls fail and servers crash, the
\* batch is in cowrie:log at most once while its key has not expired; and
\* without a crash or fault a first run leaves no batch out, whatever order
\* late posts are handled in.
THEOREM ShippedOnceInOrder == Spec => []LogIsSound
  <1>1. Init => OnceInv /\ InOrder
    <2> SUFFICES ASSUME Init PROVE OnceInv /\ InOrder
      OBVIOUS
    <2>1. AtMostOnce /\ KeyGuards /\ OnePusher
      BY DEF Init, AtMostOnce, KeyGuards, OnePusher, InLog, Pushing
    <2>2. InOrder
      BY ShipBounds DEF Init, InOrder, InLog, Working, Batches
    <2> QED BY <2>1, <2>2, InitTypeOK DEF OnceInv
  <1>2. TypeOK /\ InOrder => NoGap
    <2> SUFFICES ASSUME TypeOK, InOrder, FirstRun, NEW b \in Batches, InLog(b),
                        NEW a \in 1..(b - 1)
                 PROVE  There(a)
      BY DEF NoGap
    <2>1. b <= next /\ a \in Batches /\ a < next
      BY ShipBounds DEF InOrder, Batches, TypeOK
    <2> QED BY <2>1 DEF InOrder
  <1>3. OnceInv /\ InOrder => LogIsSound
    BY <1>2 DEF OnceInv, LogIsSound
  <1>4. OnceInv => TypeOK
    BY DEF OnceInv
  <1> QED BY <1>1, <1>3, <1>4, StepOnce, StepInOrder, PTL DEF Spec
=============================================================================
