--------------------- MODULE GatewayClientQueueProofs ---------------------
(***************************************************************************)
(* Theorems about GatewayClientQueue for every set of symbols, size of the *)
(* queue, choice of messages and bound on them: the queue is bounded; an   *)
(* index that is not stale never costs an alert, nor queues two deltas of  *)
(* a stream; a delta makes way only for what may take its place; each kind *)
(* is sent in the order of its numbers; and a subscriber is shown every    *)
(* alert of the state, between its snapshot and its deltas too.            *)
(***************************************************************************)
EXTENDS GatewayClientQueue, SequenceTheorems, TLAPS

-----------------------------------------------------------------------------
(* What deleting at an index and overwriting at an index do to a sequence. *)

LEMMA RemoveAtProperties ==
  ASSUME NEW S, NEW q \in Seq(S), NEW i \in 1 .. Len(q)
  PROVE  /\ RemoveAt(q, i) \in Seq(S)
         /\ Len(RemoveAt(q, i)) = Len(q) - 1
         /\ \A j \in 1 .. Len(q) - 1 :
              RemoveAt(q, i)[j] = IF j < i THEN q[j] ELSE q[j + 1]
<1> DEFINE left == SubSeq(q, 1, i - 1)
           right == SubSeq(q, i + 1, Len(q))
<1>0. Len(q) \in Nat
  OBVIOUS
<1>1. left \in Seq(S) /\ Len(left) = i - 1 /\ \A j \in 1 .. i - 1 : left[j] = q[j]
  <2>1. \A j \in 1 .. i - 1 : q[j] \in S
    BY <1>0
  <2> QED  BY <2>1, <1>0, SubSeqProperties
<1>2. /\ right \in Seq(S) /\ Len(right) = Len(q) - i
      /\ \A j \in 1 .. Len(q) - i : right[j] = q[i + j]
  <2>1. \A j \in i + 1 .. Len(q) : q[j] \in S
    BY <1>0
  <2> QED  BY <2>1, <1>0, SubSeqProperties
<1> HIDE DEF left, right
<1>3. /\ left \o right \in Seq(S)
      /\ Len(left \o right) = Len(left) + Len(right)
      /\ \A j \in 1 .. Len(left) + Len(right) :
           (left \o right)[j] = IF j <= Len(left) THEN left[j] ELSE right[j - Len(left)]
  BY <1>1, <1>2, ConcatProperties
<1>4. \A j \in 1 .. Len(q) - 1 :
        (left \o right)[j] = IF j < i THEN q[j] ELSE q[j + 1]
  <2> SUFFICES ASSUME NEW j \in 1 .. Len(q) - 1
               PROVE  (left \o right)[j] = IF j < i THEN q[j] ELSE q[j + 1]
    OBVIOUS
  <2>0. i \in Nat /\ j \in Nat
    BY <1>0
  <2>1. (left \o right)[j] = IF j <= i - 1 THEN left[j] ELSE right[j - (i - 1)]
    BY <1>0, <1>1, <1>2, <1>3
  <2>2. CASE j < i
    BY <2>1, <2>2, <1>0, <1>1
  <2>3. CASE j >= i
    <3>1. j - (i - 1) \in 1 .. Len(q) - i /\ i + (j - (i - 1)) = j + 1
      BY <2>3, <1>0
    <3>2. right[j - (i - 1)] = q[j + 1]
      BY <3>1, <1>2
    <3>3. ~(j <= i - 1) /\ ~(j < i)
      BY <2>0, <2>3
    <3> QED  BY <3>2, <3>3, <2>1
  <2>4. j < i \/ j >= i
    BY <2>0
  <2> QED  BY <2>2, <2>3, <2>4
<1>5. RemoveAt(q, i) = left \o right
  BY DEF RemoveAt, left, right
<1>6. Len(left \o right) = Len(q) - 1
  BY <1>0, <1>1, <1>2, <1>3
<1> QED  BY <1>3, <1>4, <1>5, <1>6

-----------------------------------------------------------------------------
(* Types.  ThreadsOK is about the two threads, RestOK about everything     *)
(* else; Join needs to know that its message is about a symbol.            *)

ThreadsOK ==
  /\ pc \in [Threads -> LoopLabels \cup WorkerLabels]
  /\ pc["loop"] \in LoopLabels /\ pc["worker"] \in WorkerLabels
  /\ msg \in [Threads -> Message]
  /\ index \in [Threads -> Nat]
  /\ moved \in [Threads -> BOOLEAN]
  /\ pc["worker"] = "join" => msg["worker"].sym \in Symbols

RestOK ==
  /\ queue \in Seq(Message)
  /\ batch \in Seq(Message)
  /\ flush \in [Flushers -> {"idle", "serving", "due", "draining", "sending"}]
  /\ pending \in [Flushers -> Seq(Message)]
  /\ subscribed \subseteq Symbols
  /\ open \in BOOLEAN
  /\ published \in [Symbols -> Nat]
  /\ answered \in [Symbols -> Nat]
  /\ state \in [Symbols -> SUBSET Nat]
  /\ requests \in Nat
  /\ shown \in [Symbols -> SUBSET Nat]
  /\ wire \in [Symbols -> [Types -> Nat]]
  /\ spoiled \subseteq {"race", "overlap", "overflow"}

TInv == ThreadsOK /\ RestOK

\* A label that thread t may stand at.
LabelOf(t) == IF t = "loop" THEN LoopLabels ELSE WorkerLabels

LEMMA GotoTypes ==
  ASSUME ThreadsOK, NEW t \in Threads, NEW l \in LabelOf(t) \ {"join"},
         NEW i \in Nat, NEW mv \in BOOLEAN, Goto(t, l, i, mv),
         msg' \in [Threads -> Message], t = "loop" => msg'["worker"] = msg["worker"]
  PROVE  ThreadsOK'
<1> USE DEF Threads, LabelOf
<1>1. /\ index' \in [Threads -> Nat] /\ moved' \in [Threads -> BOOLEAN]
      /\ pc' \in [Threads -> LoopLabels \cup WorkerLabels]
  BY DEF Goto, ThreadsOK
<1>2. CASE t = "loop"
  BY <1>1, <1>2 DEF Goto, ThreadsOK
<1>3. CASE t = "worker"
  BY <1>1, <1>3 DEF Goto, ThreadsOK
<1> QED  BY <1>2, <1>3

LEMMA MoveTypes ==
  ASSUME ThreadsOK, NEW t \in Threads, NEW l \in LabelOf(t) \ {"join"},
         MoveAndGoto(t, l), msg' = msg
  PROVE  ThreadsOK'
<1> USE DEF Threads, LabelOf
<1>1. /\ index' \in [Threads -> Nat] /\ moved' \in [Threads -> BOOLEAN]
      /\ pc' \in [Threads -> LoopLabels \cup WorkerLabels]
  BY DEF MoveAndGoto, ThreadsOK
<1>2. CASE t = "loop"
  BY <1>1, <1>2 DEF MoveAndGoto, ThreadsOK
<1>3. CASE t = "worker"
  BY <1>1, <1>3 DEF MoveAndGoto, ThreadsOK
<1> QED  BY <1>2, <1>3

LEMMA EnqueueLabels ==
  ASSUME NEW t \in Threads
  PROVE  /\ Labels \subseteq LabelOf(t)
         /\ "join" \notin Labels
         /\ Return(t) \in LabelOf(t) \ {"join"}
         /\ Raise(t) \in LabelOf(t) \ {"join"}
BY DEF Threads, LabelOf, Labels, LoopLabels, WorkerLabels, Return, Raise

\* Every step of enqueue keeps the types.
LEMMA EnqueueTypes ==
  ASSUME TInv, NEW t \in Threads, EnqueueStep(t)
  PROVE  TInv'
<1> USE DEF restEnqueue, flushVars, sourceVars, clientVars
<1> DEFINE Enqueued == /\ msg' = msg /\ batch' = batch /\ subscribed' = subscribed
                       /\ flush' = flush /\ pending' = pending /\ open' = open
                       /\ published' = published /\ answered' = answered
                       /\ state' = state /\ requests' = requests
                       /\ shown' = shown /\ wire' = wire
<1>1. ASSUME Enqueued, queue' \in Seq(Message),
             spoiled' \in {spoiled, spoiled \cup {"race"}, spoiled \cup {"overflow"}}
      PROVE  RestOK'
  BY <1>1 DEF TInv, RestOK
<1>2. msg \in [Threads -> Message] /\ queue \in Seq(Message) /\ index[t] \in Nat
      /\ moved[t] \in BOOLEAN
  BY DEF TInv, ThreadsOK, RestOK
<1>3. {"search", "replace", "check", "scan", "delete", "recheck", "append"} \subseteq
        LabelOf(t) \ {"join"}
  BY EnqueueLabels DEF Labels
<1>4. \A m : Lose(m) => spoiled' \in {spoiled, spoiled \cup {"overflow"}}
  BY DEF Lose
<1>5. CASE Search(t)
  <2>1. Enqueued /\ queue' = queue /\ spoiled' = spoiled
    BY <1>5 DEF Search
  <2>2. ThreadsOK'
    <3>1. CASE index[t] = 0 /\ Goto(t, "check", 0, FALSE)
      BY <3>1, <2>1, <1>2, <1>3, GotoTypes DEF TInv
    <3>2. CASE index[t] > Len(queue) /\ Goto(t, Raise(t), 0, FALSE)
      BY <3>2, <2>1, <1>2, EnqueueLabels, GotoTypes DEF TInv
    <3>3. CASE index[t] \in DOMAIN queue /\ Goto(t, "replace", index[t], moved[t])
      BY <3>3, <2>1, <1>2, <1>3, GotoTypes DEF TInv
    <3>4. CASE index[t] \in DOMAIN queue /\ Goto(t, "search", index[t] - 1, moved[t])
      <4>1. index[t] - 1 \in Nat
        BY <3>4, <1>2
      <4> QED  BY <4>1, <3>4, <2>1, <1>2, <1>3, GotoTypes DEF TInv
    <3>5. \/ index[t] = 0 /\ Goto(t, "check", 0, FALSE)
          \/ index[t] > Len(queue) /\ Goto(t, Raise(t), 0, FALSE)
          \/ index[t] \in DOMAIN queue /\ Goto(t, "replace", index[t], moved[t])
          \/ index[t] \in DOMAIN queue /\ Goto(t, "search", index[t] - 1, moved[t])
      BY <1>5 DEF Search
    <3> QED  BY <3>1, <3>2, <3>3, <3>4, <3>5
  <2> QED  BY <2>1, <2>2, <1>1, <1>2 DEF TInv
<1>6. CASE Replace(t)
  <2>1. Enqueued
    BY <1>6 DEF Replace
  <2>2. queue' \in Seq(Message) /\ spoiled' \in {spoiled, spoiled \cup {"race"}}
    <3>1. CASE index[t] \in DOMAIN queue
      <4>1. queue' = [queue EXCEPT ![index[t]] = msg[t]]
            /\ spoiled' \in {spoiled, spoiled \cup {"race"}}
        BY <1>6, <3>1 DEF Replace
      <4>2. index[t] \in 1 .. Len(queue) /\ msg[t] \in Message
        BY <3>1, <1>2
      <4> QED  BY <4>1, <4>2, <1>2, ExceptSeq
    <3>2. CASE index[t] \notin DOMAIN queue
      BY <1>6, <3>2, <1>2 DEF Replace
    <3> QED  BY <3>1, <3>2
  <2>3. Goto(t, Return(t), 0, FALSE) \/ Goto(t, Raise(t), 0, FALSE)
    BY <1>6 DEF Replace
  <2>4. ThreadsOK'
    BY <2>1, <2>3, <1>2, GotoTypes, EnqueueLabels DEF TInv
  <2> QED  BY <2>1, <2>2, <2>4, <1>1 DEF TInv
<1>7. CASE Check(t)
  <2>1. Enqueued /\ queue' = queue /\ spoiled' = spoiled
    BY <1>7 DEF Check
  <2>2. \/ Goto(t, "recheck", 0, FALSE)
        \/ Goto(t, "scan", 0, FALSE)
        \/ Goto(t, Return(t), 0, FALSE)
    BY <1>7 DEF Check
  <2>3. ThreadsOK'
    BY <2>1, <2>2, <1>2, <1>3, GotoTypes, EnqueueLabels DEF TInv
  <2> QED  BY <2>1, <2>3, <1>1, <1>2 DEF TInv
<1>8. CASE Scan(t)
  <2>1. Enqueued /\ queue' = queue
    BY <1>8 DEF Scan
  <2>2. spoiled' \in {spoiled, spoiled \cup {"overflow"}}
    BY <1>8, <1>4 DEF Scan
  <2>3. PICK l \in LabelOf(t) \ {"join"}, i \in Nat : Goto(t, l, i, FALSE)
    <3>1. CASE Goto(t, Raise(t), 0, FALSE) \/ Goto(t, Return(t), 0, FALSE)
      BY <3>1, EnqueueLabels
    <3>2. CASE \E first \in Victims(msg[t]) : Goto(t, "delete", first, FALSE)
      <4>1. Victims(msg[t]) \subseteq Nat
        BY <1>2 DEF Victims
      <4> QED  BY <4>1, <3>2, <1>3
    <3> QED  BY <1>8, <3>1, <3>2 DEF Scan
  <2>4. ThreadsOK'
    BY <2>1, <2>3, <1>2, GotoTypes DEF TInv
  <2> QED  BY <2>1, <2>2, <2>4, <1>1, <1>2 DEF TInv
<1>9. CASE Delete(t)
  <2>1. Enqueued
    BY <1>9 DEF Delete
  <2>2. /\ queue' \in Seq(Message)
        /\ spoiled' \in {spoiled, spoiled \cup {"race"}, spoiled \cup {"overflow"}}
    <3>1. CASE index[t] \in DOMAIN queue
      <4>1. queue' = RemoveAt(queue, index[t])
        BY <1>9, <3>1 DEF Delete
      <4>2. index[t] \in 1 .. Len(queue)
        BY <3>1, <1>2
      <4>3. queue' \in Seq(Message)
        BY <4>1, <4>2, <1>2, RemoveAtProperties
      <4> QED  BY <1>9, <3>1, <4>3, <1>4 DEF Delete
    <3>2. CASE index[t] \notin DOMAIN queue
      BY <1>9, <3>2, <1>2, <1>4 DEF Delete
    <3> QED  BY <3>1, <3>2
  <2>3. MoveAndGoto(t, "recheck") \/ Goto(t, Raise(t), 0, FALSE)
    BY <1>9 DEF Delete
  <2>4. ThreadsOK'
    BY <2>1, <2>3, <1>2, <1>3, GotoTypes, MoveTypes, EnqueueLabels DEF TInv
  <2> QED  BY <2>1, <2>2, <2>4, <1>1 DEF TInv
<1>10. CASE Recheck(t)
  <2>1. Enqueued /\ queue' = queue
    BY <1>10 DEF Recheck
  <2>2. spoiled' \in {spoiled, spoiled \cup {"overflow"}}
    BY <1>10, <1>4 DEF Recheck
  <2>3. Goto(t, Return(t), 0, FALSE) \/ Goto(t, "append", 0, FALSE)
    BY <1>10 DEF Recheck
  <2>4. ThreadsOK'
    BY <2>1, <2>3, <1>2, <1>3, GotoTypes, EnqueueLabels DEF TInv
  <2> QED  BY <2>1, <2>2, <2>4, <1>1, <1>2 DEF TInv
<1>11. CASE AppendMessage(t)
  <2>1. Enqueued /\ spoiled' = spoiled /\ MoveAndGoto(t, Return(t))
    BY <1>11 DEF AppendMessage
  <2>2. queue' \in Seq(Message)
    BY <1>11, <1>2 DEF AppendMessage
  <2>3. ThreadsOK'
    BY <2>1, MoveTypes, EnqueueLabels DEF TInv
  <2> QED  BY <2>1, <2>2, <2>3, <1>1 DEF TInv
<1> QED  BY <1>5, <1>6, <1>7, <1>8, <1>9, <1>10, <1>11 DEF EnqueueStep

\* Every other step keeps the types.
LEMMA OtherTypes ==
  ASSUME TInv,
         \/ TickStart \/ PublishEnd \/ Broadcast \/ BroadcastEnd \/ Join \/ Leave
         \/ Resume \/ Close
         \/ \E s \in Symbols, y \in DeltaTypes : Publish(s, y)
         \/ \E f \in Flushers : Flush(f)
         \/ \E a \in Asks, s \in Symbols : Ask(a, s)
  PROVE  TInv'
<1> USE DEF flushVars, sourceVars, clientVars, threadVars
<1>0. /\ "loop" \in Threads /\ "worker" \in Threads
      /\ "free" \in LabelOf("loop") \ {"join"}
      /\ {"publish", "broadcast", "drain", "search", "check"} \subseteq LabelOf("loop") \ {"join"}
      /\ {"leave", "return", "check", "free"} \subseteq LabelOf("worker") \ {"join"}
      /\ "join" \in WorkerLabels
  BY DEF Threads, LabelOf, Labels, LoopLabels, WorkerLabels
<1>1. ASSUME NEW l \in LabelOf("loop"), NEW k, LoopGoes(k, l),
             msg' = msg, index' = index, moved' = moved
      PROVE  ThreadsOK'
  BY <1>0, <1>1 DEF LoopGoes, TInv, ThreadsOK, LabelOf, Threads
<1>2. CASE TickStart \/ PublishEnd
  <2>1. ThreadsOK'
    BY <1>0, <1>1, <1>2 DEF TickStart, PublishEnd
  <2> QED  BY <2>1, <1>2 DEF TInv, RestOK, TickStart, PublishEnd
<1>3. CASE Broadcast
  <2>1. Head(batch) \in Message /\ Tail(batch) \in Seq(Message)
    BY <1>3 DEF Broadcast, TInv, RestOK
  <2>2. ThreadsOK'
    <3>1. CASE Enqueue("loop", Head(batch))
      <4>1. /\ msg' \in [Threads -> Message] /\ msg'["worker"] = msg["worker"]
            /\ Len(queue) \in Nat
        BY <3>1, <2>1, <1>0 DEF Enqueue, TInv, ThreadsOK, RestOK, Threads
      <4> QED  BY <3>1, <4>1, <1>0, GotoTypes DEF Enqueue, TInv
    <3>2. CASE UNCHANGED threadVars
      BY <3>2 DEF TInv, ThreadsOK
    <3> QED  BY <1>3, <3>1, <3>2 DEF Broadcast
  <2> QED  BY <1>3, <2>1, <2>2 DEF Broadcast, TInv, RestOK
<1>4. CASE BroadcastEnd
  <2>1. ThreadsOK'
    BY <1>0, <1>1, <1>4 DEF BroadcastEnd
  <2> QED  BY <2>1, <1>4 DEF TInv, RestOK, BroadcastEnd, Flushers
<1>5. CASE Join
  <2>1. msg["worker"].sym \in Symbols /\ ThreadsOK'
    BY <1>0, <1>5, GotoTypes DEF Join, TInv, ThreadsOK
  <2> QED  BY <2>1, <1>5 DEF Join, TInv, RestOK
<1>6. CASE Leave
  <2>1. ThreadsOK'
    BY <1>0, <1>6, GotoTypes DEF Leave, TInv, ThreadsOK
  <2> QED  BY <2>1, <1>6 DEF Leave, TInv, RestOK
<1>7. CASE Resume
  <2>1. Health \in Message
    BY DEF Health, Message, Types, Coalescible, Critical
  <2>2. ThreadsOK'
    BY <1>0, <1>7, <2>1 DEF Resume, TInv, ThreadsOK, LabelOf, Threads
  <2> QED  BY <2>2, <1>7 DEF Resume, TInv, RestOK, Flushers
<1>8. CASE Close
  BY <1>8 DEF Close, TInv, RestOK, ThreadsOK
<1>9. ASSUME NEW s \in Symbols, NEW y \in DeltaTypes, Publish(s, y)
      PROVE  TInv'
  <2>1. published' \in [Symbols -> Nat] /\ published'[s] \in Nat
    BY <1>9 DEF Publish, TInv, RestOK
  <2> DEFINE new == IF y = "alert_realtime" THEN {published'[s]} ELSE {}
             delta == [type |-> y, sym |-> s, seq |-> published'[s], alerts |-> new]
  <2>2. new \in SUBSET Nat /\ y \in Types /\ y # "health"
    BY <2>1, DeltaAssumption DEF Types, Coalescible, Critical
  <2>3. batch' = Append(batch, delta) /\ state' = [state EXCEPT ![s] = @ \cup new]
    BY <1>9 DEF Publish
  <2> HIDE DEF new
  <2>4. delta \in Message
    BY <2>1, <2>2 DEF Message
  <2> HIDE DEF delta
  <2>5. batch' \in Seq(Message)
    BY <2>3, <2>4 DEF TInv, RestOK
  <2>6. state' \in [Symbols -> SUBSET Nat]
    <3>1. state[s] \cup new \in SUBSET Nat
      BY <2>2 DEF TInv, RestOK
    <3> QED  BY <2>3, <3>1 DEF TInv, RestOK
  <2> QED  BY <2>6, <1>9, <2>1, <2>5 DEF Publish, TInv, RestOK, ThreadsOK
<1>10. ASSUME NEW a \in Asks, NEW s \in Symbols, Ask(a, s)
       PROVE  TInv'
  <2> DEFINE m == [Response(a, s) EXCEPT !.sym = IF a = "unsubscribe" THEN s ELSE @]
  <2>1. m \in Message /\ (a = "subscribe" => m.sym \in Symbols)
    <3>1. answered[s] + 1 \in Nat
      BY DEF TInv, RestOK
    <3> QED
      BY <3>1, AskAssumption
      DEF Response, ResponseType, Health, Message, Types, Coalescible, Critical
  <2>2. msg' = [msg EXCEPT !["worker"] = m]
    BY <1>10 DEF Ask
  <2> HIDE DEF m
  <2>3. msg' \in [Threads -> Message] /\ msg'["worker"] = m
    BY <2>1, <2>2, <1>0 DEF TInv, ThreadsOK
  <2>4. ThreadsOK'
    <3>1. CASE a = "subscribe"
      <4>1. Goto("worker", "join", 0, FALSE)
        BY <1>10, <3>1 DEF Ask
      <4>2. msg'["worker"].sym \in Symbols
        BY <2>1, <2>3, <3>1
      <4> QED  BY <4>1, <4>2, <2>3, <1>0 DEF Goto, TInv, ThreadsOK, Threads
    <3>2. CASE a # "subscribe"
      <4>1. Goto("worker", "leave", 0, FALSE) \/ Goto("worker", "check", 0, FALSE)
        BY <1>10, <3>2 DEF Ask
      <4> QED  BY <4>1, <2>3, <1>0, GotoTypes DEF TInv
    <3> QED  BY <3>1, <3>2
  <2>5. answered' \in [Symbols -> Nat]
    BY <1>10 DEF Ask, TInv, RestOK
  <2> QED  BY <1>10, <2>4, <2>5 DEF Ask, TInv, RestOK, Flushers
<1>11. ASSUME NEW f \in Flushers, Flush(f)
       PROVE  TInv'
  <2>1. CASE FlushStart(f)
    <3>1. ThreadsOK'
      <4>1. CASE open
        BY <4>1, <2>1, <1>0, <1>1 DEF FlushStart
      <4>2. CASE ~open
        BY <4>2, <2>1 DEF FlushStart, TInv, ThreadsOK
      <4> QED  BY <4>1, <4>2
    <3> QED  BY <2>1, <3>1 DEF FlushStart, TInv, RestOK, Flushers
  <2>2. CASE Pop(f)
    <3>1. Head(queue) \in Message /\ Tail(queue) \in Seq(Message)
      BY <2>2 DEF Pop, TInv, RestOK
    <3>2. pending' \in [Flushers -> Seq(Message)]
      BY <2>2, <3>1 DEF Pop, TInv, RestOK
    <3>3. ThreadsOK'
      BY <2>2, <1>0, MoveTypes DEF Pop, TInv
    <3> QED  BY <2>2, <3>1, <3>2, <3>3 DEF Pop, TInv, RestOK
  <2>3. CASE DrainEnd(f)
    <3>1. \A m \in Message : Serialized(m) \in Message
      BY DEF Serialized, Message, TInv, RestOK
    <3>2. [i \in DOMAIN pending[f] |-> Serialized(pending[f][i])] \in Seq(Message)
      <4>1. pending[f] \in Seq(Message)
        BY DEF TInv, RestOK
      <4>2. /\ DOMAIN pending[f] = 1 .. Len(pending[f]) /\ Len(pending[f]) \in Nat
            /\ \A i \in 1 .. Len(pending[f]) : pending[f][i] \in Message
        BY <4>1
      <4> QED  BY <4>2, <3>1, IsASeq
    <3>3. pending' \in [Flushers -> Seq(Message)]
      BY <2>3, <3>2 DEF DrainEnd, TInv, RestOK
    <3>4. ThreadsOK'
      BY <2>3, <1>0, <1>1 DEF DrainEnd
    <3> QED  BY <2>3, <3>3, <3>4 DEF DrainEnd, TInv, RestOK, Flushers
  <2>4. CASE Send(f)
    <3> DEFINE m == Head(pending[f])
    <3>1. /\ pending[f] \in Seq(Message) /\ pending[f] # <<>>
          /\ pending' = [pending EXCEPT ![f] = Tail(@)]
      BY <2>4 DEF Send, TInv, RestOK
    <3>2. m \in Message /\ Tail(pending[f]) \in Seq(Message)
      BY <3>1
    <3>3. pending' \in [Flushers -> Seq(Message)]
      BY <3>1, <3>2 DEF TInv, RestOK
    <3>4. flush' \in [Flushers -> {"idle", "serving", "due", "draining", "sending"}]
      BY <2>4 DEF Send, TInv, RestOK
    <3>5. spoiled' \subseteq {"race", "overlap", "overflow"}
      BY <2>4 DEF Send, TInv, RestOK
    <3>6. Show(m)
      BY <2>4 DEF Send
    <3> HIDE DEF m
    <3>7. shown' \in [Symbols -> SUBSET Nat] /\ wire' \in [Symbols -> [Types -> Nat]]
      <4>1. CASE m.sym = None
        BY <4>1, <3>6 DEF Show, TInv, RestOK
      <4>2. CASE m.sym # None
        <5>1. m.sym \in Symbols /\ m.type \in Types /\ m.seq \in Nat /\ m.alerts \in SUBSET Nat
          BY <4>2, <3>2 DEF Message
        <5>2. wire' = [wire EXCEPT ![m.sym][m.type] = m.seq]
          BY <4>2, <3>6 DEF Show
        <5>3. shown[m.sym] \in SUBSET Nat
          BY <5>1 DEF TInv, RestOK
        <5>4. \E v \in SUBSET Nat : shown' = [shown EXCEPT ![m.sym] = v]
          <6>1. CASE m.type = "snapshot"
            <7>1. shown' = [shown EXCEPT ![m.sym] = m.alerts]
              BY <6>1, <4>2, <3>6 DEF Show, IsAlert
            <7> QED  BY <7>1, <5>1
          <6>2. CASE m.type = "alert_realtime"
            <7>1. shown[m.sym] \cup m.alerts \in SUBSET Nat
              BY <5>1, <5>3
            <7>2. shown' = [shown EXCEPT ![m.sym] = shown[m.sym] \cup m.alerts]
              BY <6>2, <4>2, <3>6 DEF Show, IsAlert
            <7> QED  BY <7>1, <7>2
          <6>3. CASE m.type \notin {"snapshot", "alert_realtime"}
            <7>1. shown' = [shown EXCEPT ![m.sym] = shown[m.sym]]
              BY <6>3, <4>2, <3>6 DEF Show, IsAlert
            <7> QED  BY <7>1, <5>3
          <6> QED  BY <6>1, <6>2, <6>3
        <5>5. shown' \in [Symbols -> SUBSET Nat]
          BY <5>1, <5>4 DEF TInv, RestOK
        <5> QED  BY <5>1, <5>2, <5>5 DEF TInv, RestOK
      <4> QED  BY <4>1, <4>2
    <3> QED  BY <2>4, <3>3, <3>4, <3>5, <3>7 DEF Send, TInv, RestOK, ThreadsOK
  <2>5. CASE SendFails(f)
    <3>1. ThreadsOK'
      BY <2>5 DEF SendFails, TInv, ThreadsOK
    <3>2. pending' \in [Flushers -> Seq(Message)]
      BY <2>5 DEF SendFails, TInv, RestOK
    <3>3. flush' \in [Flushers -> {"idle", "serving", "due", "draining", "sending"}]
      BY <2>5 DEF SendFails, TInv, RestOK
    <3> QED  BY <2>5, <3>1, <3>2, <3>3 DEF SendFails, TInv, RestOK
  <2> QED  BY <1>11, <2>1, <2>2, <2>3, <2>4, <2>5 DEF Flush
<1> QED  BY <1>2, <1>3, <1>4, <1>5, <1>6, <1>7, <1>8, <1>9, <1>10, <1>11

LEMMA TypesInductive == TInv /\ [Next]_vars => TInv'
<1> SUFFICES ASSUME TInv, [Next]_vars  PROVE TInv'
  OBVIOUS
<1>1. CASE \E t \in Threads : EnqueueStep(t)
  BY <1>1, EnqueueTypes
<1>2. CASE UNCHANGED vars
  BY <1>2 DEF vars, threadVars, flushVars, sourceVars, clientVars, TInv, ThreadsOK, RestOK
<1>3. CASE Next /\ ~\E t \in Threads : EnqueueStep(t)
  <2>1. ~EnqueueStep("loop") /\ ~EnqueueStep("worker")
    BY <1>3 DEF Threads
  <2> QED  BY <1>3, <2>1, OtherTypes DEF Next, Tick, Worker
<1> QED  BY <1>1, <1>2, <1>3

LEMMA TypesInitially == Init => TInv
<1> SUFFICES ASSUME Init  PROVE TInv
  OBVIOUS
<1>1. Health \in Message
  BY DEF Health, Message, Types, Coalescible, Critical
<1>2. ThreadsOK
  BY <1>1 DEF Init, ThreadsOK, Threads, LoopLabels, WorkerLabels, Labels
<1>3. RestOK
  BY <1>1 DEF Init, RestOK, Flushers
<1> QED  BY <1>2, <1>3 DEF TInv

\* Types, and that a worker about to join has a symbol.
THEOREM SpecTypes == Spec => []TInv
BY TypesInitially, TypesInductive, PTL DEF Spec

\* Every variable keeps its type for every size, choice of messages and
\* number of deltas and requests.
THEOREM QueueTypeCorrect == Spec => []TypeOK
<1>1. TInv => TypeOK
  BY DEF TInv, ThreadsOK, RestOK, TypeOK
<1> QED  BY <1>1, SpecTypes, PTL

-----------------------------------------------------------------------------
(* The bound.  A thread at "append" has found room; what room it has left  *)
(* depends on whether the other one has found it too.                      *)

RoomInv ==
  /\ Len(queue) <= MaxSize + 1
  /\ \A t \in Threads : pc[t] = "append" => Len(queue) <= MaxSize
  /\ (\A t \in Threads : pc[t] = "append") => Len(queue) <= MaxSize - 1

\* A step that does not lengthen the queue and lets no thread in.
LEMMA RoomStays ==
  ASSUME RoomInv, TInv, TInv', Len(queue') <= Len(queue),
         \A t \in Threads : pc'[t] = "append" => pc[t] = "append"
  PROVE  RoomInv'
<1>1. Len(queue) \in Nat /\ Len(queue') \in Nat /\ MaxSize \in Nat
  BY SizeAssumption DEF TInv, RestOK
<1> QED  BY <1>1 DEF RoomInv, Threads

\* Goto and MoveAndGoto move no thread but t, and t not to "append".
LEMMA RoomGoto ==
  ASSUME TInv, NEW t \in Threads, NEW l, l # "append", NEW i, NEW mv,
         Goto(t, l, i, mv) \/ MoveAndGoto(t, l)
  PROVE  \A u \in Threads : pc'[u] = "append" => pc[u] = "append"
BY DEF Goto, MoveAndGoto, TInv, ThreadsOK

\* Every step keeps the room.
LEMMA RoomInductive ==
  ASSUME RoomInv, TInv, TInv', [Next]_vars
  PROVE  RoomInv'
<1>0. /\ \A t \in Threads : Return(t) # "append" /\ Raise(t) # "append"
      /\ Len(queue) \in Nat /\ MaxSize \in Nat /\ queue \in Seq(Message)
      /\ \A t \in Threads : index[t] \in Nat /\ msg[t] \in Message
  BY SizeAssumption DEF Return, Raise, TInv, RestOK, ThreadsOK
<1>1. ASSUME NEW t \in Threads, Search(t)  PROVE RoomInv'
  <2>1. queue' = queue
    BY <1>1 DEF Search
  <2>2. \A u \in Threads : pc'[u] = "append" => pc[u] = "append"
    BY <1>0, <1>1, RoomGoto DEF Search
  <2> QED  BY <1>0, <2>1, <2>2, RoomStays
<1>2. ASSUME NEW t \in Threads, Replace(t)  PROVE RoomInv'
  <2>1. Len(queue') <= Len(queue)
    <3>1. CASE index[t] \in DOMAIN queue
      <4>1. queue' = [queue EXCEPT ![index[t]] = msg[t]] /\ index[t] \in 1 .. Len(queue)
        BY <1>0, <1>2, <3>1 DEF Replace
      <4> QED  BY <4>1, <1>0, ExceptSeq
    <3>2. CASE index[t] \notin DOMAIN queue
      BY <1>0, <1>2, <3>2 DEF Replace
    <3> QED  BY <3>1, <3>2
  <2>2. Goto(t, Return(t), 0, FALSE) \/ Goto(t, Raise(t), 0, FALSE)
    BY <1>2 DEF Replace
  <2>3. \A u \in Threads : pc'[u] = "append" => pc[u] = "append"
    BY <1>0, <2>2, RoomGoto
  <2> QED  BY <2>1, <2>3, RoomStays
<1>3. ASSUME NEW t \in Threads, Check(t) \/ Scan(t)  PROVE RoomInv'
  <2>1. queue' = queue
    BY <1>3 DEF Check, Scan
  <2>2. \A u \in Threads : pc'[u] = "append" => pc[u] = "append"
    <3>1. CASE Check(t)
      BY <1>0, <3>1, RoomGoto DEF Check
    <3>2. CASE Scan(t)
      BY <1>0, <3>2, RoomGoto DEF Scan
    <3> QED  BY <1>3, <3>1, <3>2
  <2> QED  BY <1>0, <2>1, <2>2, RoomStays
<1>4. ASSUME NEW t \in Threads, Delete(t)  PROVE RoomInv'
  <2>1. Len(queue') <= Len(queue)
    <3>1. CASE index[t] \in DOMAIN queue
      <4>1. queue' = RemoveAt(queue, index[t]) /\ index[t] \in 1 .. Len(queue)
        BY <1>0, <1>4, <3>1 DEF Delete
      <4>2. Len(queue') = Len(queue) - 1
        BY <4>1, <1>0, RemoveAtProperties
      <4> QED  BY <4>2, <1>0
    <3>2. CASE index[t] \notin DOMAIN queue
      BY <1>0, <1>4, <3>2 DEF Delete
    <3> QED  BY <3>1, <3>2
  <2>2. MoveAndGoto(t, "recheck") \/ Goto(t, Raise(t), 0, FALSE)
    BY <1>4 DEF Delete
  <2>3. \A u \in Threads : pc'[u] = "append" => pc[u] = "append"
    BY <1>0, <2>2, RoomGoto
  <2> QED  BY <2>1, <2>3, RoomStays
<1>5. ASSUME NEW t \in Threads, Recheck(t)  PROVE RoomInv'
  <2>1. queue' = queue
    BY <1>5 DEF Recheck
  <2>2. CASE Full
    <3>1. Goto(t, Return(t), 0, FALSE)
      BY <1>5, <2>2 DEF Recheck
    <3>2. \A u \in Threads : pc'[u] = "append" => pc[u] = "append"
      BY <1>0, <3>1, RoomGoto
    <3> QED  BY <1>0, <2>1, <3>2, RoomStays
  <2>3. CASE ~Full
    <3>1. Len(queue') <= MaxSize - 1
      BY <1>0, <2>1, <2>3 DEF Full
    <3> QED  BY <1>0, <2>1, <3>1 DEF RoomInv
  <2> QED  BY <2>2, <2>3
<1>6. ASSUME NEW t \in Threads, AppendMessage(t)  PROVE RoomInv'
  <2>1. Len(queue') = Len(queue) + 1 /\ pc[t] = "append"
    BY <1>0, <1>6 DEF AppendMessage
  <2>2. pc'[t] # "append" /\ \A u \in Threads \ {t} : pc'[u] = pc[u]
    BY <1>0, <1>6 DEF AppendMessage, MoveAndGoto, TInv, ThreadsOK
  <2>3. Len(queue) <= MaxSize
    BY <2>1 DEF RoomInv
  <2>4. ASSUME NEW u \in Threads, pc'[u] = "append"
        PROVE  Len(queue') <= MaxSize
    <3>1. \A v \in Threads : pc[v] = "append"
      BY <2>1, <2>2, <2>4 DEF Threads
    <3> QED  BY <3>1, <2>1, <1>0 DEF RoomInv
  <2>5. Len(queue') <= MaxSize + 1
    BY <2>1, <2>3, <1>0
  <2> QED  BY <2>2, <2>4, <2>5 DEF RoomInv
<1>7. CASE \E f \in Flushers : Pop(f)
  <2>1. Len(queue') <= Len(queue)
    BY <1>0, <1>7 DEF Pop
  <2>2. \A u \in Threads : pc'[u] = "append" => pc[u] = "append"
    BY <1>7, RoomGoto DEF Pop, Threads
  <2> QED  BY <2>1, <2>2, RoomStays
<1>8. ASSUME queue' = queue,
             \A u \in Threads : pc'[u] = "append" => pc[u] = "append"
      PROVE  RoomInv'
  BY <1>0, <1>8, RoomStays
<1>9. CASE Broadcast
  <2>1. \A u \in Threads : pc'[u] = "append" => pc[u] = "append"
    BY <1>9, RoomGoto DEF Broadcast, Enqueue, threadVars, Threads
  <2> QED  BY <1>8, <1>9, <2>1 DEF Broadcast
<1>10. CASE Join \/ Leave \/ \E a \in Asks, s \in Symbols : Ask(a, s)
  <2>1. \A u \in Threads : pc'[u] = "append" => pc[u] = "append"
    BY <1>10, RoomGoto DEF Join, Leave, Ask, Threads
  <2> QED  BY <1>8, <1>10, <2>1 DEF Join, Leave, Ask
<1>11. CASE TickStart \/ PublishEnd \/ BroadcastEnd \/ Resume
            \/ \E f \in Flushers : FlushStart(f) \/ DrainEnd(f)
  <2>1. /\ queue' = queue
        /\ \A u \in Threads : pc'[u] = "append" => pc[u] = "append"
    BY <1>11
    DEF TickStart, PublishEnd, BroadcastEnd, Resume, FlushStart, DrainEnd, LoopGoes,
        TInv, ThreadsOK
  <2> QED  BY <1>8, <2>1
<1>12. CASE Close \/ (\E f \in Flushers : Send(f) \/ SendFails(f))
            \/ \E s \in Symbols, y \in DeltaTypes : Publish(s, y)
  BY <1>8, <1>12 DEF Close, Send, SendFails, Publish, threadVars
<1>13. CASE UNCHANGED vars
  BY <1>8, <1>13 DEF vars, threadVars
<1>14. CASE \E t \in Threads : EnqueueStep(t)
  BY <1>14, <1>1, <1>2, <1>3, <1>4, <1>5, <1>6 DEF EnqueueStep
<1> QED
  BY <1>7, <1>9, <1>10, <1>11, <1>12, <1>13, <1>14
  DEF Next, Tick, Worker, Flush, Threads

\* The queue is bounded, with room for what has passed its second check.
THEOREM SpecRoom == Spec => []RoomInv
<1>1. Init => RoomInv
  BY SizeAssumption DEF Init, RoomInv, Threads
<1>2. RoomInv /\ TInv /\ TInv' /\ [Next]_vars => RoomInv'
  BY RoomInductive
<1> QED  BY <1>1, <1>2, SpecTypes, PTL DEF Spec

\* The queue of a client holds one message more than max_size at most, for
\* every max_size, however the two threads' checks and appends interleave.
THEOREM QueueBoundHolds == Spec => []QueueBounded
<1>1. RoomInv => QueueBounded
  BY DEF RoomInv, QueueBounded
<1> QED  BY <1>1, SpecRoom, PTL

-----------------------------------------------------------------------------
(* Alerts.  As long as no stale index has been used, an index about to be  *)
(* used on a queue that has not moved points where enqueue meant it to:    *)
(* "replace" at a delta of the same stream, "delete" at a droppable one.   *)

LooksAt(t) ==
  /\ pc[t] \in {"search", "replace"} => msg[t].type \in Coalescible
  /\ pc[t] = "replace" /\ ~moved[t] /\ "race" \notin spoiled =>
       index[t] \in DOMAIN queue /\ SameStream(msg[t], queue[index[t]])
  /\ pc[t] = "delete" /\ ~moved[t] /\ "race" \notin spoiled =>
       index[t] \in DOMAIN queue /\ Droppable(msg[t], queue[index[t]])

IndexInv == \A t \in Threads : LooksAt(t)

\* A thread that stays where it is keeps its index as long as each message of
\* the queue keeps its type and symbol.
LEMMA LooksAtSame ==
  ASSUME NEW t \in Threads, LooksAt(t), spoiled \subseteq spoiled',
         DOMAIN queue' = DOMAIN queue,
         \A i \in DOMAIN queue : queue'[i].type = queue[i].type /\ queue'[i].sym = queue[i].sym,
         pc'[t] = pc[t], msg'[t] = msg[t], index'[t] = index[t], moved'[t] = moved[t]
  PROVE  LooksAt(t)'
BY DEF LooksAt, SameStream, Droppable, IsAlert, IsCritical

\* A thread that is told the queue has moved need not look at all.
LEMMA LooksAtMoved ==
  ASSUME NEW t \in Threads, LooksAt(t), pc'[t] = pc[t], msg'[t] = msg[t],
         pc[t] \in Looking => moved'[t]
  PROVE  LooksAt(t)'
BY DEF LooksAt, Looking

LEMMA LooksAway ==
  ASSUME NEW t \in Threads, pc'[t] \notin {"search", "replace", "delete"}
  PROVE  LooksAt(t)'
BY DEF LooksAt

LEMMA GotoSplit ==
  ASSUME TInv, NEW t \in Threads, NEW l, NEW i, NEW mv, Goto(t, l, i, mv)
  PROVE  /\ pc'[t] = l /\ index'[t] = i /\ moved'[t] = mv
         /\ \A u \in Threads \ {t} :
              pc'[u] = pc[u] /\ index'[u] = index[u] /\ moved'[u] = moved[u]
BY DEF Goto, TInv, ThreadsOK

LEMMA MoveSplit ==
  ASSUME TInv, NEW t \in Threads, NEW l, MoveAndGoto(t, l)
  PROVE  /\ pc'[t] = l
         /\ \A u \in Threads \ {t} : pc'[u] = pc[u] /\ (pc[u] \in Looking => moved'[u])
BY DEF MoveAndGoto, TInv, ThreadsOK

\* Thread t goes on; the other one looks at the queue it looked at before.
LEMMA IndexAfterGoto ==
  ASSUME TInv, IndexInv, NEW t \in Threads, NEW l, NEW i, NEW mv,
         Goto(t, l, i, mv), msg' = msg, spoiled \subseteq spoiled', LooksAt(t)',
         DOMAIN queue' = DOMAIN queue,
         \A j \in DOMAIN queue : queue'[j].type = queue[j].type /\ queue'[j].sym = queue[j].sym
  PROVE  IndexInv'
<1> SUFFICES ASSUME NEW u \in Threads  PROVE LooksAt(u)'
  BY DEF IndexInv
<1>1. CASE u = t
  BY <1>1
<1>2. CASE u # t
  <2>1. pc'[u] = pc[u] /\ index'[u] = index[u] /\ moved'[u] = moved[u]
    BY <1>2, GotoSplit
  <2> QED  BY <2>1, LooksAtSame DEF IndexInv
<1> QED  BY <1>1, <1>2

\* Thread t has changed the length of the queue; the other one knows.
LEMMA IndexAfterMove ==
  ASSUME TInv, IndexInv, NEW t \in Threads, NEW l, MoveAndGoto(t, l), msg' = msg,
         l \notin {"search", "replace", "delete"}
  PROVE  IndexInv'
<1> SUFFICES ASSUME NEW u \in Threads  PROVE LooksAt(u)'
  BY DEF IndexInv
<1>1. CASE u = t
  BY <1>1, MoveSplit, LooksAway
<1>2. CASE u # t
  BY <1>2, MoveSplit, LooksAtMoved DEF IndexInv
<1> QED  BY <1>1, <1>2

\* What the steps of enqueue that touch the queue do to it.
LEMMA ReplaceEffect ==
  ASSUME TInv, IndexInv, NEW t \in Threads, Replace(t), "race" \notin spoiled'
  PROVE  /\ DOMAIN queue' = DOMAIN queue
         /\ \A i \in DOMAIN queue :
              queue'[i].type = queue[i].type /\ queue'[i].sym = queue[i].sym
         /\ \A i \in DOMAIN queue : IsAlert(queue[i]) => queue'[i] = queue[i]
<1>0. queue \in Seq(Message) /\ msg[t] \in Message
  BY DEF TInv, RestOK, ThreadsOK
<1>1. CASE index[t] \in DOMAIN queue
  <2>1. /\ queue' = [queue EXCEPT ![index[t]] = msg[t]]
        /\ ~moved[t] /\ "race" \notin spoiled /\ pc[t] = "replace"
    BY <1>1 DEF Replace
  <2>2. msg[t].type = queue[index[t]].type /\ msg[t].sym = queue[index[t]].sym
        /\ msg[t].type \in Coalescible
    BY <2>1 DEF IndexInv, LooksAt, SameStream
  <2>3. ~IsAlert(queue[index[t]])
    BY <2>2 DEF IsAlert, Coalescible
  <2>4. DOMAIN queue' = DOMAIN queue
        /\ \A i \in DOMAIN queue : queue'[i] = IF i = index[t] THEN msg[t] ELSE queue[i]
    BY <2>1, <1>0
  <2> QED  BY <2>2, <2>3, <2>4
<1>2. CASE index[t] \notin DOMAIN queue
  BY <1>2 DEF Replace
<1> QED  BY <1>1, <1>2

LEMMA DeleteEffect ==
  ASSUME TInv, IndexInv, NEW t \in Threads, Delete(t), "race" \notin spoiled',
         NEW i \in DOMAIN queue, IsAlert(queue[i])
  PROVE  \E j \in 1 .. i : j \in DOMAIN queue' /\ queue'[j] = queue[i]
<1>0. queue \in Seq(Message) /\ Len(queue) \in Nat /\ i \in 1 .. Len(queue)
  BY DEF TInv, RestOK
<1>1. CASE index[t] \in DOMAIN queue
  <2>1. queue' = RemoveAt(queue, index[t]) /\ ~moved[t] /\ pc[t] = "delete"
    BY <1>1 DEF Delete
  <2>2. index[t] \in 1 .. Len(queue)
    BY <1>1, <1>0
  <2>3. "race" \notin spoiled
    BY <1>1, <2>1 DEF Delete, Lose
  <2>4. Droppable(msg[t], queue[index[t]])
    BY <2>1, <2>3 DEF IndexInv, LooksAt
  <2>5. i # index[t]
    BY <2>4 DEF Droppable
  <2>6. /\ DOMAIN queue' = 1 .. Len(queue) - 1
        /\ \A j \in 1 .. Len(queue) - 1 :
             queue'[j] = IF j < index[t] THEN queue[j] ELSE queue[j + 1]
    <3>1. queue' \in Seq(Message) /\ Len(queue') = Len(queue) - 1
      BY <1>0, <2>1, <2>2, RemoveAtProperties
    <3>2. DOMAIN queue' = 1 .. Len(queue) - 1
      BY <3>1
    <3>3. \A j \in 1 .. Len(queue) - 1 :
            RemoveAt(queue, index[t])[j] =
              IF j < index[t] THEN queue[j] ELSE queue[j + 1]
      BY <1>0, <2>2, RemoveAtProperties
    <3> QED  BY <2>1, <3>2, <3>3
  <2>7. CASE i < index[t]
    <3>1. i \in 1 .. Len(queue) - 1 /\ i \in 1 .. i
      BY <1>0, <2>2, <2>7
    <3> QED  BY <3>1, <2>6, <2>7
  <2>8. CASE i > index[t]
    <3>1. i - 1 \in 1 .. Len(queue) - 1 /\ i - 1 \in 1 .. i
          /\ ~(i - 1 < index[t]) /\ (i - 1) + 1 = i
      BY <1>0, <2>2, <2>8
    <3>2. queue'[i - 1] = queue[(i - 1) + 1]
      BY <3>1, <2>6
    <3> QED  BY <3>1, <3>2, <2>6
  <2>9. i < index[t] \/ i > index[t]
    BY <2>5, <1>0, <2>2
  <2> QED  BY <2>7, <2>8, <2>9
<1>2. CASE index[t] \notin DOMAIN queue
  <2>1. queue' = queue /\ i \in 1 .. i
    BY <1>0, <1>2 DEF Delete
  <2> QED  BY <2>1
<1> QED  BY <1>1, <1>2

\* What has been spoiled stays spoiled.
LEMMA SpoiledStays ==
  ASSUME [Next]_vars  PROVE spoiled \subseteq spoiled'
<1> USE DEF restEnqueue, threadVars, flushVars, sourceVars, clientVars
<1>1. ASSUME NEW t \in Threads, EnqueueStep(t)  PROVE spoiled \subseteq spoiled'
  BY <1>1
  DEF EnqueueStep, Search, Replace, Check, Scan, Delete, Recheck, AppendMessage, Lose
<1>2. ASSUME NEW f \in Flushers, Flush(f)  PROVE spoiled \subseteq spoiled'
  BY <1>2 DEF Flush, FlushStart, Pop, DrainEnd, Send, SendFails
<1>3. CASE \/ TickStart \/ PublishEnd \/ Broadcast \/ BroadcastEnd
           \/ Join \/ Leave \/ Resume \/ Close
           \/ \E s \in Symbols, y \in DeltaTypes : Publish(s, y)
           \/ \E a \in Asks, s \in Symbols : Ask(a, s)
  BY <1>3 DEF TickStart, PublishEnd, Broadcast, BroadcastEnd, Join, Leave, Resume,
              Close, Publish, Ask
<1>4. CASE UNCHANGED vars
  BY <1>4 DEF vars
<1> QED  BY <1>1, <1>2, <1>3, <1>4 DEF Next, Tick, Worker, Threads

LEMMA EnqueueKeepsIndex ==
  ASSUME TInv, IndexInv, spoiled \subseteq spoiled', NEW t \in Threads, EnqueueStep(t)
  PROVE  IndexInv'
<1>0. /\ Return(t) \notin {"search", "replace", "delete"}
      /\ Raise(t) \notin {"search", "replace", "delete"}
      /\ queue \in Seq(Message) /\ LooksAt(t)
  BY DEF Return, Raise, TInv, RestOK, IndexInv
<1>1. \A l, i, mv : Goto(t, l, i, mv) /\ l \notin {"search", "replace", "delete"} => LooksAt(t)'
  BY GotoSplit, LooksAway
<1>2. CASE Search(t)
  <2>1. queue' = queue /\ msg' = msg /\ pc[t] = "search" /\ msg[t].type \in Coalescible
    BY <1>0, <1>2 DEF Search, restEnqueue, LooksAt
  <2>2. CASE Goto(t, "check", 0, FALSE) \/ Goto(t, Raise(t), 0, FALSE)
    BY <2>1, <2>2, <1>0, <1>1, IndexAfterGoto
  <2>3. CASE /\ index[t] \in DOMAIN queue /\ SameStream(msg[t], queue[index[t]])
             /\ Goto(t, "replace", index[t], moved[t])
    <3>1. LooksAt(t)'
      <4>1. pc'[t] = "replace" /\ index'[t] = index[t]
        BY <2>3, GotoSplit
      <4> QED  BY <2>1, <2>3, <4>1 DEF LooksAt, SameStream
    <3> QED  BY <2>1, <2>3, <3>1, IndexAfterGoto
  <2>4. CASE Goto(t, "search", index[t] - 1, moved[t])
    <3>1. LooksAt(t)'
      <4>1. pc'[t] = "search"
        BY <2>4, GotoSplit
      <4> QED  BY <2>1, <4>1 DEF LooksAt
    <3> QED  BY <2>1, <2>4, <3>1, IndexAfterGoto
  <2> QED  BY <1>2, <2>2, <2>3, <2>4 DEF Search
<1>3. CASE Replace(t)
  <2>1. msg' = msg /\ (Goto(t, Return(t), 0, FALSE) \/ Goto(t, Raise(t), 0, FALSE))
    BY <1>3 DEF Replace, restEnqueue
  <2>2. LooksAt(t)'
    BY <2>1, <1>0, <1>1
  <2>3. CASE "race" \notin spoiled'
    BY <2>1, <2>2, <2>3, <1>3, ReplaceEffect, IndexAfterGoto
  <2>4. CASE "race" \in spoiled'
    <3> SUFFICES ASSUME NEW u \in Threads  PROVE LooksAt(u)'
      BY DEF IndexInv
    <3>1. CASE u = t
      BY <3>1, <2>2
    <3>2. CASE u # t
      <4>1. pc'[u] = pc[u]
        BY <2>1, <3>2, GotoSplit
      <4> QED  BY <2>1, <2>4, <4>1 DEF IndexInv, LooksAt
    <3> QED  BY <3>1, <3>2
  <2> QED  BY <2>3, <2>4
<1>4. CASE Check(t)
  <2>1. queue' = queue /\ msg' = msg
    BY <1>4 DEF Check, restEnqueue
  <2>2. \/ Goto(t, "recheck", 0, FALSE) \/ Goto(t, "scan", 0, FALSE)
        \/ Goto(t, Return(t), 0, FALSE)
    BY <1>4 DEF Check
  <2> QED  BY <2>1, <2>2, <1>0, <1>1, IndexAfterGoto
<1>5. CASE Scan(t)
  <2>1. queue' = queue /\ msg' = msg
    BY <1>5 DEF Scan, restEnqueue
  <2>2. CASE Goto(t, Raise(t), 0, FALSE) \/ Goto(t, Return(t), 0, FALSE)
    BY <2>1, <2>2, <1>0, <1>1, IndexAfterGoto
  <2>3. ASSUME NEW first \in Victims(msg[t]), Goto(t, "delete", first, FALSE)
        PROVE  IndexInv'
    <3>1. first \in DOMAIN queue /\ Droppable(msg[t], queue[first])
      BY DEF Victims
    <3>2. pc'[t] = "delete" /\ index'[t] = first
      BY <2>3 DEF Goto, TInv, ThreadsOK
    <3>3. LooksAt(t)'
      BY <2>1, <3>1, <3>2 DEF LooksAt, Droppable, IsAlert, IsCritical
    <3> QED  BY <2>1, <2>3, <3>3, IndexAfterGoto
  <2> QED  BY <1>5, <2>2, <2>3 DEF Scan
<1>6. CASE Delete(t)
  <2>1. msg' = msg
    BY <1>6 DEF Delete, restEnqueue
  <2>2. CASE MoveAndGoto(t, "recheck")
    BY <2>1, <2>2, IndexAfterMove
  <2>3. CASE queue' = queue /\ Goto(t, Raise(t), 0, FALSE)
    BY <2>1, <2>3, <1>0, <1>1, IndexAfterGoto
  <2> QED  BY <1>6, <2>2, <2>3 DEF Delete
<1>7. CASE Recheck(t)
  <2>1. queue' = queue /\ msg' = msg
    BY <1>7 DEF Recheck, restEnqueue
  <2>2. Goto(t, Return(t), 0, FALSE) \/ Goto(t, "append", 0, FALSE)
    BY <1>7 DEF Recheck
  <2> QED  BY <2>1, <2>2, <1>0, <1>1, IndexAfterGoto
<1>8. CASE AppendMessage(t)
  BY <1>0, <1>8, IndexAfterMove DEF AppendMessage, restEnqueue
<1> QED  BY <1>2, <1>3, <1>4, <1>5, <1>6, <1>7, <1>8 DEF EnqueueStep

\* A step outside enqueue moves at most one thread, and not to a place where
\* it is about to use an index.
LEMMA OtherKeepsIndex ==
  ASSUME TInv, IndexInv, spoiled \subseteq spoiled', queue' = queue, NEW t \in Threads,
         pc'[t] \notin {"search", "replace", "delete"},
         \A u \in Threads \ {t} : /\ pc'[u] = pc[u] /\ msg'[u] = msg[u]
                                  /\ index'[u] = index[u] /\ moved'[u] = moved[u]
  PROVE  IndexInv'
<1> SUFFICES ASSUME NEW u \in Threads  PROVE LooksAt(u)'
  BY DEF IndexInv
<1> QED  BY LooksAway, LooksAtSame DEF IndexInv

\* Every step keeps the indices.
LEMMA IndexInductive ==
  ASSUME TInv, IndexInv, [Next]_vars
  PROVE  IndexInv'
<1> USE DEF threadVars
<1>0. /\ spoiled \subseteq spoiled' /\ "loop" \in Threads /\ "worker" \in Threads
      /\ pc \in [Threads -> LoopLabels \cup WorkerLabels]
  BY SpoiledStays DEF Threads, TInv, ThreadsOK
<1>1. CASE \E t \in Threads : EnqueueStep(t)
  BY <1>0, <1>1, EnqueueKeepsIndex
<1>2. CASE UNCHANGED threadVars /\ queue' = queue
  BY <1>0, <1>2, LooksAtSame DEF IndexInv
<1>3. CASE \E f \in Flushers : Pop(f)
  BY <1>0, <1>3, IndexAfterMove DEF Pop
<1>4. CASE Broadcast /\ ~UNCHANGED threadVars
  <2> DEFINE m == Head(batch)
  <2>1. Enqueue("loop", m) /\ queue' = queue
    BY <1>4 DEF Broadcast
  <2> HIDE DEF m
  <2>2. msg'["loop"] = m /\ msg'["worker"] = msg["worker"]
    BY <2>1, <1>0 DEF Enqueue, TInv, ThreadsOK
  <2>3. CASE m.type \in Coalescible
    <3>1. Goto("loop", "search", Len(queue), FALSE)
      BY <2>1, <2>3 DEF Enqueue
    <3>2. pc'["loop"] = "search" /\ msg'["loop"].type \in Coalescible
      BY <3>1, <2>2, <2>3, <1>0 DEF Goto
    <3>4. LooksAt("loop")'
      BY <3>2 DEF LooksAt
    <3>3. LooksAt("worker")'
      BY ZenonT(40), <3>1, <2>1, <2>2, <1>0, GotoSplit, LooksAtSame DEF IndexInv
    <3> QED  BY <3>3, <3>4 DEF IndexInv, Threads
  <2>4. CASE m.type \notin Coalescible
    <3>1. Goto("loop", "check", 0, FALSE)
      BY <2>1, <2>4 DEF Enqueue
    <3> QED  BY ZenonT(40), <3>1, <2>1, <2>2, <1>0, GotoSplit, OtherKeepsIndex DEF Threads
  <2> QED  BY <2>3, <2>4
<1>5. CASE TickStart \/ PublishEnd \/ BroadcastEnd
           \/ \E f \in Flushers : FlushStart(f) \/ DrainEnd(f)
  <2>1. /\ queue' = queue /\ UNCHANGED <<msg, index, moved>>
        /\ pc' = pc \/ \E l \in {"publish", "broadcast", "free", "drain"} :
                          pc' = [pc EXCEPT !["loop"] = l]
    BY <1>5 DEF TickStart, PublishEnd, BroadcastEnd, FlushStart, DrainEnd, LoopGoes
  <2>2. CASE pc' = pc
    BY <1>2, <2>1, <2>2
  <2>3. CASE pc' # pc
    <3>1. pc'["loop"] \notin {"search", "replace", "delete"} /\ pc'["worker"] = pc["worker"]
      BY <2>1, <2>3, <1>0
    <3> QED  BY <2>1, <3>1, <1>0, OtherKeepsIndex DEF Threads
  <2> QED  BY <2>2, <2>3
<1>6. CASE Join \/ Leave
  <2>1. /\ queue' = queue /\ msg' = msg
        /\ Goto("worker", "check", 0, FALSE) \/ Goto("worker", "return", 0, FALSE)
    BY <1>6 DEF Join, Leave
  <2> QED  BY <2>1, <1>0, GotoSplit, OtherKeepsIndex DEF Threads
<1>7. CASE Resume
  <2>1. /\ queue' = queue /\ pc'["worker"] = "free" /\ UNCHANGED <<index, moved>>
        /\ pc'["loop"] = pc["loop"] /\ msg'["loop"] = msg["loop"]
    BY <1>0, <1>7 DEF Resume, TInv, ThreadsOK
  <2> QED  BY <2>1, <1>0, OtherKeepsIndex DEF Threads
<1>8. ASSUME NEW a \in Asks, NEW s \in Symbols, Ask(a, s)
      PROVE  IndexInv'
  <2>1. /\ queue' = queue /\ msg'["loop"] = msg["loop"]
        /\ \/ Goto("worker", "join", 0, FALSE) \/ Goto("worker", "leave", 0, FALSE)
           \/ Goto("worker", "check", 0, FALSE)
    BY <1>0, <1>8 DEF Ask, TInv, ThreadsOK
  <2> QED  BY ZenonT(40), <2>1, <1>0, GotoSplit, OtherKeepsIndex DEF Threads
<1>9. CASE Close \/ (\E f \in Flushers : Send(f) \/ SendFails(f))
           \/ \E s \in Symbols, y \in DeltaTypes : Publish(s, y)
  BY <1>2, <1>9 DEF Close, Send, SendFails, Publish
<1>10. CASE Broadcast /\ UNCHANGED threadVars
  BY <1>2, <1>10 DEF Broadcast
<1>11. CASE UNCHANGED vars
  BY <1>2, <1>11 DEF vars
<1> QED
  BY <1>1, <1>3, <1>4, <1>5, <1>6, <1>7, <1>8, <1>9, <1>10, <1>11
  DEF Next, Tick, Worker, Flush, Threads

\* An index about to be used on a queue that has not moved is the one meant.
THEOREM SpecIndex == Spec => []IndexInv
<1>1. Init => IndexInv
  BY DEF Init, IndexInv, LooksAt, Threads
<1> QED  BY <1>1, IndexInductive, SpecTypes, PTL DEF Spec

\* One step keeps every queued alert, but for the popleft of the first.
LEMMA StepKeepsAlerts ==
  ASSUME TInv, IndexInv, [Next]_vars,
         NEW i \in DOMAIN queue, IsAlert(queue[i]), "race" \notin spoiled'
  PROVE  Keeps(i)
<1> USE DEF threadVars
<1>0. queue \in Seq(Message) /\ i \in 1 .. Len(queue) /\ i \in 1 .. i
  BY DEF TInv, RestOK
<1>1. CASE queue' = queue
  BY <1>0, <1>1 DEF Keeps
<1>2. ASSUME NEW t \in Threads, Replace(t)  PROVE Keeps(i)
  BY <1>0, <1>2, ReplaceEffect DEF Keeps
<1>3. ASSUME NEW t \in Threads, Delete(t)  PROVE Keeps(i)
  BY <1>3, DeleteEffect DEF Keeps
<1>4. ASSUME NEW t \in Threads, AppendMessage(t)  PROVE Keeps(i)
  <2>1. queue' = Append(queue, msg[t])
    BY <1>4 DEF AppendMessage
  <2>2. i \in DOMAIN queue' /\ queue'[i] = queue[i]
    BY <2>1, <1>0
  <2> QED  BY <2>2, <1>0 DEF Keeps
<1>5. ASSUME NEW f \in Flushers, Pop(f)  PROVE Keeps(i)
  <2>1. queue' = Tail(queue) /\ pc["loop"] = "drain"
    BY <1>5 DEF Pop
  <2>2. CASE i = 1
    BY <2>1, <2>2 DEF Keeps
  <2>3. CASE i # 1
    <3>1. i - 1 \in DOMAIN queue' /\ queue'[i - 1] = queue[i] /\ i - 1 \in 1 .. i
      BY <2>1, <2>3, <1>0
    <3> QED  BY <3>1 DEF Keeps
  <2> QED  BY <2>2, <2>3
<1>6. CASE \E t \in Threads : Search(t) \/ Check(t) \/ Scan(t) \/ Recheck(t)
  BY <1>1, <1>6 DEF Search, Check, Scan, Recheck
<1>7. CASE \/ TickStart \/ PublishEnd \/ Broadcast \/ BroadcastEnd
           \/ Join \/ Leave \/ Resume \/ Close
           \/ \E s \in Symbols, y \in DeltaTypes : Publish(s, y)
           \/ \E a \in Asks, s \in Symbols : Ask(a, s)
           \/ \E f \in Flushers : FlushStart(f) \/ DrainEnd(f) \/ Send(f) \/ SendFails(f)
  BY <1>1, <1>7
  DEF TickStart, PublishEnd, Broadcast, BroadcastEnd, Join, Leave, Resume, Close,
      Publish, Ask, FlushStart, DrainEnd, Send, SendFails
<1>8. CASE UNCHANGED vars
  BY <1>1, <1>8 DEF vars
<1> QED
  BY <1>2, <1>3, <1>4, <1>5, <1>6, <1>7, <1>8
  DEF Next, Tick, Worker, EnqueueStep, Flush, Threads

\* Only the drain takes an alert out of the queue, as long as no thread has
\* used an index after the other one moved the queue.
THEOREM AlertsKeptHolds == Spec => AlertsKept
<1>1. TInv /\ IndexInv /\ [Next]_vars =>
        [\A i \in DOMAIN queue :
           IsAlert(queue[i]) => Keeps(i) \/ "race" \in spoiled']_vars
  BY StepKeepsAlerts
<1> QED  BY <1>1, SpecTypes, SpecIndex, PTL DEF Spec, AlertsKept

-----------------------------------------------------------------------------
(* Who enqueues what.  Only the loop enqueues deltas, one at a time; the   *)
(* worker enqueues the response to the one request the handler waits for.  *)

\* Thread t is on its way through enqueue with msg[t].
Coming(t) ==
  pc[t] \in {"join", "search", "replace", "check", "scan", "delete", "recheck",
             "append"}

KindInv ==
  /\ msg["worker"].type \in Critical \cup {"health"}
  /\ Coming("loop") => msg["loop"].type \in DeltaTypes
  /\ \A i \in DOMAIN batch : batch[i].type \in DeltaTypes

\* What is in the queue and around it stays, and no thread sets out.
Still ==
  /\ UNCHANGED <<queue, pending, batch, published, answered, state, shown, wire>>
  /\ \A t \in Threads : Coming(t)' => Coming(t) /\ msg'[t] = msg[t]

\* A step of enqueue moves its own thread, which was on its way through.
LEMMA EnqueueComing ==
  ASSUME TInv, NEW t \in Threads, EnqueueStep(t)
  PROVE  /\ msg' = msg /\ Coming(t)
         /\ \A u \in Threads : Coming(u)' => Coming(u)
         /\ \A u \in Threads \ {t} :
              pc'[u] = pc[u] /\ index'[u] = index[u]
<1>1. msg' = msg /\ Coming(t)
  BY DEF EnqueueStep, Search, Replace, Check, Scan, Delete, Recheck, AppendMessage,
         restEnqueue, Coming
<1>2. (\E l, i, mv : Goto(t, l, i, mv)) \/ (\E l : MoveAndGoto(t, l))
  BY DEF EnqueueStep, Search, Replace, Check, Scan, Delete, Recheck, AppendMessage
<1>3. \A u \in Threads \ {t} : pc'[u] = pc[u] /\ index'[u] = index[u]
  BY <1>2 DEF Goto, MoveAndGoto, TInv, ThreadsOK
<1> QED  BY <1>1, <1>3 DEF Coming

\* The steps that touch what is on its way; all others leave it as it is.
LEMMA StepKinds ==
  ASSUME TInv, [Next]_vars
  PROVE  \/ Still
         \/ \E t \in Threads : Replace(t) /\ index[t] \in DOMAIN queue
         \/ \E t \in Threads : Delete(t) /\ index[t] \in DOMAIN queue
         \/ \E t \in Threads : AppendMessage(t)
         \/ Broadcast
         \/ \E s \in Symbols, y \in DeltaTypes : Publish(s, y)
         \/ \E f \in Flushers : Pop(f) \/ DrainEnd(f) \/ Send(f) \/ SendFails(f)
         \/ \E a \in Asks, s \in Symbols : Ask(a, s)
<1> USE DEF flushVars, sourceVars, clientVars, threadVars
<1>1. ASSUME NEW t \in Threads, EnqueueStep(t)
      PROVE  \/ Still
             \/ Replace(t) /\ index[t] \in DOMAIN queue
             \/ Delete(t) /\ index[t] \in DOMAIN queue
             \/ AppendMessage(t)
  <2>1. CASE Search(t) \/ Check(t) \/ Scan(t) \/ Recheck(t)
    BY <1>1, <2>1, EnqueueComing DEF Search, Check, Scan, Recheck, restEnqueue, Still
  <2>2. CASE Replace(t) \/ Delete(t)
    BY <1>1, <2>2, EnqueueComing DEF Replace, Delete, restEnqueue, Still
  <2> QED  BY <1>1, <2>1, <2>2 DEF EnqueueStep
<1>2. CASE TickStart \/ PublishEnd \/ BroadcastEnd \/ \E f \in Flushers : FlushStart(f)
  <2>1. \A t \in Threads : Coming(t)' => Coming(t)
    BY <1>2 DEF TickStart, PublishEnd, BroadcastEnd, FlushStart, LoopGoes, Coming,
                TInv, ThreadsOK
  <2> QED  BY <1>2, <2>1 DEF TickStart, PublishEnd, BroadcastEnd, FlushStart, Still
<1>3. CASE Join \/ Leave
  <2>1. \A t \in Threads : Coming(t)' => Coming(t)
    BY <1>3 DEF Join, Leave, Goto, Coming, TInv, ThreadsOK
  <2> QED  BY <1>3, <2>1 DEF Join, Leave, Still
<1>4. CASE Resume
  <2>1. ~Coming("worker")' /\ (Coming("loop")' => Coming("loop"))
        /\ msg'["loop"] = msg["loop"]
    BY <1>4 DEF Resume, Coming, TInv, ThreadsOK, Threads
  <2> QED  BY <1>4, <2>1 DEF Resume, Still, Threads
<1>5. CASE Close \/ UNCHANGED vars
  <2>1. \A t \in Threads : Coming(t)' => Coming(t)
    BY <1>5 DEF Close, vars, Coming
  <2> QED  BY <1>5, <2>1 DEF Close, vars, Still
<1> QED  BY <1>1, <1>2, <1>3, <1>4, <1>5 DEF Next, Tick, Worker, Flush, Threads

\* Every step keeps what the two threads may enqueue.
LEMMA KindInductive ==
  ASSUME TInv, KindInv, [Next]_vars
  PROVE  KindInv'
<1> USE DEF flushVars, sourceVars, clientVars, threadVars
<1>0. /\ pc \in [Threads -> LoopLabels \cup WorkerLabels] /\ msg \in [Threads -> Message]
      /\ batch \in Seq(Message) /\ "loop" \in Threads /\ "worker" \in Threads
      /\ Health.type = "health"
  BY DEF TInv, ThreadsOK, RestOK, Threads, Health
<1>1. ASSUME UNCHANGED <<msg, batch>>, Coming("loop")' => Coming("loop")
      PROVE  KindInv'
  BY <1>1 DEF KindInv
<1>2. ASSUME NEW t \in Threads, EnqueueStep(t)  PROVE KindInv'
  <2>1. batch' = batch
    BY <1>2 DEF EnqueueStep, Search, Replace, Check, Scan, Delete, Recheck,
                AppendMessage, restEnqueue
  <2> QED  BY <1>0, <1>1, <1>2, <2>1, EnqueueComing
<1>3. CASE TickStart \/ PublishEnd \/ BroadcastEnd
           \/ \E f \in Flushers : FlushStart(f) \/ DrainEnd(f)
  <2>1. Coming("loop")' => Coming("loop")
    BY <1>0, <1>3 DEF TickStart, PublishEnd, BroadcastEnd, FlushStart, DrainEnd,
                      LoopGoes, Coming
  <2> QED  BY <1>1, <1>3, <2>1 DEF TickStart, PublishEnd, BroadcastEnd, FlushStart, DrainEnd
<1>4. CASE \E f \in Flushers : Pop(f) \/ Send(f) \/ SendFails(f)
  <2>1. Coming("loop")' => Coming("loop")
    BY <1>0, <1>4 DEF Pop, Send, SendFails, MoveAndGoto, Coming
  <2> QED  BY <1>1, <1>4, <2>1 DEF Pop, Send, SendFails
<1>5. CASE Join \/ Leave \/ Close \/ UNCHANGED vars
  <2>1. Coming("loop")' => Coming("loop")
    BY <1>0, <1>5 DEF Join, Leave, Close, vars, Goto, Coming, Threads
  <2> QED  BY <1>1, <1>5, <2>1 DEF Join, Leave, Close, vars
<1>6. CASE Resume
  <2>1. /\ batch' = batch /\ msg'["loop"] = msg["loop"] /\ msg'["worker"] = Health
        /\ pc'["loop"] = pc["loop"]
    BY <1>0, <1>6 DEF Resume, Threads
  <2> QED  BY <1>0, <2>1 DEF KindInv, Coming
<1>7. ASSUME NEW a \in Asks, NEW s \in Symbols, Ask(a, s)
      PROVE  KindInv'
  <2> DEFINE m == [Response(a, s) EXCEPT !.sym = IF a = "unsubscribe" THEN s ELSE @]
  <2>1. m.type \in Critical \cup {"health"}
    BY DEF Response, ResponseType, Health, Critical
  <2>2. msg' = [msg EXCEPT !["worker"] = m] /\ batch' = batch /\ pc'["loop"] = pc["loop"]
    BY <1>0, <1>7 DEF Ask, Goto, Threads
  <2> HIDE DEF m
  <2>3. msg'["worker"] = m /\ msg'["loop"] = msg["loop"]
    BY <1>0, <2>2 DEF Threads
  <2> QED  BY <2>1, <2>2, <2>3 DEF KindInv, Coming
<1>8. CASE Broadcast
  <2>1. Tail(batch) \in Seq(Message) /\ Len(Tail(batch)) = Len(batch) - 1
        /\ \A i \in 1 .. Len(batch) - 1 : Tail(batch)[i] = batch[i + 1]
        /\ Head(batch) = batch[1] /\ 1 \in DOMAIN batch
    BY <1>0, <1>8 DEF Broadcast
  <2>2. \A i \in DOMAIN batch' : batch'[i].type \in DeltaTypes
    <3> SUFFICES ASSUME NEW i \in DOMAIN batch'  PROVE batch'[i].type \in DeltaTypes
      OBVIOUS
    <3>1. batch' = Tail(batch)
      BY <1>8 DEF Broadcast
    <3>2. i \in 1 .. Len(batch) - 1 /\ i + 1 \in DOMAIN batch
      BY <1>0, <2>1, <3>1
    <3>3. batch'[i] = batch[i + 1]
      BY <2>1, <3>1, <3>2
    <3> QED  BY <3>2, <3>3 DEF KindInv
  <2>3. CASE Enqueue("loop", Head(batch))
    <3>1. msg'["loop"] = batch[1] /\ msg'["worker"] = msg["worker"]
      BY <1>0, <2>1, <2>3 DEF Enqueue, Threads
    <3> QED  BY <2>1, <2>2, <3>1 DEF KindInv
  <2>4. CASE UNCHANGED threadVars
    BY <2>2, <2>4 DEF KindInv, Coming
  <2> QED  BY <1>8, <2>3, <2>4 DEF Broadcast
<1>9. ASSUME NEW s \in Symbols, NEW y \in DeltaTypes, Publish(s, y)
      PROVE  KindInv'
  <2>1. PICK m : batch' = Append(batch, m) /\ m.type = y
    BY <1>9 DEF Publish
  <2>2. \A i \in DOMAIN batch' : batch'[i].type \in DeltaTypes
    <3>1. \A i \in DOMAIN batch' :
            (i \in DOMAIN batch /\ batch'[i] = batch[i]) \/ batch'[i] = m
      BY <1>0, <2>1
    <3> QED  BY <2>1, <3>1 DEF KindInv
  <2> QED  BY <1>9, <2>2 DEF Publish, KindInv, Coming
<1> QED
  BY <1>2, <1>3, <1>4, <1>5, <1>6, <1>7, <1>8, <1>9
  DEF Next, Tick, Worker, Flush, Threads

\* The loop enqueues deltas only, the worker responses only.
THEOREM SpecKinds == Spec => []KindInv
<1>1. Init => KindInv
  BY DEF Init, KindInv, Coming, Threads, Health
<1>2. TInv /\ KindInv /\ [Next]_vars => KindInv'
  BY KindInductive
<1> QED  BY <1>1, <1>2, SpecTypes, PTL DEF Spec

-----------------------------------------------------------------------------
(* Coalescing.  A coalescible message is appended only when the search has *)
(* found no predecessor; while it searches, the worker takes messages out  *)
(* and appends its response, but brings no delta.                          *)

\* The search of the loop has looked at every index above this one.
Searched == IF pc["loop"] = "search" THEN index["loop"] ELSE 0

SearchInv ==
  "race" \notin spoiled =>
    /\ Coalesced
    /\ Coming("loop") /\ pc["loop"] # "replace" /\ msg["loop"].type \in Coalescible =>
         \A i \in DOMAIN queue : i > Searched => ~SameStream(msg["loop"], queue[i])

\* The queue holds what it held, in that order, less what was taken out.
Thinned ==
  \E g \in [DOMAIN queue' -> DOMAIN queue] :
    /\ \A i \in DOMAIN queue' : g[i] >= i /\ queue'[i] = queue[g[i]]
    /\ \A i, j \in DOMAIN queue' : i < j => g[i] < g[j]

\* The steps that thin the queue: none, a deletion, a popleft.
LEMMA SameThinned ==
  ASSUME TInv, queue' = queue  PROVE Thinned
<1>0. queue \in Seq(Message) /\ DOMAIN queue = 1 .. Len(queue) /\ Len(queue) \in Nat
  BY DEF TInv, RestOK
<1> DEFINE g == [i \in DOMAIN queue |-> i]
<1>1. g \in [DOMAIN queue' -> DOMAIN queue] /\ \A i \in DOMAIN queue' : g[i] = i
  OBVIOUS
<1> HIDE DEF g
<1>2. \A i \in DOMAIN queue' : g[i] >= i /\ queue'[i] = queue[g[i]]
  BY <1>0, <1>1
<1>3. \A i, j \in DOMAIN queue' : i < j => g[i] < g[j]
  BY <1>1
<1> QED  BY <1>1, <1>2, <1>3 DEF Thinned

LEMMA DeleteThins ==
  ASSUME TInv, NEW t \in Threads, Delete(t)  PROVE Thinned
<1>0. queue \in Seq(Message) /\ DOMAIN queue = 1 .. Len(queue) /\ Len(queue) \in Nat
  BY DEF TInv, RestOK
<1>1. CASE index[t] \notin DOMAIN queue
  BY <1>1, SameThinned DEF Delete
<1>2. CASE index[t] \in DOMAIN queue
  <2> DEFINE k == index[t]
             g == [i \in 1 .. Len(queue) - 1 |-> IF i < k THEN i ELSE i + 1]
  <2>1. queue' = RemoveAt(queue, k) /\ k \in 1 .. Len(queue)
    BY <1>0, <1>2 DEF Delete
  <2> HIDE DEF k
  <2>2. /\ queue' \in Seq(Message) /\ Len(queue') = Len(queue) - 1
        /\ \A j \in 1 .. Len(queue) - 1 : queue'[j] = IF j < k THEN queue[j] ELSE queue[j + 1]
    BY <1>0, <2>1, RemoveAtProperties
  <2>3. DOMAIN queue' = 1 .. Len(queue) - 1
    BY <2>2
  <2>4. \A i \in DOMAIN queue' : g[i] = IF i < k THEN i ELSE i + 1
    BY <2>3
  <2>5. g \in [DOMAIN queue' -> DOMAIN queue]
    BY <1>0, <2>1, <2>3
  <2> HIDE DEF g
  <2>6. \A i \in DOMAIN queue' : g[i] >= i /\ queue'[i] = queue[g[i]]
    BY <1>0, <2>1, <2>2, <2>3, <2>4
  <2>7. \A i, j \in DOMAIN queue' : i < j => g[i] < g[j]
    BY <1>0, <2>1, <2>3, <2>4
  <2> QED  BY <2>5, <2>6, <2>7 DEF Thinned
<1> QED  BY <1>1, <1>2

LEMMA PopThins ==
  ASSUME TInv, NEW f \in Flushers, Pop(f)
  PROVE  /\ Thinned
         /\ 1 \in DOMAIN queue /\ Head(queue) = queue[1]
         /\ DOMAIN queue' = 1 .. Len(queue) - 1
         /\ \A i \in DOMAIN queue' : i + 1 \in DOMAIN queue /\ queue'[i] = queue[i + 1]
<1>0. queue \in Seq(Message) /\ DOMAIN queue = 1 .. Len(queue) /\ Len(queue) \in Nat
  BY DEF TInv, RestOK
<1>1. queue' = Tail(queue) /\ queue # <<>>
  BY DEF Pop
<1>2. 1 \in DOMAIN queue /\ Head(queue) = queue[1]
  BY <1>0, <1>1
<1>3. /\ DOMAIN queue' = 1 .. Len(queue) - 1
      /\ \A i \in DOMAIN queue' : i + 1 \in DOMAIN queue /\ queue'[i] = queue[i + 1]
  BY <1>0, <1>1
<1> DEFINE g == [i \in 1 .. Len(queue) - 1 |-> i + 1]
<1>4. g \in [DOMAIN queue' -> DOMAIN queue] /\ \A i \in DOMAIN queue' : g[i] = i + 1
  BY <1>0, <1>3
<1> HIDE DEF g
<1>5. \A i \in DOMAIN queue' : g[i] >= i /\ queue'[i] = queue[g[i]]
  BY <1>0, <1>3, <1>4
<1>6. \A i, j \in DOMAIN queue' : i < j => g[i] < g[j]
  BY <1>0, <1>3, <1>4
<1> QED  BY <1>2, <1>3, <1>4, <1>5, <1>6 DEF Thinned

\* Nor does appending bring a second delta, if there is none to find.
LEMMA AppendShape ==
  ASSUME TInv, NEW t \in Threads, AppendMessage(t)
  PROVE  /\ Len(queue) \in Nat /\ DOMAIN queue = 1 .. Len(queue)
         /\ DOMAIN queue' = 1 .. Len(queue) + 1
         /\ queue'[Len(queue) + 1] = msg[t]
         /\ \A i \in DOMAIN queue : queue'[i] = queue[i]
<1>0. queue \in Seq(Message) /\ DOMAIN queue = 1 .. Len(queue) /\ Len(queue) \in Nat
  BY DEF TInv, RestOK
<1>1. queue' = Append(queue, msg[t])
  BY DEF AppendMessage
<1> QED  BY <1>0, <1>1

\* A queue without two deltas of a stream has none after it was thinned.
LEMMA ThinnedCoalesces ==
  ASSUME TInv, TInv', Thinned, "race" \notin spoiled, Coalesced
  PROVE  Coalesced'
<1>0. DOMAIN queue \subseteq Nat /\ DOMAIN queue' \subseteq Nat
  BY DEF TInv, RestOK
<1>1. PICK g \in [DOMAIN queue' -> DOMAIN queue] :
        /\ \A i \in DOMAIN queue' : g[i] >= i /\ queue'[i] = queue[g[i]]
        /\ \A i, j \in DOMAIN queue' : i < j => g[i] < g[j]
  BY DEF Thinned
<1> SUFFICES ASSUME NEW i \in DOMAIN queue', NEW j \in DOMAIN queue',
                    queue'[i].type \in Coalescible,
                    queue'[i].type = queue'[j].type, queue'[i].sym = queue'[j].sym
             PROVE  i = j
  BY DEF Coalesced
<1>2. g[i] \in DOMAIN queue /\ g[j] \in DOMAIN queue
      /\ queue'[i] = queue[g[i]] /\ queue'[j] = queue[g[j]]
  BY <1>1
<1>3. g[i] = g[j]
  BY <1>2 DEF Coalesced
<1>4. i \in Nat /\ j \in Nat /\ g[i] \in Nat /\ g[j] \in Nat
  BY <1>0, <1>2
<1> QED  BY <1>1, <1>3, <1>4

\* A queue that was thinned holds no more of a stream than it did.
LEMMA ThinnedSearched ==
  ASSUME TInv, TInv', Thinned, NEW m, NEW k \in Nat,
         \A i \in DOMAIN queue : i > k => ~SameStream(m, queue[i])
  PROVE  \A i \in DOMAIN queue' : i > k => ~SameStream(m, queue'[i])
<1>0. DOMAIN queue \subseteq Nat /\ DOMAIN queue' \subseteq Nat
  BY DEF TInv, RestOK
<1>1. PICK g \in [DOMAIN queue' -> DOMAIN queue] :
        /\ \A i \in DOMAIN queue' : g[i] >= i /\ queue'[i] = queue[g[i]]
        /\ \A i, j \in DOMAIN queue' : i < j => g[i] < g[j]
  BY DEF Thinned
<1> SUFFICES ASSUME NEW i \in DOMAIN queue', i > k  PROVE ~SameStream(m, queue'[i])
  OBVIOUS
<1>2. g[i] \in DOMAIN queue /\ g[i] >= i /\ queue'[i] = queue[g[i]]
  BY <1>1
<1>3. g[i] > k
  BY <1>0, <1>2
<1> QED  BY <1>2, <1>3

\* While it enqueues, only the loop itself moves the loop.
LEMMA LoopStands ==
  ASSUME TInv, [Next]_vars, ~EnqueueStep("loop"), ~Broadcast, Coming("loop")'
  PROVE  /\ Coming("loop") /\ pc'["loop"] = pc["loop"]
         /\ index'["loop"] = index["loop"] /\ msg'["loop"] = msg["loop"]
<1> USE DEF flushVars, sourceVars, clientVars, threadVars
<1>0. /\ pc \in [Threads -> LoopLabels \cup WorkerLabels] /\ msg \in [Threads -> Message]
      /\ index \in [Threads -> Nat] /\ "loop" \in Threads /\ "worker" \in Threads
  BY DEF TInv, ThreadsOK, Threads
<1>1. CASE EnqueueStep("worker")
  BY <1>0, <1>1, EnqueueComing DEF Coming
<1>2. CASE TickStart \/ PublishEnd \/ BroadcastEnd
           \/ \E f \in Flushers : FlushStart(f) \/ DrainEnd(f)
  BY <1>0, <1>2 DEF TickStart, PublishEnd, BroadcastEnd, FlushStart, DrainEnd,
                    LoopGoes, Coming
<1>3. CASE \E f \in Flushers : Pop(f)
  BY <1>0, <1>3 DEF Pop, MoveAndGoto, Coming
<1>4. CASE Join \/ Leave \/ Resume \/ \E a \in Asks, s \in Symbols : Ask(a, s)
  BY <1>0, <1>4 DEF Join, Leave, Resume, Ask, Goto, Coming
<1>5. CASE Close \/ (\E f \in Flushers : Send(f) \/ SendFails(f))
           \/ \E s \in Symbols, y \in DeltaTypes : Publish(s, y)
  BY <1>5 DEF Close, Send, SendFails, Publish, Coming
<1>6. CASE UNCHANGED vars
  BY <1>6 DEF vars, Coming
<1> QED
  BY <1>1, <1>2, <1>3, <1>4, <1>5, <1>6 DEF Next, Tick, Worker, Flush, Threads

\* The worker's steps and the drain.
LEMMA WorkerCoalesces ==
  ASSUME TInv, TInv', IndexInv, KindInv, SearchInv, EnqueueStep("worker"),
         "race" \notin spoiled'
  PROVE  SearchInv'
<1>0. /\ queue \in Seq(Message) /\ "worker" \in Threads /\ "loop" \in Threads
      /\ msg["worker"].type \notin Coalescible /\ Searched \in Nat
      /\ spoiled \subseteq spoiled'
  <2>1. spoiled \subseteq spoiled'
    BY SpoiledStays DEF Next, Worker
  <2> QED
    BY <2>1 DEF TInv, ThreadsOK, RestOK, Threads, KindInv, Coalescible, Critical, Searched
<1>1. "race" \notin spoiled /\ Coalesced
  BY <1>0 DEF SearchInv
<1>2. /\ msg' = msg /\ pc'["loop"] = pc["loop"] /\ index'["loop"] = index["loop"]
      /\ Coming("loop")' = Coming("loop") /\ Searched' = Searched
  BY <1>0, EnqueueComing DEF Coming, Searched
<1>3. CASE Thinned
  <2>1. Coalesced'
    BY <1>1, <1>3, ThinnedCoalesces
  <2> QED  BY <1>0, <1>1, <1>2, <1>3, <2>1, ThinnedSearched DEF SearchInv
<1>4. CASE AppendMessage("worker")
  <2> DEFINE n == Len(queue) + 1
  <2>1. /\ DOMAIN queue = 1 .. Len(queue) /\ Len(queue) \in Nat
        /\ DOMAIN queue' = 1 .. n /\ queue'[n] = msg["worker"]
        /\ \A i \in DOMAIN queue : queue'[i] = queue[i]
    BY <1>0, <1>4, AppendShape
  <2>2. \A i \in DOMAIN queue' : queue'[i].type \in Coalescible =>
          i \in DOMAIN queue /\ queue'[i] = queue[i]
    <3>1. \A i \in DOMAIN queue' : i \in DOMAIN queue \/ i = n
      BY <2>1
    <3> QED  BY <1>0, <2>1, <3>1
  <2>3. Coalesced'
    BY <1>1, <2>2 DEF Coalesced
  <2>4. \A m : m.type \in Coalescible =>
          \A i \in DOMAIN queue' : SameStream(m, queue'[i]) =>
            i \in DOMAIN queue /\ SameStream(m, queue[i])
    BY <2>2 DEF SameStream
  <2> QED  BY <1>1, <1>2, <2>3, <2>4 DEF SearchInv
<1>5. CASE Search("worker") \/ Replace("worker")
  BY <1>0, <1>5 DEF Search, Replace, IndexInv, LooksAt
<1>6. CASE Delete("worker")
  BY <1>0, <1>3, <1>6, DeleteThins
<1>7. CASE Check("worker") \/ Scan("worker") \/ Recheck("worker")
  BY <1>3, <1>7, SameThinned DEF Check, Scan, Recheck
<1> QED  BY <1>4, <1>5, <1>6, <1>7 DEF EnqueueStep

\* The loop's steps: an overwritten delta is of the same stream, and one is
\* appended only after the search has found none.
LEMMA LoopCoalesces ==
  ASSUME TInv, TInv', IndexInv, KindInv, SearchInv, EnqueueStep("loop"),
         "race" \notin spoiled'
  PROVE  SearchInv'
<1>0. /\ queue \in Seq(Message) /\ "loop" \in Threads /\ spoiled \subseteq spoiled'
      /\ index["loop"] \in Nat /\ DOMAIN queue \subseteq Nat
  <2>1. spoiled \subseteq spoiled'
    BY SpoiledStays DEF Next, Tick
  <2> QED  BY <2>1 DEF TInv, ThreadsOK, RestOK, Threads
<1>1. "race" \notin spoiled /\ Coalesced
  BY <1>0 DEF SearchInv
<1>2. msg' = msg /\ Coming("loop")
  BY <1>0, EnqueueComing
<1> DEFINE m == msg["loop"]
<1>3. ASSUME pc["loop"] # "replace", m.type \in Coalescible
      PROVE  \A i \in DOMAIN queue : i > Searched => ~SameStream(m, queue[i])
  BY <1>1, <1>2, <1>3 DEF SearchInv
<1>4. Return("loop") = "broadcast" /\ Raise("loop") = "stopped"
  BY DEF Return, Raise
<1>5. \A l, i, mv : Goto("loop", l, i, mv) => pc'["loop"] = l /\ index'["loop"] = i
  BY <1>0, GotoSplit
<1>6. \A l : MoveAndGoto("loop", l) => pc'["loop"] = l
  BY <1>0, MoveSplit
<1>7. CASE Search("loop")
  <2>1. queue' = queue /\ pc["loop"] = "search" /\ Searched = index["loop"]
    BY <1>7 DEF Search, Searched
  <2>2. Coalesced'
    BY <1>1, <2>1 DEF Coalesced
  <2>3. CASE index["loop"] = 0 /\ Goto("loop", "check", 0, FALSE)
    <3>1. Searched' = 0
      BY <1>5, <2>3 DEF Searched
    <3> QED  BY <1>2, <1>3, <2>1, <2>2, <2>3, <3>1 DEF SearchInv
  <2>4. CASE Goto("loop", Raise("loop"), 0, FALSE)
    BY <1>4, <1>5, <2>2, <2>4 DEF SearchInv, Coming
  <2>5. CASE Goto("loop", "replace", index["loop"], moved["loop"])
    BY <1>5, <2>2, <2>5 DEF SearchInv
  <2>6. CASE /\ index["loop"] \in DOMAIN queue /\ ~SameStream(m, queue[index["loop"]])
             /\ Goto("loop", "search", index["loop"] - 1, moved["loop"])
    <3>1. Searched' = index["loop"] - 1
      BY <1>5, <2>6 DEF Searched
    <3>2. \A i \in DOMAIN queue : i > index["loop"] - 1 => i > index["loop"] \/ i = index["loop"]
      BY <1>0
    <3>3. m.type \in Coalescible =>
            \A i \in DOMAIN queue : i > Searched' => ~SameStream(m, queue[i])
      BY <1>3, <2>1, <2>6, <3>1, <3>2
    <3> QED  BY <1>2, <2>1, <2>2, <3>3 DEF SearchInv
  <2> QED  BY <1>7, <2>3, <2>4, <2>5, <2>6 DEF Search
<1>8. CASE Replace("loop")
  <2>1. Goto("loop", Return("loop"), 0, FALSE) \/ Goto("loop", Raise("loop"), 0, FALSE)
    BY <1>8 DEF Replace
  <2>2. ~Coming("loop")'
    BY <1>4, <1>5, <2>1 DEF Coming
  <2>3. DOMAIN queue' = DOMAIN queue
        /\ \A i \in DOMAIN queue : queue'[i].type = queue[i].type /\ queue'[i].sym = queue[i].sym
    BY <1>0, <1>8, ReplaceEffect
  <2>4. Coalesced'
    BY <1>1, <2>3 DEF Coalesced
  <2> QED  BY <2>2, <2>4 DEF SearchInv
<1>9. ASSUME Thinned, pc["loop"] \notin {"search", "replace"}, pc'["loop"] # "search"
      PROVE  SearchInv'
  <2>1. Coalesced'
    BY <1>1, <1>9, ThinnedCoalesces
  <2>2. Searched = 0 /\ Searched' = 0
    BY <1>9 DEF Searched
  <2>3. m.type \in Coalescible =>
          \A i \in DOMAIN queue' : i > Searched' => ~SameStream(m, queue'[i])
    BY <1>3, <1>9, <2>2, ThinnedSearched
  <2> QED  BY <1>2, <2>1, <2>3 DEF SearchInv
<1>10. CASE Check("loop") \/ Scan("loop") \/ Recheck("loop")
  <2>1. queue' = queue /\ pc["loop"] \notin {"search", "replace"}
    BY <1>10 DEF Check, Scan, Recheck
  <2>2. pc'["loop"] # "search"
    BY <1>4, <1>5, <1>10 DEF Check, Scan, Recheck
  <2> QED  BY <1>9, <2>1, <2>2, SameThinned
<1>11. CASE Delete("loop")
  <2>1. pc["loop"] = "delete" /\ pc'["loop"] # "search"
    BY <1>4, <1>5, <1>6, <1>11 DEF Delete
  <2> QED  BY <1>0, <1>9, <1>11, <2>1, DeleteThins
<1>12. CASE AppendMessage("loop")
  <2> DEFINE n == Len(queue) + 1
  <2>1. /\ DOMAIN queue = 1 .. Len(queue) /\ Len(queue) \in Nat
        /\ DOMAIN queue' = 1 .. n /\ queue'[n] = m
        /\ \A i \in DOMAIN queue : queue'[i] = queue[i]
    BY <1>0, <1>12, AppendShape
  <2>2. pc["loop"] = "append" /\ pc'["loop"] = "broadcast"
    BY <1>4, <1>6, <1>12 DEF AppendMessage
  <2>3. \A i \in DOMAIN queue : m.type \in Coalescible => ~SameStream(m, queue[i])
    <3>1. Searched = 0 /\ \A i \in DOMAIN queue : i > 0
      BY <2>1, <2>2 DEF Searched
    <3> QED  BY <1>3, <2>2, <3>1
  <2>4. \A i \in DOMAIN queue' : i \in DOMAIN queue \/ i = n
    BY <2>1
  <2>5. Coalesced'
    <3> HIDE DEF n, m
    <3> SUFFICES ASSUME NEW i \in DOMAIN queue', NEW j \in DOMAIN queue',
                        queue'[i].type \in Coalescible,
                        queue'[i].type = queue'[j].type, queue'[i].sym = queue'[j].sym
                 PROVE  i = j
      BY DEF Coalesced
    <3>1. CASE i \in DOMAIN queue /\ j \in DOMAIN queue
      BY <1>1, <2>1, <3>1 DEF Coalesced
    <3>2. CASE i = n /\ j \in DOMAIN queue
      BY <2>1, <2>3, <3>2 DEF SameStream
    <3>3. CASE i \in DOMAIN queue /\ j = n
      BY <2>1, <2>3, <3>3 DEF SameStream
    <3> QED  BY <2>4, <3>1, <3>2, <3>3
  <2> QED  BY <2>2, <2>5 DEF SearchInv, Coming
<1> QED  BY <1>7, <1>8, <1>10, <1>11, <1>12 DEF EnqueueStep

LEMMA SearchInductive ==
  ASSUME TInv, TInv', IndexInv, KindInv, SearchInv, [Next]_vars
  PROVE  SearchInv'
<1> USE DEF threadVars
<1>0. /\ queue \in Seq(Message) /\ "loop" \in Threads /\ spoiled \subseteq spoiled'
      /\ DOMAIN queue = 1 .. Len(queue) /\ Len(queue) \in Nat
  BY SpoiledStays DEF TInv, RestOK, Threads
<1>1. CASE "race" \in spoiled'
  BY <1>1 DEF SearchInv
<1>2. CASE "race" \notin spoiled' /\ (\E t \in Threads : EnqueueStep(t))
  BY <1>2, WorkerCoalesces, LoopCoalesces DEF Threads
<1>3. CASE "race" \notin spoiled' /\ Broadcast
  <2>1. "race" \notin spoiled /\ queue' = queue /\ Coalesced'
    BY <1>0, <1>3 DEF Broadcast, SearchInv, Coalesced
  <2>2. CASE UNCHANGED threadVars
    BY <2>1, <2>2 DEF SearchInv, Coming, Searched
  <2>3. CASE Enqueue("loop", Head(batch))
    <3>1. CASE msg'["loop"].type \in Coalescible
      <4>1. Head(batch).type \in Coalescible
        BY <1>0, <2>3, <3>1 DEF Enqueue, TInv, ThreadsOK
      <4>2. Goto("loop", "search", Len(queue), FALSE)
        BY <2>3, <4>1 DEF Enqueue
      <4>3. pc'["loop"] = "search" /\ index'["loop"] = Len(queue)
        BY <1>0, <4>2 DEF Goto, TInv, ThreadsOK
      <4>4. Searched' = Len(queue)
        BY <4>3 DEF Searched
      <4>5. \A i \in DOMAIN queue' : ~(i > Searched')
        BY <1>0, <2>1, <4>4
      <4> QED  BY <2>1, <4>5 DEF SearchInv
    <3>2. CASE msg'["loop"].type \notin Coalescible
      BY <2>1, <3>2 DEF SearchInv
    <3> QED  BY <3>1, <3>2
  <2> QED  BY <1>3, <2>2, <2>3 DEF Broadcast
<1>4. CASE "race" \notin spoiled' /\ Thinned /\ ~EnqueueStep("loop") /\ ~Broadcast
  <2>1. "race" \notin spoiled /\ Coalesced
    BY <1>0, <1>4 DEF SearchInv
  <2>2. Coalesced'
    BY <1>4, <2>1, ThinnedCoalesces
  <2>3. CASE Coming("loop")' /\ pc'["loop"] # "replace" /\ msg'["loop"].type \in Coalescible
    <3>1. /\ Coming("loop") /\ pc'["loop"] = pc["loop"]
          /\ index'["loop"] = index["loop"] /\ msg'["loop"] = msg["loop"]
      BY <1>4, <2>3, LoopStands
    <3>2. Searched' = Searched /\ Searched \in Nat
      BY <1>0, <3>1 DEF Searched, TInv, ThreadsOK
    <3>3. \A i \in DOMAIN queue : i > Searched => ~SameStream(msg["loop"], queue[i])
      BY <2>1, <2>3, <3>1 DEF SearchInv
    <3>4. \A i \in DOMAIN queue' : i > Searched => ~SameStream(msg["loop"], queue'[i])
      BY <1>4, <3>2, <3>3, ThinnedSearched
    <3> QED  BY <2>2, <3>1, <3>2, <3>4 DEF SearchInv
  <2> QED  BY <2>2, <2>3 DEF SearchInv
<1>5. CASE \E f \in Flushers : Pop(f)
  <2>1. Thinned /\ pc'["loop"] = "drain" /\ spoiled' = spoiled
    BY <1>0, <1>5, PopThins, MoveSplit DEF Pop
  <2>2. CASE "race" \notin spoiled'
    BY <2>1, <2>2, ThinnedCoalesces DEF SearchInv, Coming
  <2> QED  BY <1>1, <2>2
<1>6. CASE ~(\E t \in Threads : EnqueueStep(t)) /\ ~(\E f \in Flushers : Pop(f))
           /\ ~Broadcast
  <2>1. Still \/ queue' = queue
    BY <1>6, StepKinds DEF EnqueueStep, Publish, DrainEnd, Send, SendFails, Ask
  <2>2. queue' = queue
    BY <2>1 DEF Still
  <2> QED  BY <1>0, <1>1, <1>4, <1>6, <2>2, SameThinned
<1> QED  BY <1>1, <1>2, <1>3, <1>5, <1>6

\* A search in progress has missed no message of its stream.
THEOREM SpecSearch == Spec => []SearchInv
<1>1. Init => SearchInv
  BY DEF Init, SearchInv, Coalesced, Coming, Threads, Health, Coalescible
<1>2. TInv /\ TInv' /\ IndexInv /\ KindInv /\ SearchInv /\ [Next]_vars => SearchInv'
  BY SearchInductive
<1> QED  BY <1>1, <1>2, SpecTypes, SpecIndex, SpecKinds, PTL DEF Spec

\* A client's queue holds one delta of a symbol and kind, for every size of
\* the queue and however the worker's responses come in between, as long as
\* no thread has used an index after the other one moved the queue.
THEOREM CoalescedHolds == Spec => []Coalesced
<1>1. SearchInv => Coalesced
  BY DEF SearchInv, Coalesced
<1> QED  BY <1>1, SpecSearch, PTL

-----------------------------------------------------------------------------
(* Order.  A message passes from the tick's batch through the hands of the *)
(* loop, the queue and the pending messages of a coroutine to the wire; a  *)
(* response starts in the hands of the worker.  Of a kind and symbol, what *)
(* is further down this path was numbered before.                          *)

Numbered == Types \ {"snapshot", "health"}

Before(m, n) ==
  m.type \in Numbered /\ SameStream(m, n) => m.seq < n.seq

Sorted(q) == \A i, j \in DOMAIN q : i < j => Before(q[i], q[j])
AllBefore(q, m) == \A i \in DOMAIN q : Before(q[i], m)

\* Where two coroutines have sent at a time nothing is said about the wire.
AfterWire(m) ==
  m.type \in Numbered /\ "overlap" \notin spoiled => wire[m.sym][m.type] < m.seq

AfterPending(m) == \A f \in Flushers : AllBefore(pending[f], m)

\* The last number of symbol s that was given to a message of type y.
Issued(s, y) ==
  IF y = "holding_name_click_response" THEN answered[s] ELSE published[s]

Capped(m) ==
  /\ m.type \in Numbered => m.seq <= Issued(m.sym, m.type)
  /\ m.type = "health" => m.sym = None

PendingOrder ==
  \A f \in Flushers :
    /\ Sorted(pending[f])
    /\ \A i \in DOMAIN pending[f] : AfterWire(pending[f][i]) /\ Capped(pending[f][i])

QueueOrder ==
  /\ Sorted(queue)
  /\ \A i \in DOMAIN queue :
       AfterWire(queue[i]) /\ AfterPending(queue[i]) /\ Capped(queue[i])

HandOrder ==
  \A t \in Threads : Coming(t) =>
    AfterWire(msg[t]) /\ AfterPending(msg[t]) /\ AllBefore(queue, msg[t]) /\ Capped(msg[t])

BatchOrder ==
  /\ Sorted(batch)
  /\ \A i \in DOMAIN batch :
       /\ AfterWire(batch[i]) /\ AfterPending(batch[i]) /\ AllBefore(queue, batch[i])
       /\ Coming("loop") => Before(msg["loop"], batch[i])
       /\ Capped(batch[i])

WireOrder == \A s \in Symbols, y \in Numbered : wire[s][y] <= Issued(s, y)

Ordered == PendingOrder /\ QueueOrder /\ HandOrder /\ BatchOrder /\ WireOrder

OrderInv == "race" \notin spoiled => Ordered

\* What does not depend on the threads and the batch.
LEMMA FrontOrder ==
  ASSUME Ordered, UNCHANGED <<queue, pending, wire, published, answered>>,
         spoiled \subseteq spoiled'
  PROVE  PendingOrder' /\ QueueOrder' /\ WireOrder'
<1>1. PendingOrder' /\ WireOrder'
  BY DEF Ordered, PendingOrder, WireOrder, Sorted, AfterWire, Capped, Issued
<1>2. QueueOrder'
  BY DEF Ordered, QueueOrder, Sorted, AfterWire, AfterPending, AllBefore, Capped, Issued
<1> QED  BY <1>1, <1>2

\* A step that brings nothing new keeps the order.
LEMMA StillOrder ==
  ASSUME Ordered, Still, spoiled \subseteq spoiled'
  PROVE  Ordered'
<1>1. /\ queue' = queue /\ pending' = pending /\ batch' = batch /\ wire' = wire
      /\ published' = published /\ answered' = answered
      /\ \A t \in Threads : Coming(t)' => Coming(t) /\ msg'[t] = msg[t]
  BY DEF Still
<1>2. PendingOrder' /\ QueueOrder' /\ WireOrder'
  BY <1>1, FrontOrder
<1>4. HandOrder'
  BY <1>1 DEF Ordered, HandOrder, AfterWire, AfterPending, AllBefore, Capped, Issued
<1>5. BatchOrder'
  BY <1>1
  DEF Ordered, BatchOrder, Sorted, AfterWire, AfterPending, AllBefore, Capped, Issued,
      Threads
<1> QED  BY <1>2, <1>4, <1>5 DEF Ordered

\* Nothing but the queue changes, and no thread sets out.
OnlyQueue ==
  /\ UNCHANGED <<pending, batch, wire, published, answered>>
  /\ \A t \in Threads : Coming(t)' => Coming(t) /\ msg'[t] = msg[t]

\* Taking out of the queue keeps the order.
LEMMA ThinnedOrder ==
  ASSUME Ordered, OnlyQueue, spoiled \subseteq spoiled', Thinned
  PROVE  Ordered'
<1>1. /\ pending' = pending /\ batch' = batch /\ wire' = wire
      /\ published' = published /\ answered' = answered
      /\ \A t \in Threads : Coming(t)' => Coming(t) /\ msg'[t] = msg[t]
  BY DEF OnlyQueue
<1>2. PICK g \in [DOMAIN queue' -> DOMAIN queue] :
        /\ \A i \in DOMAIN queue' : g[i] >= i /\ queue'[i] = queue[g[i]]
        /\ \A i, j \in DOMAIN queue' : i < j => g[i] < g[j]
  BY DEF Thinned
<1>3. \A i \in DOMAIN queue' : g[i] \in DOMAIN queue /\ queue'[i] = queue[g[i]]
  BY <1>2
<1>4. PendingOrder' /\ WireOrder'
  BY <1>1 DEF Ordered, PendingOrder, WireOrder, Sorted, AfterWire, Capped, Issued
<1>5. QueueOrder'
  <2>1. Sorted(queue)'
    BY <1>2, <1>3 DEF Ordered, QueueOrder, Sorted
  <2>2. \A i \in DOMAIN queue' :
          (AfterWire(queue[i]) /\ AfterPending(queue[i]) /\ Capped(queue[i]))'
    BY <1>1, <1>3
    DEF Ordered, QueueOrder, AfterWire, AfterPending, AllBefore, Capped, Issued
  <2> QED  BY <2>1, <2>2 DEF QueueOrder
<1>6. HandOrder'
  BY <1>1, <1>3 DEF Ordered, HandOrder, AfterWire, AfterPending, AllBefore, Capped, Issued
<1>7. BatchOrder'
  BY <1>1, <1>3
  DEF Ordered, BatchOrder, Sorted, AfterWire, AfterPending, AllBefore, Capped, Issued,
      Threads
<1> QED  BY <1>4, <1>5, <1>6, <1>7 DEF Ordered

\* What the two threads enqueue is of different kinds.
LEMMA OtherKinds ==
  ASSUME KindInv
  PROVE  /\ Coming("loop") => ~SameStream(msg["loop"], msg["worker"])
                              \/ msg["loop"].type \notin Numbered
         /\ \A i \in DOMAIN batch : ~SameStream(msg["worker"], batch[i])
                                    \/ msg["worker"].type \notin Numbered
BY DeltaAssumption DEF KindInv, SameStream, Numbered, Critical, Coalescible

\* What is appended was numbered after all that is queued or further down.
LEMMA AppendOrder ==
  ASSUME TInv, KindInv, Ordered, NEW t \in Threads, AppendMessage(t), OnlyQueue,
         Coming(t), ~Coming(t)', spoiled \subseteq spoiled'
  PROVE  Ordered'
<1>1. /\ pending' = pending /\ batch' = batch /\ wire' = wire
      /\ published' = published /\ answered' = answered
      /\ \A u \in Threads : Coming(u)' => Coming(u) /\ msg'[u] = msg[u]
  BY DEF OnlyQueue
<1> DEFINE n == Len(queue) + 1
<1>2. /\ Len(queue) \in Nat /\ DOMAIN queue = 1 .. Len(queue)
      /\ DOMAIN queue' = 1 .. n /\ queue'[n] = msg[t]
      /\ \A i \in DOMAIN queue : queue'[i] = queue[i]
  BY AppendShape
<1>3. \A i \in DOMAIN queue' : i \in DOMAIN queue \/ i = n
  BY <1>2
<1>4. \A i \in DOMAIN queue : ~(n < i) /\ ~(n < n)
  BY <1>2
<1> HIDE DEF n
<1>5. PendingOrder' /\ WireOrder'
  BY <1>1 DEF Ordered, PendingOrder, WireOrder, Sorted, AfterWire, Capped, Issued
<1>6. AfterWire(msg[t]) /\ AfterPending(msg[t]) /\ AllBefore(queue, msg[t]) /\ Capped(msg[t])
  BY DEF Ordered, HandOrder
<1>7. QueueOrder'
  <2>1. Sorted(queue)'
    BY <1>2, <1>3, <1>4, <1>6 DEF Ordered, QueueOrder, Sorted, AllBefore
  <2>2. \A i \in DOMAIN queue' :
          (AfterWire(queue[i]) /\ AfterPending(queue[i]) /\ Capped(queue[i]))'
    BY <1>1, <1>2, <1>3, <1>6
    DEF Ordered, QueueOrder, AfterWire, AfterPending, AllBefore, Capped, Issued
  <2> QED  BY <2>1, <2>2 DEF QueueOrder
<1>8. HandOrder'
  <2>1. \A u \in Threads : Coming(u)' => u # t
    OBVIOUS
  <2>2. \A u \in Threads : Coming(u)' => AllBefore(queue, msg[u])'
    <3>1. \A u \in Threads : Coming(u)' => Before(msg[t], msg[u])
      BY <1>1, <2>1, OtherKinds DEF Threads, Before, SameStream
    <3> QED  BY <1>1, <1>2, <1>3, <3>1 DEF Ordered, HandOrder, AllBefore
  <2> QED
    BY <1>1, <2>2 DEF Ordered, HandOrder, AfterWire, AfterPending, AllBefore, Capped, Issued
<1>9. BatchOrder'
  <2>1. \A i \in DOMAIN batch : Before(msg[t], batch[i])
    BY OtherKinds DEF Ordered, BatchOrder, Threads, Before
  <2>2. \A i \in DOMAIN batch : AllBefore(queue, batch[i])'
    BY <1>1, <1>2, <1>3, <2>1 DEF Ordered, BatchOrder, AllBefore
  <2> QED
    BY <1>1, <2>2
    DEF Ordered, BatchOrder, Sorted, AfterWire, AfterPending, AllBefore, Capped, Issued,
        Threads
<1> QED  BY <1>5, <1>7, <1>8, <1>9 DEF Ordered

\* A delta takes the place of an older one of its stream; no other message of
\* the queue is of that stream.
LEMMA ReplaceOrder ==
  ASSUME TInv, KindInv, IndexInv, Coalesced, Ordered, Replace("loop"), OnlyQueue,
         Coming("loop"), ~Coming("loop")', "race" \notin spoiled,
         "race" \notin spoiled', spoiled \subseteq spoiled',
         index["loop"] \in DOMAIN queue
  PROVE  Ordered'
<1>1. /\ pending' = pending /\ batch' = batch /\ wire' = wire
      /\ published' = published /\ answered' = answered
      /\ \A u \in Threads : Coming(u)' => Coming(u) /\ msg'[u] = msg[u]
  BY DEF OnlyQueue
<1> DEFINE k == index["loop"]
           m == msg["loop"]
<1>2. /\ queue' = [queue EXCEPT ![k] = m] /\ pc["loop"] = "replace" /\ ~moved["loop"]
      /\ queue \in Seq(Message)
  BY DEF Replace, TInv, RestOK
<1>3. /\ DOMAIN queue' = DOMAIN queue /\ k \in DOMAIN queue
      /\ \A i \in DOMAIN queue : queue'[i] = IF i = k THEN m ELSE queue[i]
      /\ DOMAIN queue \subseteq Nat
  BY <1>2
<1>4. m.type \in Coalescible /\ SameStream(m, queue[k])
  BY <1>2 DEF IndexInv, LooksAt, Threads
<1>5. \A i \in DOMAIN queue : SameStream(m, queue[i]) => i = k
  BY <1>3, <1>4 DEF Coalesced, SameStream
<1>6. AfterWire(m) /\ AfterPending(m) /\ AllBefore(queue, m) /\ Capped(m)
  BY DEF Ordered, HandOrder, Threads
<1> HIDE DEF k, m
<1>7. PendingOrder' /\ WireOrder'
  BY <1>1 DEF Ordered, PendingOrder, WireOrder, Sorted, AfterWire, Capped, Issued
<1>8. QueueOrder'
  <2>1. Sorted(queue)'
    <3> SUFFICES ASSUME NEW i \in DOMAIN queue, NEW j \in DOMAIN queue, i < j
                 PROVE  Before(queue'[i], queue'[j])
      BY <1>3 DEF Sorted
    <3>1. i # j
      BY <1>3
    <3>2. CASE i # k /\ j # k
      BY <1>3, <3>2 DEF Ordered, QueueOrder, Sorted
    <3>3. CASE i = k
      BY <1>3, <1>5, <3>1, <3>3 DEF Before
    <3>4. CASE j = k
      BY <1>3, <1>6, <3>1, <3>4 DEF AllBefore
    <3> QED  BY <3>2, <3>3, <3>4
  <2>2. \A i \in DOMAIN queue' :
          (AfterWire(queue[i]) /\ AfterPending(queue[i]) /\ Capped(queue[i]))'
    BY <1>1, <1>3, <1>6
    DEF Ordered, QueueOrder, AfterWire, AfterPending, AllBefore, Capped, Issued
  <2> QED  BY <2>1, <2>2 DEF QueueOrder
<1>9. HandOrder'
  <2>1. \A u \in Threads : Coming(u)' => u = "worker"
    BY DEF Threads
  <2>2. \A u \in Threads : Coming(u)' => AllBefore(queue, msg[u])'
    <3>1. \A u \in Threads : Coming(u)' => Before(m, msg[u])
      BY <1>1, <2>1, OtherKinds DEF Threads, Before, m
    <3> QED  BY <1>1, <1>3, <3>1 DEF Ordered, HandOrder, AllBefore
  <2> QED
    BY <1>1, <2>2 DEF Ordered, HandOrder, AfterWire, AfterPending, AllBefore, Capped, Issued
<1>10. BatchOrder'
  <2>1. \A i \in DOMAIN batch : Before(m, batch[i])
    BY DEF Ordered, BatchOrder, m
  <2>2. \A i \in DOMAIN batch : AllBefore(queue, batch[i])'
    BY <1>1, <1>3, <2>1 DEF Ordered, BatchOrder, AllBefore
  <2> QED
    BY <1>1, <2>2
    DEF Ordered, BatchOrder, Sorted, AfterWire, AfterPending, AllBefore, Capped, Issued,
        Threads
<1> QED  BY <1>7, <1>8, <1>9, <1>10 DEF Ordered

\* The first message of the batch goes to the hands of the loop.
LEMMA BroadcastOrder ==
  ASSUME TInv, Ordered, Broadcast
  PROVE  Ordered'
<1> USE DEF flushVars, sourceVars, clientVars, threadVars
<1>0. /\ batch \in Seq(Message) /\ batch # <<>> /\ "loop" \in Threads
      /\ msg \in [Threads -> Message] /\ pc["loop"] = "broadcast"
  BY DEF TInv, ThreadsOK, RestOK, Threads, Broadcast
<1>1. /\ queue' = queue /\ pending' = pending /\ batch' = Tail(batch) /\ wire' = wire
      /\ published' = published /\ answered' = answered /\ spoiled' = spoiled
  BY DEF Broadcast
<1>2. /\ 1 \in DOMAIN batch /\ Head(batch) = batch[1] /\ DOMAIN batch \subseteq Nat
      /\ DOMAIN batch' = 1 .. Len(batch) - 1 /\ DOMAIN batch = 1 .. Len(batch)
      /\ \A i \in DOMAIN batch' : batch'[i] = batch[i + 1]
  BY <1>0, <1>1
<1>3. /\ \A i \in DOMAIN batch' : i + 1 \in DOMAIN batch /\ 1 < i + 1
      /\ \A i, j \in DOMAIN batch' : i < j => i + 1 < j + 1
  BY <1>0, <1>2
<1>4. PendingOrder' /\ QueueOrder' /\ WireOrder'
  BY <1>1, FrontOrder
<1>5. ~Coming("loop") /\ (Coming("loop")' => msg'["loop"] = batch[1])
  BY <1>0, <1>2 DEF Broadcast, Enqueue, Coming
<1>6. (Coming("worker")' => Coming("worker")) /\ msg'["worker"] = msg["worker"]
  <2>1. CASE UNCHANGED threadVars
    BY <2>1 DEF Coming
  <2>2. CASE Enqueue("loop", Head(batch))
    <3>1. pc'["worker"] = pc["worker"]
      BY <1>0, <2>2 DEF Enqueue, Goto, TInv, ThreadsOK, Threads
    <3>2. msg'["worker"] = msg["worker"]
      BY <1>0, <2>2 DEF Enqueue, Threads
    <3> QED  BY <3>1, <3>2 DEF Coming
  <2> QED  BY <2>1, <2>2 DEF Broadcast
<1>7. HandOrder'
  <2>1. Coming("loop")' =>
          (/\ AfterWire(msg["loop"]) /\ AfterPending(msg["loop"])
           /\ AllBefore(queue, msg["loop"]) /\ Capped(msg["loop"]))'
    BY <1>1, <1>2, <1>5
    DEF Ordered, BatchOrder, AfterWire, AfterPending, AllBefore, Capped, Issued
  <2>2. Coming("worker")' =>
          (/\ AfterWire(msg["worker"]) /\ AfterPending(msg["worker"])
           /\ AllBefore(queue, msg["worker"]) /\ Capped(msg["worker"]))'
    BY <1>1, <1>6
    DEF Ordered, HandOrder, AfterWire, AfterPending, AllBefore, Capped, Issued, Threads
  <2> QED  BY <2>1, <2>2 DEF HandOrder, Threads
<1>8. BatchOrder'
  <2>1. Sorted(batch)'
    BY <1>2, <1>3 DEF Ordered, BatchOrder, Sorted
  <2>2. \A i \in DOMAIN batch' :
          (AfterWire(batch[i]) /\ AfterPending(batch[i]) /\ AllBefore(queue, batch[i])
           /\ Capped(batch[i]))'
    BY <1>1, <1>2, <1>3
    DEF Ordered, BatchOrder, AfterWire, AfterPending, AllBefore, Capped, Issued
  <2>3. \A i \in DOMAIN batch' : Coming("loop")' => Before(msg'["loop"], batch'[i])
    BY <1>2, <1>3, <1>5 DEF Ordered, BatchOrder, Sorted
  <2> QED  BY <2>1, <2>2, <2>3 DEF BatchOrder, Before, SameStream
<1> QED  BY <1>4, <1>7, <1>8 DEF Ordered

\* A new delta is numbered above all others of its symbol.
LEMMA PublishOrder ==
  ASSUME TInv, KindInv, Ordered, NEW s \in Symbols, NEW y \in DeltaTypes, Publish(s, y)
  PROVE  Ordered'
<1> USE DEF flushVars, sourceVars, clientVars, threadVars
<1>0. /\ batch \in Seq(Message) /\ published \in [Symbols -> Nat]
      /\ answered \in [Symbols -> Nat] /\ queue \in Seq(Message)
      /\ msg \in [Threads -> Message] /\ pending \in [Flushers -> Seq(Message)]
      /\ wire \in [Symbols -> [Types -> Nat]]
  BY DEF TInv, ThreadsOK, RestOK
<1>1. /\ queue' = queue /\ pending' = pending /\ wire' = wire /\ pc' = pc /\ msg' = msg
      /\ answered' = answered /\ spoiled' = spoiled
      /\ published' = [published EXCEPT ![s] = @ + 1]
  BY DEF Publish
<1>2. PICK d : /\ batch' = Append(batch, d)
               /\ d.type = y /\ d.sym = s /\ d.seq = published'[s]
  BY DEF Publish
<1>3. /\ d.seq = published[s] + 1 /\ published[s] \in Nat /\ d.seq \in Nat
      /\ y \notin {"holding_name_click_response", "health"}
  BY <1>0, <1>1, <1>2, DeltaAssumption DEF Coalescible
<1> DEFINE n == Len(batch) + 1
<1>4. /\ Len(batch) \in Nat /\ DOMAIN batch = 1 .. Len(batch)
      /\ DOMAIN batch' = 1 .. n /\ batch'[n] = d
      /\ \A i \in DOMAIN batch : batch'[i] = batch[i]
  BY <1>0, <1>2
<1>5. /\ \A i \in DOMAIN batch' : i \in DOMAIN batch \/ i = n
      /\ \A i \in DOMAIN batch' : ~(n < i)
  BY <1>4
<1> HIDE DEF n
<1>6. \A r \in Symbols : published[r] \in Nat /\ published'[r] \in Nat
                         /\ published[r] <= published'[r] /\ answered[r] \in Nat
  BY <1>0, <1>1
<1>7. \A m \in Message : Capped(m) => Capped(m)' /\ Before(m, d)
  <2> SUFFICES ASSUME NEW m \in Message, Capped(m)
               PROVE  Capped(m)' /\ Before(m, d)
    OBVIOUS
  <2>1. m.seq \in Nat /\ (m.type \in Numbered => m.sym \in Symbols)
    BY DEF Message, Numbered
  <2>2. Capped(m)'
    BY <1>1, <1>6, <2>1 DEF Capped, Issued
  <2>3. Before(m, d)
    BY <1>2, <1>3, <2>1 DEF Capped, Issued, Before, SameStream
  <2> QED  BY <2>2, <2>3
<1>8. \A i \in DOMAIN batch : batch[i] \in Message
  BY <1>0
<1>9. \A i \in DOMAIN queue : queue[i] \in Message
  BY <1>0
<1>10. \A f \in Flushers : \A i \in DOMAIN pending[f] : pending[f][i] \in Message
  BY <1>0
<1>11. PendingOrder'
  BY <1>1, <1>7, <1>10 DEF Ordered, PendingOrder, Sorted, AfterWire
<1>12. QueueOrder'
  BY <1>1, <1>7, <1>9 DEF Ordered, QueueOrder, Sorted, AfterWire, AfterPending, AllBefore
<1>13. HandOrder'
  BY <1>0, <1>1, <1>7 DEF Ordered, HandOrder, AfterWire, AfterPending, AllBefore, Coming
<1>14. WireOrder'
  <2> SUFFICES ASSUME NEW r \in Symbols, NEW z \in Numbered
               PROVE  wire[r][z] <= Issued(r, z)'
    BY <1>1 DEF WireOrder
  <2>1. wire[r][z] <= Issued(r, z) /\ wire[r][z] \in Nat
    BY <1>0 DEF Ordered, WireOrder, Numbered
  <2> QED  BY <1>1, <1>6, <2>1 DEF Issued
<1>15. BatchOrder'
  <2>1. \A i \in DOMAIN batch : Before(batch[i], d)
    BY <1>7, <1>8 DEF Ordered, BatchOrder
  <2>2. Sorted(batch)'
    BY <1>4, <1>5, <2>1 DEF Ordered, BatchOrder, Sorted
  <2>3. AfterPending(d) /\ AllBefore(queue, d) /\ (Coming("loop") => Before(msg["loop"], d))
    BY <1>0, <1>7, <1>9, <1>10
    DEF Ordered, PendingOrder, QueueOrder, HandOrder, AfterPending, AllBefore, Threads
  <2>4. d.type \in Numbered => wire[d.sym][d.type] < d.seq
    <3> SUFFICES ASSUME d.type \in Numbered  PROVE wire[s][y] < d.seq
      BY <1>2
    <3>1. y \in Numbered /\ wire[s][y] \in Nat
      BY <1>0, <1>2 DEF Numbered
    <3>2. wire[s][y] <= published[s]
      BY <1>3, <3>1 DEF Ordered, WireOrder, Issued
    <3> QED  BY <1>3, <3>1, <3>2
  <2>5. Capped(d)'
    BY <1>2, <1>3 DEF Capped, Issued
  <2>6. \A i \in DOMAIN batch' :
          (AfterWire(batch[i]) /\ AfterPending(batch[i]) /\ AllBefore(queue, batch[i]))'
    BY <1>1, <1>4, <1>5, <2>3, <2>4
    DEF Ordered, BatchOrder, AfterWire, AfterPending, AllBefore
  <2>7. \A i \in DOMAIN batch' :
          LET m == batch'[i]
          IN  /\ m.type \in Numbered =>
                   m.seq <= IF m.type = "holding_name_click_response" THEN answered'[m.sym]
                                                                     ELSE published'[m.sym]
              /\ m.type = "health" => m.sym = None
    <3>1. ASSUME NEW m \in Message, Capped(m)
          PROVE  /\ m.type \in Numbered =>
                      m.seq <= IF m.type = "holding_name_click_response"
                                 THEN answered'[m.sym] ELSE published'[m.sym]
                 /\ m.type = "health" => m.sym = None
      <4>1. Capped(m)'
        BY <1>7, <3>1
      <4> QED  BY <4>1 DEF Capped, Issued
    <3>2. \A i \in DOMAIN batch : Capped(batch[i])
      BY DEF Ordered, BatchOrder
    <3>3. \A i \in DOMAIN batch : batch'[i] \in Message /\ Capped(batch'[i])
      BY <1>4, <1>8, <3>2
    <3>4. d.type # "health"
      BY <1>2, <1>3
    <3>5. d.type \in Numbered => /\ d.seq <= published'[d.sym]
                                /\ d.type # "holding_name_click_response"
      BY <1>2, <1>3, <1>6
    <3> QED  BY <1>4, <1>5, <3>1, <3>3, <3>4, <3>5
  <2>8. \A i \in DOMAIN batch' : Coming("loop")' => Before(msg'["loop"], batch'[i])
    BY <1>1, <1>4, <1>5, <2>3 DEF Ordered, BatchOrder, Coming
  <2> QED  BY <2>2, <2>6, <2>7, <2>8 DEF BatchOrder, Before, SameStream, Capped, Issued
<1> QED  BY <1>11, <1>12, <1>13, <1>14, <1>15 DEF Ordered

\* A step of a coroutine lets no thread set out.
LEMMA FlushComing ==
  ASSUME TInv, NEW f \in Flushers, Pop(f) \/ DrainEnd(f) \/ Send(f) \/ SendFails(f)
  PROVE  /\ \A t \in Threads : Coming(t)' => Coming(t) /\ msg'[t] = msg[t]
         /\ batch' = batch /\ published' = published /\ answered' = answered
<1> USE DEF flushVars, sourceVars, clientVars, threadVars
<1>1. CASE Pop(f)
  <2>1. \A t \in Threads : Coming(t)' => Coming(t)
    BY <1>1 DEF Pop, MoveAndGoto, Coming, TInv, ThreadsOK, Threads
  <2> QED  BY <1>1, <2>1 DEF Pop
<1>2. CASE DrainEnd(f)
  <2>1. \A t \in Threads : Coming(t)' => Coming(t)
    BY <1>2 DEF DrainEnd, LoopGoes, Coming, TInv, ThreadsOK, Threads
  <2> QED  BY <1>2, <2>1 DEF DrainEnd
<1>3. CASE Send(f) \/ SendFails(f)
  BY <1>3 DEF Send, SendFails, Coming
<1> QED  BY <1>1, <1>2, <1>3

\* The first message of the queue becomes the last pending one.
LEMMA PopOrder ==
  ASSUME TInv, Ordered, NEW f \in Flushers, Pop(f)
  PROVE  Ordered'
<1> USE DEF flushVars, sourceVars, clientVars, threadVars
<1>0. /\ queue \in Seq(Message) /\ pending \in [Flushers -> Seq(Message)]
      /\ pending[f] \in Seq(Message)
  BY DEF TInv, RestOK
<1>1. /\ batch' = batch /\ wire' = wire /\ spoiled' = spoiled
      /\ published' = published /\ answered' = answered
      /\ \A t \in Threads : Coming(t)' => Coming(t) /\ msg'[t] = msg[t]
  BY FlushComing DEF Pop
<1>2. /\ 1 \in DOMAIN queue /\ Head(queue) = queue[1]
      /\ DOMAIN queue' = 1 .. Len(queue) - 1
      /\ \A i \in DOMAIN queue' : i + 1 \in DOMAIN queue /\ queue'[i] = queue[i + 1]
  BY PopThins
<1>3. /\ \A i \in DOMAIN queue' : 1 < i + 1
      /\ \A i, j \in DOMAIN queue' : i < j => i + 1 < j + 1
  BY <1>0, <1>2
<1> DEFINE m == queue[1]
           n == Len(pending[f]) + 1
<1>4. pending' = [pending EXCEPT ![f] = Append(@, m)]
  BY <1>2 DEF Pop
<1>5. /\ Len(pending[f]) \in Nat /\ DOMAIN pending[f] = 1 .. Len(pending[f])
      /\ DOMAIN pending'[f] = 1 .. n /\ pending'[f][n] = m
      /\ \A i \in DOMAIN pending[f] : pending'[f][i] = pending[f][i]
      /\ \A g \in Flushers \ {f} : pending'[g] = pending[g]
  BY <1>0, <1>4
<1>6. /\ \A i \in DOMAIN pending'[f] : i \in DOMAIN pending[f] \/ i = n
      /\ \A i \in DOMAIN pending'[f] : ~(n < i)
  BY <1>5
<1>7. AfterWire(m) /\ AfterPending(m) /\ Capped(m)
  BY <1>2 DEF Ordered, QueueOrder
<1> HIDE DEF m, n
<1>8. PendingOrder'
  <2> SUFFICES ASSUME NEW g \in Flushers
               PROVE  /\ Sorted(pending'[g])
                      /\ \A i \in DOMAIN pending'[g] :
                           (AfterWire(pending[g][i]) /\ Capped(pending[g][i]))'
    BY DEF PendingOrder, Sorted
  <2>1. CASE g # f
    BY <1>1, <1>5, <2>1 DEF Ordered, PendingOrder, AfterWire, Capped, Issued
  <2>2. CASE g = f
    <3>1. Sorted(pending'[f])
      BY <1>5, <1>6, <1>7 DEF Ordered, PendingOrder, Sorted, AfterPending, AllBefore
    <3>2. \A i \in DOMAIN pending'[f] : (AfterWire(pending[f][i]) /\ Capped(pending[f][i]))'
      BY <1>1, <1>5, <1>6, <1>7 DEF Ordered, PendingOrder, AfterWire, Capped, Issued
    <3> QED  BY <2>2, <3>1, <3>2
  <2> QED  BY <2>1, <2>2
<1>9. ASSUME NEW x, AfterPending(x), Before(m, x)
      PROVE  \A g \in Flushers : AllBefore(pending'[g], x)
  <2> SUFFICES ASSUME NEW g \in Flushers, NEW i \in DOMAIN pending'[g]
               PROVE  Before(pending'[g][i], x)
    BY DEF AllBefore
  <2> QED  BY <1>5, <1>6, <1>9 DEF AfterPending, AllBefore
<1>10. QueueOrder'
  <2>1. Sorted(queue)'
    BY <1>2, <1>3 DEF Ordered, QueueOrder, Sorted
  <2>2. \A i \in DOMAIN queue' : AfterWire(queue[i])' /\ Capped(queue[i])'
    BY <1>1, <1>2 DEF Ordered, QueueOrder, AfterWire, Capped, Issued
  <2>3. \A i \in DOMAIN queue' : \A g \in Flushers : AllBefore(pending'[g], queue'[i])
    <3> SUFFICES ASSUME NEW i \in DOMAIN queue'
                 PROVE  \A g \in Flushers : AllBefore(pending'[g], queue[i + 1])
      BY <1>2
    <3>1. AfterPending(queue[i + 1]) /\ Before(m, queue[i + 1])
      BY <1>2, <1>3 DEF Ordered, QueueOrder, Sorted, m
    <3> QED  BY <1>9, <3>1
  <2> QED  BY <2>1, <2>2, <2>3 DEF QueueOrder, AfterPending
<1>11. HandOrder'
  <2> SUFFICES ASSUME NEW t \in Threads, Coming(t)'
               PROVE  (/\ AfterWire(msg[t]) /\ AfterPending(msg[t]) /\ AllBefore(queue, msg[t])
                       /\ Capped(msg[t]))'
    BY DEF HandOrder
  <2>1. Coming(t) /\ msg'[t] = msg[t]
    BY <1>1
  <2>2. AfterWire(msg[t]) /\ AfterPending(msg[t]) /\ AllBefore(queue, msg[t]) /\ Capped(msg[t])
    BY <2>1 DEF Ordered, HandOrder
  <2>3. AfterPending(msg[t])'
    <3>1. Before(m, msg[t])
      BY <1>2, <2>2 DEF AllBefore, m
    <3> QED  BY <1>9, <2>1, <2>2, <3>1 DEF AfterPending
  <2> QED  BY <1>1, <1>2, <2>1, <2>2, <2>3 DEF AfterWire, AllBefore, Capped, Issued
<1>12. BatchOrder'
  <2> SUFFICES ASSUME NEW i \in DOMAIN batch
               PROVE  (/\ AfterWire(batch[i]) /\ AfterPending(batch[i])
                       /\ AllBefore(queue, batch[i]) /\ Capped(batch[i])
                       /\ Coming("loop") => Before(msg["loop"], batch[i]))'
    BY <1>1 DEF Ordered, BatchOrder, Sorted
  <2>1. /\ AfterWire(batch[i]) /\ AfterPending(batch[i]) /\ AllBefore(queue, batch[i])
        /\ Capped(batch[i])
        /\ Coming("loop") => Before(msg["loop"], batch[i])
    BY DEF Ordered, BatchOrder
  <2>2. AfterPending(batch[i])'
    <3>1. Before(m, batch[i])
      BY <1>2, <2>1 DEF AllBefore, m
    <3> QED  BY <1>1, <1>9, <2>1, <3>1 DEF AfterPending
  <2> QED
    BY <1>1, <1>2, <2>1, <2>2 DEF AfterWire, AllBefore, Capped, Issued, Threads
<1>13. WireOrder'
  BY <1>1 DEF Ordered, WireOrder, Issued
<1> QED  BY <1>8, <1>10, <1>11, <1>12, <1>13 DEF Ordered

\* Serializing and dropping what is pending.
LEMMA PendingShrinks ==
  ASSUME Ordered, UNCHANGED <<queue, batch, wire, published, answered>>,
         spoiled' = spoiled,
         \A t \in Threads : Coming(t)' => Coming(t) /\ msg'[t] = msg[t],
         \A f \in Flushers :
           /\ DOMAIN pending'[f] \subseteq DOMAIN pending[f]
           /\ \A i \in DOMAIN pending'[f] :
                /\ pending'[f][i].type = pending[f][i].type
                /\ pending'[f][i].sym = pending[f][i].sym
                /\ pending'[f][i].seq = pending[f][i].seq
  PROVE  Ordered'
<1>1. PendingOrder'
  BY DEF Ordered, PendingOrder, Sorted, Before, SameStream, AfterWire, Capped, Issued
<1>2. \A x : AfterPending(x) => \A f \in Flushers : AllBefore(pending'[f], x)
  BY DEF AfterPending, AllBefore, Before, SameStream
<1>3. QueueOrder'
  <2>1. \A i \in DOMAIN queue : AfterPending(queue[i])
    BY DEF Ordered, QueueOrder
  <2> QED  BY <1>2, <2>1 DEF Ordered, QueueOrder, Sorted, AfterWire, AfterPending, Capped, Issued
<1>4. HandOrder'
  <2>1. \A t \in Threads : Coming(t)' => AfterPending(msg[t])
    BY DEF Ordered, HandOrder
  <2> QED  BY <1>2, <2>1 DEF Ordered, HandOrder, AfterWire, AfterPending, AllBefore, Capped, Issued
<1>5. BatchOrder'
  <2>1. \A i \in DOMAIN batch : AfterPending(batch[i])
    BY DEF Ordered, BatchOrder
  <2> QED
    BY <1>2, <2>1
    DEF Ordered, BatchOrder, Sorted, AfterWire, AfterPending, AllBefore, Capped, Issued, Threads
<1>6. WireOrder'
  BY DEF Ordered, WireOrder, Issued
<1> QED  BY <1>1, <1>3, <1>4, <1>5, <1>6 DEF Ordered

\* Serializing and giving up change neither kind nor number.
LEMMA DrainEndOrder ==
  ASSUME TInv, Ordered, NEW f \in Flushers, DrainEnd(f)
  PROVE  Ordered'
<1> USE DEF flushVars, sourceVars, clientVars, threadVars
<1>1. /\ queue' = queue /\ wire' = wire /\ spoiled' = spoiled
      /\ pending' = [pending EXCEPT
                       ![f] = [i \in DOMAIN pending[f] |-> Serialized(pending[f][i])]]
  BY DEF DrainEnd
<1>2. pending \in [Flushers -> Seq(Message)]
  BY DEF TInv, RestOK
<1>3. \A m \in Message : /\ Serialized(m).type = m.type /\ Serialized(m).sym = m.sym
                         /\ Serialized(m).seq = m.seq
  BY DEF Serialized, Message
<1>4. \A g \in Flushers : \A i \in DOMAIN pending[g] : pending[g][i] \in Message
  BY <1>2
<1>5. \A g \in Flushers :
        /\ DOMAIN pending'[g] \subseteq DOMAIN pending[g]
        /\ \A i \in DOMAIN pending'[g] :
             /\ pending'[g][i].type = pending[g][i].type
             /\ pending'[g][i].sym = pending[g][i].sym
             /\ pending'[g][i].seq = pending[g][i].seq
  <2> SUFFICES ASSUME NEW g \in Flushers
      PROVE /\ DOMAIN pending'[g] \subseteq DOMAIN pending[g]
            /\ \A i \in DOMAIN pending'[g] :
                 /\ pending'[g][i].type = pending[g][i].type
                 /\ pending'[g][i].sym = pending[g][i].sym
                 /\ pending'[g][i].seq = pending[g][i].seq
    OBVIOUS
  <2>1. CASE g = f
    <3>1. pending'[f] = [i \in DOMAIN pending[f] |-> Serialized(pending[f][i])]
      BY <1>1, <1>2
    <3> QED  BY <1>3, <1>4, <2>1, <3>1
  <2>2. CASE g # f
    BY <1>1, <1>2, <2>2
  <2> QED  BY <2>1, <2>2
<1> QED  BY <1>1, <1>5, FlushComing, PendingShrinks

LEMMA SendFailsOrder ==
  ASSUME TInv, Ordered, NEW f \in Flushers, SendFails(f)
  PROVE  Ordered'
<1> USE DEF flushVars, sourceVars, clientVars, threadVars
<1>1. /\ queue' = queue /\ wire' = wire /\ spoiled' = spoiled
      /\ pending' = [pending EXCEPT ![f] = <<>>]
  BY DEF SendFails
<1>2. pending \in [Flushers -> Seq(Message)]
  BY DEF TInv, RestOK
<1>3. \A g \in Flushers : pending'[g] = IF g = f THEN <<>> ELSE pending[g]
  BY <1>1, <1>2
<1> QED  BY <1>1, <1>3, FlushComing, PendingShrinks

\* What goes to the wire was numbered before all that is still on its way.
LEMMA SendOrder ==
  ASSUME TInv, Ordered, NEW f \in Flushers, Send(f)
  PROVE  Ordered'
<1> USE DEF flushVars, sourceVars, clientVars, threadVars
<1>0. /\ queue \in Seq(Message) /\ pending \in [Flushers -> Seq(Message)]
      /\ pending[f] \in Seq(Message) /\ pending[f] # <<>> /\ batch \in Seq(Message)
      /\ msg \in [Threads -> Message] /\ wire \in [Symbols -> [Types -> Nat]]
  BY DEF TInv, RestOK, ThreadsOK, Send
<1>1. /\ batch' = batch /\ queue' = queue /\ published' = published /\ answered' = answered
      /\ \A t \in Threads : Coming(t)' => Coming(t) /\ msg'[t] = msg[t]
  BY FlushComing DEF Send
<1> DEFINE m == Head(pending[f])
<1>2. /\ m = pending[f][1] /\ 1 \in DOMAIN pending[f] /\ m \in Message
      /\ pending'[f] = Tail(pending[f])
      /\ \A g \in Flushers \ {f} : pending'[g] = pending[g]
  BY <1>0 DEF Send
<1>3. /\ DOMAIN pending'[f] = 1 .. Len(pending[f]) - 1
      /\ \A i \in DOMAIN pending'[f] :
           i + 1 \in DOMAIN pending[f] /\ 1 < i + 1 /\ pending'[f][i] = pending[f][i + 1]
      /\ \A i, j \in DOMAIN pending'[f] : i < j => i + 1 < j + 1
  BY <1>0, <1>2
<1>4. spoiled \subseteq spoiled'
      /\ ("overlap" \notin spoiled' => \A g \in Flushers \ {f} : pending[g] = <<>>)
  BY DEF Send
<1>5. m.sym = None => wire' = wire
  BY DEF Send, Show
<1>6. m.sym # None => wire' = [wire EXCEPT ![m.sym][m.type] = m.seq]
  BY DEF Send, Show
<1> HIDE DEF m
<1>7. /\ m.type \in Types /\ m.seq \in Nat /\ (m.sym # None => m.sym \in Symbols)
      /\ (m.type \in Numbered => m.sym \in Symbols /\ m.sym # None)
  BY <1>2, NoneAssumption DEF Message, Numbered
<1>8. \A s \in Symbols, y \in Numbered :
        wire'[s][y] = IF s = m.sym /\ y = m.type THEN m.seq ELSE wire[s][y]
  <2> SUFFICES ASSUME NEW s \in Symbols, NEW y \in Numbered
               PROVE  wire'[s][y] = IF s = m.sym /\ y = m.type THEN m.seq ELSE wire[s][y]
    OBVIOUS
  <2>1. y \in Types /\ s # None
    BY NoneAssumption DEF Numbered
  <2>2. CASE m.sym = None
    BY <1>5, <2>1, <2>2
  <2>3. CASE m.sym # None
    BY <1>0, <1>6, <1>7, <2>1, <2>3
  <2> QED  BY <2>2, <2>3
<1>9. ASSUME NEW x \in Message, AfterWire(x), Before(m, x)
      PROVE  x.type \in Numbered /\ "overlap" \notin spoiled' => wire'[x.sym][x.type] < x.seq
  <2> SUFFICES ASSUME x.type \in Numbered, "overlap" \notin spoiled'
               PROVE  wire'[x.sym][x.type] < x.seq
    OBVIOUS
  <2>1. x.sym \in Symbols /\ wire[x.sym][x.type] < x.seq
    BY <1>4, <1>9 DEF Message, Numbered, AfterWire
  <2>2. CASE x.sym = m.sym /\ x.type = m.type
    BY <1>8, <1>9, <2>1, <2>2 DEF Before, SameStream
  <2>3. CASE ~(x.sym = m.sym /\ x.type = m.type)
    BY <1>8, <2>1, <2>3
  <2> QED  BY <2>2, <2>3
<1>10. \A x : AfterPending(x) => Before(m, x)
  BY <1>2 DEF AfterPending, AllBefore
<1>11. \A x : AfterPending(x) => \A g \in Flushers : AllBefore(pending'[g], x)
  <2> SUFFICES ASSUME NEW x, AfterPending(x), NEW g \in Flushers,
                      NEW i \in DOMAIN pending'[g]
               PROVE  Before(pending'[g][i], x)
    BY DEF AllBefore
  <2>1. CASE g = f
    BY <1>3, <2>1 DEF AfterPending, AllBefore
  <2>2. CASE g # f
    BY <1>2, <2>2 DEF AfterPending, AllBefore
  <2> QED  BY <2>1, <2>2
<1>12. PendingOrder'
  <2> SUFFICES ASSUME NEW g \in Flushers
               PROVE  /\ Sorted(pending'[g])
                      /\ \A i \in DOMAIN pending'[g] :
                           (AfterWire(pending[g][i]) /\ Capped(pending[g][i]))'
    BY DEF PendingOrder, Sorted
  <2>0. \A h \in Flushers : \A i \in DOMAIN pending[h] :
          pending[h][i] \in Message /\ AfterWire(pending[h][i]) /\ Capped(pending[h][i])
    BY <1>0 DEF Ordered, PendingOrder
  <2>1. CASE g = f
    <3>1. Sorted(pending'[f])
      BY <1>3 DEF Ordered, PendingOrder, Sorted
    <3>2. ASSUME NEW i \in DOMAIN pending'[f]
          PROVE  (AfterWire(pending[f][i]) /\ Capped(pending[f][i]))'
      <4>1. PICK x \in Message : /\ x = pending'[f][i] /\ x = pending[f][i + 1]
                                 /\ AfterWire(x) /\ Capped(x)
        BY <1>3, <2>0
      <4>2. Before(m, x)
        BY <1>2, <1>3, <4>1 DEF Ordered, PendingOrder, Sorted
      <4>3. x.type \in Numbered /\ "overlap" \notin spoiled' => wire'[x.sym][x.type] < x.seq
        BY <1>9, <4>1, <4>2
      <4> QED  BY <1>1, <4>1, <4>3 DEF AfterWire, Capped, Issued
    <3> QED  BY <2>1, <3>1, <3>2
  <2>2. CASE g # f
    <3>1. pending'[g] = pending[g]
      BY <1>2, <2>2
    <3>2. "overlap" \notin spoiled' => DOMAIN pending[g] = {}
      BY <1>4, <2>2
    <3>3. Sorted(pending'[g])
      BY <3>1 DEF Ordered, PendingOrder
    <3>4. \A i \in DOMAIN pending'[g] : AfterWire(pending[g][i])'
      BY <3>1, <3>2 DEF AfterWire
    <3>5. \A i \in DOMAIN pending'[g] : Capped(pending[g][i])'
      BY <1>1, <2>0, <3>1 DEF Capped, Issued
    <3> QED  BY <3>3, <3>4, <3>5
  <2> QED  BY <2>1, <2>2
<1>13. ASSUME NEW x \in Message, AfterWire(x), AfterPending(x), Capped(x)
       PROVE  /\ x.type \in Numbered /\ "overlap" \notin spoiled' => wire'[x.sym][x.type] < x.seq
              /\ \A g \in Flushers : AllBefore(pending'[g], x)
              /\ Capped(x)'
  <2>1. Capped(x)'
    BY <1>1, <1>13 DEF Capped, Issued
  <2> QED  BY <1>9, <1>10, <1>11, <1>13, <2>1
<1>14. QueueOrder'
  <2>1. \A i \in DOMAIN queue : queue[i] \in Message
    BY <1>0
  <2>2. \A i \in DOMAIN queue : AfterWire(queue[i]) /\ AfterPending(queue[i]) /\ Capped(queue[i])
    BY DEF Ordered, QueueOrder
  <2>3. ASSUME NEW i \in DOMAIN queue
        PROVE  (AfterWire(queue[i]) /\ AfterPending(queue[i]) /\ Capped(queue[i]))'
    <3>1. PICK x \in Message : x = queue[i]
      BY <2>1
    <3>2. /\ x.type \in Numbered /\ "overlap" \notin spoiled' => wire'[x.sym][x.type] < x.seq
          /\ \A g \in Flushers : AllBefore(pending'[g], x)
          /\ Capped(x)'
      BY <1>13, <2>2, <3>1
    <3> QED  BY <1>1, <3>1, <3>2 DEF AfterWire, AfterPending, Capped, Issued
  <2> QED  BY <1>1, <2>3 DEF Ordered, QueueOrder
<1>15. HandOrder'
  <2> SUFFICES ASSUME NEW t \in Threads, Coming(t)'
               PROVE  (/\ AfterWire(msg[t]) /\ AfterPending(msg[t]) /\ AllBefore(queue, msg[t])
                       /\ Capped(msg[t]))'
    BY DEF HandOrder
  <2>1. PICK x \in Message : x = msg[t] /\ x = msg'[t]
    BY <1>0, <1>1
  <2>2. AfterWire(x) /\ AfterPending(x) /\ AllBefore(queue, x) /\ Capped(x)
    BY <1>1, <2>1 DEF Ordered, HandOrder
  <2>3. /\ x.type \in Numbered /\ "overlap" \notin spoiled' => wire'[x.sym][x.type] < x.seq
        /\ \A g \in Flushers : AllBefore(pending'[g], x)
        /\ Capped(x)'
    BY <1>13, <2>2
  <2> QED  BY <1>1, <2>1, <2>2, <2>3 DEF AfterWire, AfterPending, AllBefore, Capped, Issued
<1>16. BatchOrder'
  <2>1. \A i \in DOMAIN batch : batch[i] \in Message
    BY <1>0
  <2>2. ASSUME NEW i \in DOMAIN batch
        PROVE  (/\ AfterWire(batch[i]) /\ AfterPending(batch[i])
                /\ AllBefore(queue, batch[i]) /\ Capped(batch[i]))'
    <3>1. PICK x \in Message : x = batch[i]
      BY <2>1
    <3>2. AfterWire(x) /\ AfterPending(x) /\ AllBefore(queue, x) /\ Capped(x)
      BY <3>1 DEF Ordered, BatchOrder
    <3>3. /\ x.type \in Numbered /\ "overlap" \notin spoiled' => wire'[x.sym][x.type] < x.seq
          /\ \A g \in Flushers : AllBefore(pending'[g], x)
          /\ Capped(x)'
      BY <1>13, <3>2
    <3> QED  BY <1>1, <3>1, <3>2, <3>3 DEF AfterWire, AfterPending, AllBefore, Capped, Issued
  <2>3. \A i \in DOMAIN batch : Coming("loop")' => Before(msg'["loop"], batch[i])
    BY <1>1 DEF Ordered, BatchOrder, Threads
  <2> QED  BY <1>1, <2>2, <2>3 DEF Ordered, BatchOrder, Sorted
<1>17. WireOrder'
  <2>1. m.type \in Numbered => m.seq <= Issued(m.sym, m.type)
    BY <1>2 DEF Ordered, PendingOrder, Capped
  <2> QED  BY <1>1, <1>8, <2>1 DEF Ordered, WireOrder, Issued
<1> QED  BY <1>12, <1>14, <1>15, <1>16, <1>17 DEF Ordered

\* A response is numbered above all others of its symbol.
LEMMA AskOrder ==
  ASSUME TInv, Ordered, NEW a \in Asks, NEW s \in Symbols, Ask(a, s)
  PROVE  Ordered'
<1> USE DEF flushVars, sourceVars, clientVars, threadVars
<1>0. /\ queue \in Seq(Message) /\ pending \in [Flushers -> Seq(Message)]
      /\ batch \in Seq(Message) /\ msg \in [Threads -> Message]
      /\ wire \in [Symbols -> [Types -> Nat]] /\ answered \in [Symbols -> Nat]
      /\ published \in [Symbols -> Nat]
  BY DEF TInv, RestOK, ThreadsOK
<1>1. /\ queue' = queue /\ pending' = pending /\ batch' = batch /\ wire' = wire
      /\ published' = published /\ spoiled' = spoiled
      /\ answered' = IF ResponseType(a) = "health" THEN answered
                     ELSE [answered EXCEPT ![s] = @ + 1]
  BY DEF Ask
<1> DEFINE r == [Response(a, s) EXCEPT !.sym = IF a = "unsubscribe" THEN s ELSE @]
<1>2. msg' = [msg EXCEPT !["worker"] = r]
  BY DEF Ask
<1>3. a # "unsubscribe" =>
        /\ r.type = ResponseType(a)
        /\ r.type \in {"snapshot", "holding_name_click_response", "health"}
        /\ r.type = "health" => r.sym = None
        /\ r.type # "health" => r.sym = s /\ r.seq = answered[s] + 1
  BY DEF Response, ResponseType, Health
<1> HIDE DEF r
<1>4. /\ msg'["worker"] = r /\ msg'["loop"] = msg["loop"]
      /\ Coming("loop")' => Coming("loop")
      /\ Coming("worker")' => a # "unsubscribe"
  BY <1>0, <1>2 DEF Ask, Goto, Coming, Threads, TInv, ThreadsOK
<1>5. \A z \in Symbols : /\ answered[z] \in Nat /\ answered'[z] \in Nat
                         /\ answered[z] <= answered'[z]
  BY <1>0, <1>1
<1>6. \A z \in Symbols : published[z] \in Nat
  BY <1>0
<1>7. ASSUME NEW x \in Message, Capped(x)
      PROVE  Capped(x)' /\ (a # "unsubscribe" => Before(x, r))
  <2>1. x.seq \in Nat /\ (x.type \in Numbered => x.sym \in Symbols)
    BY DEF Message, Numbered
  <2>2. Capped(x)'
    BY <1>1, <1>5, <1>7, <2>1 DEF Capped, Issued
  <2>3. a # "unsubscribe" => Before(x, r)
    <3> SUFFICES ASSUME a # "unsubscribe", x.type \in Numbered, SameStream(x, r)
                 PROVE  x.seq < r.seq
      BY DEF Before
    <3>1. x.type = "holding_name_click_response" /\ x.sym = s /\ r.seq = answered[s] + 1
      BY <1>3 DEF Numbered, SameStream
    <3> QED  BY <1>5, <1>7, <2>1, <3>1 DEF Capped, Issued
  <2> QED  BY <2>2, <2>3
<1>8. PendingOrder'
  <2>1. \A f \in Flushers : \A i \in DOMAIN pending[f] :
          pending[f][i] \in Message /\ Capped(pending[f][i])
    BY <1>0 DEF Ordered, PendingOrder
  <2>2. \A f \in Flushers : \A i \in DOMAIN pending[f] : Capped(pending[f][i])'
    BY <1>1, <1>7, <2>1
  <2> QED  BY <1>1, <2>2 DEF Ordered, PendingOrder, Sorted, AfterWire
<1>9. QueueOrder'
  <2>1. \A i \in DOMAIN queue : queue[i] \in Message /\ Capped(queue[i])
    BY <1>0 DEF Ordered, QueueOrder
  <2>2. \A i \in DOMAIN queue : Capped(queue[i])'
    BY <1>1, <1>7, <2>1
  <2> QED  BY <1>1, <2>2 DEF Ordered, QueueOrder, Sorted, AfterWire, AfterPending, AllBefore
<1>10. BatchOrder'
  <2>1. \A i \in DOMAIN batch : batch[i] \in Message /\ Capped(batch[i])
    BY <1>0 DEF Ordered, BatchOrder
  <2>2. \A i \in DOMAIN batch : Capped(batch[i])'
    BY <1>1, <1>7, <2>1
  <2> QED
    BY <1>1, <1>4, <2>2 DEF Ordered, BatchOrder, Sorted, AfterWire, AfterPending, AllBefore
<1>11. WireOrder'
  <2> SUFFICES ASSUME NEW z \in Symbols, NEW y \in Numbered
               PROVE  wire[z][y] <= Issued(z, y)'
    BY <1>1 DEF WireOrder
  <2>1. wire[z][y] <= Issued(z, y) /\ wire[z][y] \in Nat
    BY <1>0 DEF Ordered, WireOrder, Numbered
  <2> QED  BY <1>1, <1>5, <2>1 DEF Issued
<1>12. HandOrder'
  <2>1. Coming("loop")' =>
          (/\ AfterWire(msg["loop"]) /\ AfterPending(msg["loop"])
           /\ AllBefore(queue, msg["loop"]) /\ Capped(msg["loop"]))'
    <3> SUFFICES ASSUME Coming("loop")'
                 PROVE  (/\ AfterWire(msg["loop"]) /\ AfterPending(msg["loop"])
                         /\ AllBefore(queue, msg["loop"]) /\ Capped(msg["loop"]))'
      OBVIOUS
    <3>1. PICK x \in Message : x = msg["loop"] /\ x = msg'["loop"]
      BY <1>0, <1>4 DEF Threads
    <3>2. AfterWire(x) /\ AfterPending(x) /\ AllBefore(queue, x) /\ Capped(x)
      BY <1>4, <3>1 DEF Ordered, HandOrder, Threads
    <3>3. Capped(x)'
      BY <1>7, <3>2
    <3> QED  BY <1>1, <3>1, <3>2, <3>3 DEF AfterWire, AfterPending, AllBefore, Capped, Issued
  <2>2. Coming("worker")' =>
          (/\ AfterWire(msg["worker"]) /\ AfterPending(msg["worker"])
           /\ AllBefore(queue, msg["worker"]) /\ Capped(msg["worker"]))'
    <3> SUFFICES ASSUME a # "unsubscribe"
                 PROVE  (/\ AfterWire(msg["worker"]) /\ AfterPending(msg["worker"])
                         /\ AllBefore(queue, msg["worker"]) /\ Capped(msg["worker"]))'
      BY <1>4
    <3>1. \A f \in Flushers : AllBefore(pending[f], r)
      <4>1. \A f \in Flushers : \A i \in DOMAIN pending[f] :
              pending[f][i] \in Message /\ Capped(pending[f][i])
        BY <1>0 DEF Ordered, PendingOrder
      <4> QED  BY <1>7, <4>1 DEF AllBefore
    <3>2. AllBefore(queue, r)
      <4>1. \A i \in DOMAIN queue : queue[i] \in Message /\ Capped(queue[i])
        BY <1>0 DEF Ordered, QueueOrder
      <4> QED  BY <1>7, <4>1 DEF AllBefore
    <3>3. r.type \in Numbered =>
            /\ r.type = "holding_name_click_response" /\ r.sym = s
            /\ r.seq = answered[s] + 1 /\ answered'[s] = answered[s] + 1
      BY <1>0, <1>1, <1>3 DEF Numbered
    <3>4. r.type \in Numbered => wire[r.sym][r.type] < r.seq
      <4> SUFFICES ASSUME r.type \in Numbered  PROVE wire[r.sym][r.type] < r.seq
        OBVIOUS
      <4>1. wire[s][r.type] \in Nat /\ wire[s][r.type] <= answered[s]
        BY <1>0, <3>3 DEF Ordered, WireOrder, Issued, Numbered
      <4> QED  BY <1>5, <3>3, <4>1
    <3>5. /\ r.type \in Numbered => /\ r.seq <= answered'[r.sym]
                                    /\ r.type = "holding_name_click_response"
          /\ r.type = "health" => r.sym = None
      BY <1>3, <1>5, <3>3
    <3> QED
      BY <1>1, <1>4, <3>1, <3>2, <3>4, <3>5
      DEF AfterWire, AfterPending, Capped, Issued, AllBefore
  <2> QED  BY <2>1, <2>2 DEF HandOrder, Threads
<1> QED  BY <1>8, <1>9, <1>10, <1>11, <1>12 DEF Ordered

\* enqueue touches nothing on the path but the queue.
LEMMA EnqueueOnlyQueue ==
  ASSUME TInv, NEW t \in Threads, EnqueueStep(t)
  PROVE  OnlyQueue /\ Coming(t)
<1> USE DEF restEnqueue, flushVars, sourceVars, clientVars
<1>1. msg' = msg /\ Coming(t) /\ \A u \in Threads : Coming(u)' => Coming(u)
  BY EnqueueComing
<1>2. UNCHANGED <<pending, batch, wire, published, answered>>
  BY DEF EnqueueStep, Search, Replace, Check, Scan, Delete, Recheck, AppendMessage
<1> QED  BY <1>1, <1>2 DEF OnlyQueue

\* Every step keeps the path in order, as long as no index is stale.
LEMMA OrderInductive ==
  ASSUME TInv, TInv', KindInv, IndexInv, SearchInv, OrderInv, [Next]_vars
  PROVE  OrderInv'
<1> SUFFICES ASSUME "race" \notin spoiled'  PROVE Ordered'
  BY DEF OrderInv
<1>0. /\ spoiled \subseteq spoiled' /\ "race" \notin spoiled /\ Ordered /\ Coalesced
      /\ queue \in Seq(Message) /\ "loop" \in Threads /\ "worker" \in Threads
  BY SpoiledStays DEF OrderInv, SearchInv, TInv, RestOK, Threads
<1>1. CASE Still
  BY <1>0, <1>1, StillOrder
<1>2. ASSUME NEW t \in Threads, Replace(t), index[t] \in DOMAIN queue
      PROVE  Ordered'
  <2>1. EnqueueStep(t) /\ pc[t] = "replace"
    BY <1>2 DEF EnqueueStep, Replace
  <2>2. t = "loop"
    <3>1. msg[t].type \in Coalescible
      BY <2>1 DEF IndexInv, LooksAt
    <3> QED  BY <3>1 DEF Threads, KindInv, Coalescible, Critical
  <2>3. ~Coming("loop")'
    <3>1. pc'[t] = "broadcast"
      BY <1>2, <2>2, GotoSplit DEF Replace, Return
    <3> QED  BY <2>2, <3>1 DEF Coming
  <2> QED  BY <1>0, <1>2, <2>1, <2>2, <2>3, EnqueueOnlyQueue, ReplaceOrder
<1>3. ASSUME NEW t \in Threads, Delete(t)  PROVE Ordered'
  BY <1>0, <1>3, EnqueueOnlyQueue, DeleteThins, ThinnedOrder DEF EnqueueStep
<1>4. ASSUME NEW t \in Threads, AppendMessage(t)  PROVE Ordered'
  <2>1. ~Coming(t)'
    <3>1. pc'[t] = Return(t)
      BY <1>4, MoveSplit DEF AppendMessage
    <3> QED  BY <3>1 DEF Coming, Return
  <2>2. OnlyQueue /\ Coming(t)
    BY <1>4, EnqueueOnlyQueue DEF EnqueueStep
  <2> QED  BY <1>0, <1>4, <2>1, <2>2, AppendOrder
<1>5. CASE Broadcast
  BY <1>0, <1>5, BroadcastOrder
<1>6. CASE \E s \in Symbols, y \in DeltaTypes : Publish(s, y)
  BY <1>0, <1>6, PublishOrder
<1>7. CASE \E f \in Flushers : Pop(f) \/ DrainEnd(f) \/ Send(f) \/ SendFails(f)
  BY <1>0, <1>7, PopOrder, DrainEndOrder, SendOrder, SendFailsOrder
<1>8. CASE \E a \in Asks, s \in Symbols : Ask(a, s)
  BY <1>0, <1>8, AskOrder
<1> QED  BY <1>1, <1>2, <1>3, <1>4, <1>5, <1>6, <1>7, <1>8, StepKinds

LEMMA OrderInitially == Init => Ordered
<1> SUFFICES ASSUME Init  PROVE Ordered
  OBVIOUS
<1>1. /\ queue = <<Health>> /\ batch = <<>> /\ \A f \in Flushers : pending[f] = <<>>
      /\ \A t \in Threads : pc[t] = "free"
      /\ \A s \in Symbols, y \in Types : wire[s][y] = 0
      /\ \A s \in Symbols : published[s] = 0 /\ answered[s] = 0
  BY DEF Init
<1>2. DOMAIN queue = {1} /\ queue[1] = Health /\ DOMAIN batch = {}
      /\ \A f \in Flushers : DOMAIN pending[f] = {}
  BY <1>1
<1>3. Health.type = "health" /\ Health.sym = None /\ "health" \notin Numbered
  BY DEF Health, Numbered
<1>4. PendingOrder /\ BatchOrder
  BY <1>2 DEF PendingOrder, BatchOrder, Sorted
<1>5. QueueOrder
  BY <1>2, <1>3 DEF QueueOrder, Sorted, AfterWire, AfterPending, AllBefore, Capped
<1>6. HandOrder
  BY <1>1 DEF HandOrder, Coming
<1>7. WireOrder
  BY <1>1 DEF WireOrder, Issued, Numbered
<1> QED  BY <1>4, <1>5, <1>6, <1>7 DEF Ordered

\* The path from the tick to the wire is in order.
THEOREM SpecOrder == Spec => []OrderInv
<1>1. Init => OrderInv
  BY OrderInitially DEF OrderInv
<1>2. TInv /\ TInv' /\ KindInv /\ IndexInv /\ SearchInv /\ OrderInv /\ [Next]_vars => OrderInv'
  BY OrderInductive
<1> QED
  BY <1>1, <1>2, SpecTypes, SpecKinds, SpecIndex, SpecSearch, PTL DEF Spec

\* A queued delta of which one step takes its place.
Yields(i) ==
  \/ \E j \in 1 .. i :
       /\ j \in DOMAIN queue'
       /\ queue'[j].type = queue[i].type /\ queue'[j].sym = queue[i].sym
       /\ queue'[j].seq >= queue[i].seq
  \/ i = 1 /\ pc["loop"] = "drain"
  \/ \E t \in Threads : pc[t] = "delete" /\ ~(msg[t].type \in Coalescible)

\* One step takes a queued delta out only as DeltasKept allows.
LEMMA StepKeepsDeltas ==
  ASSUME TInv, KindInv, IndexInv, OrderInv, [Next]_vars, "race" \notin spoiled',
         NEW i \in DOMAIN queue, queue[i].type \in Coalescible
  PROVE  Yields(i)
<1>0. /\ queue \in Seq(Message) /\ i \in 1 .. Len(queue) /\ i \in 1 .. i
      /\ Len(queue) \in Nat /\ spoiled \subseteq spoiled' /\ queue[i].seq \in Nat
  BY SpoiledStays DEF TInv, RestOK, Message
<1>1. CASE i \in DOMAIN queue' /\ queue'[i] = queue[i]
  BY <1>0, <1>1 DEF Yields
<1>2. CASE Still
  BY <1>1, <1>2 DEF Still
<1>3. ASSUME NEW t \in Threads, Replace(t), index[t] \in DOMAIN queue
      PROVE  Yields(i)
  <2> DEFINE k == index[t]
  <2>1. queue' = [queue EXCEPT ![k] = msg[t]] /\ pc[t] = "replace" /\ ~moved[t]
    BY <1>3 DEF Replace
  <2> HIDE DEF k
  <2>2. DOMAIN queue' = DOMAIN queue
        /\ \A j \in DOMAIN queue : queue'[j] = IF j = k THEN msg[t] ELSE queue[j]
    BY <1>0, <2>1
  <2>3. CASE i # k
    BY <1>1, <2>2, <2>3
  <2>4. CASE i = k
    <3>1. msg[t].type \in Coalescible /\ SameStream(msg[t], queue[i])
      BY <1>0, <1>3, <2>1, <2>4 DEF IndexInv, LooksAt, k
    <3>2. msg[t].type \in Numbered /\ AllBefore(queue, msg[t])
      <4>1. Coming(t)
        BY <2>1 DEF Coming
      <4> QED
        BY <1>0, <3>1, <4>1
        DEF OrderInv, Ordered, HandOrder, Numbered, Types, Coalescible
    <3>3. queue[i].seq < msg[t].seq /\ msg[t].seq \in Nat
      BY <1>0, <3>1, <3>2 DEF AllBefore, Before, SameStream, TInv, ThreadsOK, Message
    <3> QED  BY <1>0, <2>2, <2>4, <3>1, <3>3 DEF Yields, SameStream
  <2> QED  BY <2>3, <2>4
<1>4. ASSUME NEW t \in Threads, Delete(t), index[t] \in DOMAIN queue
      PROVE  Yields(i)
  <2>1. ~moved[t] /\ pc[t] = "delete" /\ "race" \notin spoiled
    BY <1>0, <1>4 DEF Delete
  <2>2. Droppable(msg[t], queue[index[t]])
    BY <2>1 DEF IndexInv, LooksAt
  <2>3. msg[t].type \notin Coalescible
    BY <2>2 DEF Droppable, IsAlert, IsCritical, Critical, Coalescible
  <2> QED  BY <2>1, <2>3 DEF Yields
<1>5. ASSUME NEW t \in Threads, AppendMessage(t)  PROVE Yields(i)
  <2>1. i \in DOMAIN queue' /\ queue'[i] = queue[i]
    BY <1>0, <1>5, AppendShape
  <2> QED  BY <1>1, <2>1
<1>6. ASSUME NEW f \in Flushers, Pop(f)  PROVE Yields(i)
  <2>1. CASE i = 1
    BY <1>6, <2>1 DEF Pop, Yields
  <2>2. CASE i # 1
    <3>1. /\ i - 1 \in 1 .. i /\ i - 1 \in 1 .. Len(queue) - 1 /\ (i - 1) + 1 = i
      BY <1>0, <2>2
    <3>2. i - 1 \in DOMAIN queue' /\ queue'[i - 1] = queue[i]
      BY <1>6, <3>1, PopThins
    <3> QED  BY <1>0, <3>1, <3>2 DEF Yields
  <2> QED  BY <2>1, <2>2
<1>7. CASE \/ Broadcast \/ \E s \in Symbols, y \in DeltaTypes : Publish(s, y)
           \/ \E f \in Flushers : DrainEnd(f) \/ Send(f) \/ SendFails(f)
           \/ \E a \in Asks, s \in Symbols : Ask(a, s)
  BY <1>1, <1>7 DEF Broadcast, Publish, DrainEnd, Send, SendFails, Ask
<1> QED  BY <1>2, <1>3, <1>4, <1>5, <1>6, <1>7, StepKinds

\* A queued delta makes way for a newer one of its stream, for a message that
\* is worth more, or for the drain, whatever two threads do to the queue, as
\* long as no index is stale.
THEOREM DeltasKeptHolds == Spec => DeltasKept
<1>1. TInv /\ KindInv /\ IndexInv /\ OrderInv /\ [Next]_vars =>
        [\A i \in DOMAIN queue :
           queue[i].type \in Coalescible =>
             \/ \E j \in 1 .. i :
                  /\ j \in DOMAIN queue'
                  /\ queue'[j].type = queue[i].type /\ queue'[j].sym = queue[i].sym
                  /\ queue'[j].seq >= queue[i].seq
             \/ i = 1 /\ pc["loop"] = "drain"
             \/ \E t \in Threads : pc[t] = "delete" /\ ~(msg[t].type \in Coalescible)
             \/ "race" \in spoiled']_vars
  <2> SUFFICES ASSUME TInv, KindInv, IndexInv, OrderInv, [Next]_vars,
                      "race" \notin spoiled',
                      NEW i \in DOMAIN queue, queue[i].type \in Coalescible
               PROVE  Yields(i)
    BY DEF Yields
  <2> QED  BY StepKeepsDeltas
<1> QED
  BY <1>1, SpecTypes, SpecKinds, SpecIndex, SpecOrder, PTL DEF Spec, DeltasKept

\* One step raises the number last sent, or leaves it.
LEMMA StepSendsInOrder ==
  ASSUME TInv, OrderInv, [Next]_vars, spoiled' \cap {"race", "overlap"} = {},
         NEW s \in Symbols, NEW y \in Types \ {"snapshot"}, wire'[s][y] # wire[s][y]
  PROVE  wire'[s][y] > wire[s][y]
<1> USE DEF flushVars, sourceVars, clientVars, threadVars, restEnqueue
<1>1. PICK f \in Flushers : Send(f)
  <2>1. CASE Still
    BY <2>1 DEF Still
  <2>2. CASE \E t \in Threads : Replace(t) \/ Delete(t) \/ AppendMessage(t)
    BY <2>2 DEF Replace, Delete, AppendMessage
  <2>3. CASE \/ Broadcast \/ \E r \in Symbols, z \in DeltaTypes : Publish(r, z)
             \/ \E f \in Flushers : Pop(f) \/ DrainEnd(f) \/ SendFails(f)
             \/ \E a \in Asks, r \in Symbols : Ask(a, r)
    BY <2>3 DEF Broadcast, Publish, Pop, DrainEnd, SendFails, Ask
  <2> QED  BY <2>1, <2>2, <2>3, StepKinds
<1>2. spoiled \subseteq spoiled' /\ "race" \notin spoiled /\ "overlap" \notin spoiled
  BY SpoiledStays
<1> DEFINE m == Head(pending[f])
<1>3. /\ pending[f] \in Seq(Message) /\ pending[f] # <<>> /\ 1 \in DOMAIN pending[f]
      /\ m = pending[f][1] /\ m \in Message
  <2>1. pending[f] \in Seq(Message) /\ pending[f] # <<>>
    BY <1>1 DEF Send, TInv, RestOK
  <2> QED  BY <2>1
<1>4. m.sym # None /\ wire' = [wire EXCEPT ![m.sym][m.type] = m.seq]
  <2>1. CASE m.sym = None
    BY <1>1, <2>1 DEF Send, Show
  <2>2. CASE m.sym # None
    BY <1>1, <2>2 DEF Send, Show
  <2> QED  BY <2>1, <2>2
<1> HIDE DEF m
<1>5. /\ wire \in [Symbols -> [Types -> Nat]] /\ m.sym \in Symbols /\ m.type \in Types
      /\ m.seq \in Nat
  BY <1>3, <1>4 DEF TInv, RestOK, Message
<1>6. m.sym = s /\ m.type = y /\ wire'[s][y] = m.seq /\ wire[s][y] \in Nat
  BY <1>4, <1>5
<1>7. AfterWire(m) /\ Capped(m)
  BY <1>2, <1>3 DEF OrderInv, Ordered, PendingOrder
<1>8. y # "health"
  BY <1>4, <1>6, <1>7 DEF Capped
<1> QED  BY <1>2, <1>5, <1>6, <1>7, <1>8 DEF AfterWire, Numbered

\* What reaches the client of one kind is in the order in which it was
\* numbered, across coalescing, drops and both coroutines' flushes, as long
\* as only one coroutine sends at a time and no index is stale.
THEOREM KindInOrderHolds == Spec => KindInOrder
<1>1. TInv /\ OrderInv /\ [Next]_vars =>
        [\A s \in Symbols, y \in Types \ {"snapshot"} :
           wire'[s][y] # wire[s][y] =>
             wire'[s][y] > wire[s][y] \/ spoiled' \cap {"race", "overlap"} # {}]_vars
  BY StepSendsInOrder
<1> QED  BY <1>1, SpecTypes, SpecOrder, PTL DEF Spec, KindInOrder

-----------------------------------------------------------------------------
(* Alerts between snapshot and deltas.  A snapshot that is still to be     *)
(* serialized will hold all alerts of that moment.  Without one, each      *)
(* alert of the state is shown, or on its way to be.                       *)

PhaseInv ==
  /\ pc["worker"] # "free" <=> flush["handler"] = "serving"
  /\ \A f \in Flushers : pending[f] # <<>> => flush[f] \in {"draining", "sending"}
  /\ pc["loop"] \notin {"free", "drain", "stopped"} => flush["broadcast"] = "idle"
  /\ pc["worker"] = "join" => msg["worker"].type = "snapshot"

\* Three ways to say that a sequence is empty.
LEMMA EmptyLooks ==
  ASSUME NEW S, NEW q \in Seq(S)
  PROVE  /\ q = <<>> <=> Len(q) = 0
         /\ q = <<>> <=> DOMAIN q = {}
         /\ Len(q) = 1 => Tail(q) = <<>>
<1>1. q = <<>> <=> Len(q) = 0
  BY EmptySeq
<1>2. DOMAIN q = 1 .. Len(q) /\ Len(q) \in Nat
  OBVIOUS
<1>3. DOMAIN q = {} <=> Len(q) = 0
  <2>1. Len(q) # 0 => 1 \in 1 .. Len(q)
    BY <1>2
  <2>2. Len(q) = 0 => 1 .. Len(q) = {}
    OBVIOUS
  <2> QED  BY <1>2, <2>1, <2>2
<1>4. Len(q) = 1 => Tail(q) \in Seq(S) /\ Len(Tail(q)) = 0
  <2> SUFFICES ASSUME Len(q) = 1  PROVE Tail(q) \in Seq(S) /\ Len(Tail(q)) = 0
    OBVIOUS
  <2>1. q # <<>>
    BY <1>1
  <2> QED  BY <2>1, HeadTailProperties
<1>5. Len(q) = 1 => Tail(q) = <<>>
  BY <1>4, EmptySeq
<1> QED  BY <1>1, <1>3, <1>5

\* Every step keeps the phases of the coroutines and the worker in line.
LEMMA PhaseInductive ==
  ASSUME TInv, TInv', PhaseInv, [Next]_vars
  PROVE  PhaseInv'
<1> USE DEF flushVars, sourceVars, clientVars, threadVars, restEnqueue
<1>0. /\ pc \in [Threads -> LoopLabels \cup WorkerLabels] /\ "loop" \in Threads
      /\ "worker" \in Threads /\ msg \in [Threads -> Message]
      /\ "handler" \in Flushers /\ "broadcast" \in Flushers
      /\ flush \in [Flushers -> {"idle", "serving", "due", "draining", "sending"}]
      /\ pending \in [Flushers -> Seq(Message)]
  BY DEF TInv, ThreadsOK, RestOK, Threads, Flushers
<1>1. ASSUME NEW t \in Threads, EnqueueStep(t)  PROVE PhaseInv'
  <2>1. flush' = flush /\ pending' = pending
    BY <1>1 DEF EnqueueStep, Search, Replace, Check, Scan, Delete, Recheck, AppendMessage
  <2>2. msg' = msg /\ Coming(t) /\ pc[t] # "join"
    BY <1>1, EnqueueComing
    DEF EnqueueStep, Search, Replace, Check, Scan, Delete, Recheck, AppendMessage
  <2>3. pc[t] \notin {"free", "drain", "stopped"}
    BY <2>2 DEF Coming
  <2>4. \A u \in Threads \ {t} : pc'[u] = pc[u]
    BY <1>1, EnqueueComing
  <2>5. pc'[t] \notin {"free", "join"}
    <3>1. \/ pc'[t] \in {"search", "replace", "check", "scan", "delete", "recheck", "append"}
          \/ pc'[t] = Return(t) \/ pc'[t] = Raise(t)
      BY ZenonT(40), <1>0, <1>1, GotoSplit, MoveSplit
      DEF EnqueueStep, Search, Replace, Check, Scan, Delete, Recheck, AppendMessage
    <3> QED  BY <3>1 DEF Return, Raise
  <2> QED  BY <2>1, <2>2, <2>3, <2>4, <2>5 DEF PhaseInv, Threads
<1>2. CASE TickStart \/ PublishEnd \/ BroadcastEnd
  <2>1. /\ pc' \in {[pc EXCEPT !["loop"] = l] : l \in {"publish", "broadcast", "free"}}
        /\ pending' = pending /\ msg' = msg
    BY <1>2 DEF TickStart, PublishEnd, BroadcastEnd, LoopGoes
  <2>2. pc'["worker"] = pc["worker"]
    BY <1>0, <2>1
  <2>3. CASE TickStart \/ PublishEnd
    <3>1. flush' = flush /\ flush["broadcast"] = "idle"
      BY <2>3 DEF TickStart, PublishEnd, LoopGoes, PhaseInv
    <3> QED  BY <2>1, <2>2, <3>1 DEF PhaseInv
  <2>4. CASE BroadcastEnd
    <3>1. /\ flush' = [flush EXCEPT !["broadcast"] = "due"] /\ flush["broadcast"] = "idle"
          /\ pc'["loop"] = "free"
      BY <1>0, <2>4 DEF BroadcastEnd, LoopGoes, PhaseInv
    <3>2. pending["broadcast"] = <<>>
      BY <1>0, <3>1 DEF PhaseInv
    <3> QED  BY <1>0, <2>1, <2>2, <3>1, <3>2 DEF PhaseInv, Flushers
  <2> QED  BY <1>2, <2>3, <2>4
<1>3. CASE Broadcast
  <2>1. /\ flush' = flush /\ pending' = pending /\ pc["loop"] = "broadcast"
        /\ pc'["worker"] = pc["worker"] /\ msg'["worker"] = msg["worker"]
    <3>1. CASE UNCHANGED threadVars
      BY <1>3, <3>1 DEF Broadcast
    <3>2. CASE Enqueue("loop", Head(batch))
      <4>1. pc'["worker"] = pc["worker"]
        BY <1>0, <3>2 DEF Enqueue, Goto, Threads
      <4>2. msg'["worker"] = msg["worker"]
        BY <1>0, <3>2 DEF Enqueue, Threads
      <4> QED  BY <1>3, <4>1, <4>2 DEF Broadcast
    <3> QED  BY <1>3, <3>1, <3>2 DEF Broadcast
  <2> QED  BY <2>1 DEF PhaseInv
<1>4. ASSUME NEW f \in Flushers, FlushStart(f)  PROVE PhaseInv'
  <2>1. /\ pending' = pending /\ msg' = msg /\ flush[f] = "due" /\ pc["loop"] = "free"
        /\ pc'["loop"] \in {"free", "drain"} /\ pc'["worker"] = pc["worker"]
        /\ flush' \in {[flush EXCEPT ![f] = "draining"], [flush EXCEPT ![f] = "idle"]}
    BY <1>0, <1>4 DEF FlushStart, LoopGoes, Threads
  <2>2. pending[f] = <<>>
    BY <2>1 DEF PhaseInv
  <2>3. flush'["handler"] = "serving" <=> flush["handler"] = "serving"
    BY <1>0, <2>1
  <2>4. \A g \in Flushers : pending'[g] # <<>> => flush'[g] = flush[g]
    BY <1>0, <2>1, <2>2
  <2> QED  BY <2>1, <2>3, <2>4 DEF PhaseInv
<1>5. ASSUME NEW f \in Flushers, Pop(f)  PROVE PhaseInv'
  <2>1. /\ flush' = flush /\ msg' = msg /\ flush[f] = "draining"
        /\ pc'["loop"] = "drain" /\ pc'["worker"] = pc["worker"]
        /\ \A g \in Flushers \ {f} : pending'[g] = pending[g]
    <3>1. /\ flush' = flush /\ msg' = msg /\ flush[f] = "draining"
          /\ pending' = [pending EXCEPT ![f] = Append(@, Head(queue))]
      BY <1>5 DEF Pop
    <3>2. pc'["loop"] = "drain" /\ pc'["worker"] = pc["worker"]
      BY <1>0, <1>5, MoveSplit DEF Pop, Threads
    <3> QED  BY <1>0, <3>1, <3>2
  <2> QED  BY <2>1 DEF PhaseInv
<1>6. ASSUME NEW f \in Flushers, DrainEnd(f)  PROVE PhaseInv'
  <2>1. /\ msg' = msg /\ flush[f] = "draining" /\ pc'["loop"] = "free"
        /\ pc'["worker"] = pc["worker"]
        /\ \A g \in Flushers \ {f} : pending'[g] = pending[g] /\ flush'[g] = flush[g]
        /\ flush'[f] = IF pending[f] = <<>> THEN "idle" ELSE "sending"
        /\ DOMAIN pending'[f] = DOMAIN pending[f]
    <3>1. pending' = [pending EXCEPT
                        ![f] = [i \in DOMAIN pending[f] |-> Serialized(pending[f][i])]]
      BY <1>6 DEF DrainEnd
    <3>2. /\ DOMAIN pending'[f] = DOMAIN pending[f]
          /\ \A g \in Flushers \ {f} : pending'[g] = pending[g]
      BY <1>0, <3>1
    <3>3. /\ msg' = msg /\ flush[f] = "draining"
          /\ pc' = [pc EXCEPT !["loop"] = "free"]
          /\ flush' = [flush EXCEPT ![f] = IF pending[f] = <<>> THEN "idle" ELSE "sending"]
      BY <1>6 DEF DrainEnd, LoopGoes
    <3>4. pc'["loop"] = "free" /\ pc'["worker"] = pc["worker"]
      BY <1>0, <3>3, Zenon
    <3>5. /\ flush'[f] = IF pending[f] = <<>> THEN "idle" ELSE "sending"
          /\ \A g \in Flushers \ {f} : flush'[g] = flush[g]
      BY <1>0, <3>3, Zenon
    <3> QED  BY <3>2, <3>3, <3>4, <3>5
  <2>2. pending[f] = <<>> => pending'[f] = <<>>
    <3> SUFFICES ASSUME pending[f] = <<>>  PROVE pending'[f] = <<>>
      OBVIOUS
    <3>1. pending'[f] \in Seq(Message) /\ DOMAIN pending'[f] = {}
      <4>1. pending' \in [Flushers -> Seq(Message)]
        BY DEF TInv, RestOK
      <4>2. pending'[f] \in Seq(Message)
        BY <4>1
      <4>3. pending[f] \in Seq(Message)
        BY <1>0
      <4>4. DOMAIN pending[f] = {}
        BY <4>3, EmptyLooks
      <4> QED  BY <2>1, <4>2, <4>4
    <3> QED  BY <3>1, EmptyLooks
  <2>3. flush'["handler"] = "serving" <=> flush["handler"] = "serving"
    BY <1>0, <2>1
  <2> QED  BY <2>1, <2>2, <2>3 DEF PhaseInv
<1>7. ASSUME NEW f \in Flushers, Send(f) \/ SendFails(f)  PROVE PhaseInv'
  <2>1. /\ msg' = msg /\ pc' = pc /\ pc["loop"] = "free" /\ flush[f] = "sending"
        /\ flush'[f] \in {"idle", "sending"}
        /\ \A g \in Flushers \ {f} : pending'[g] = pending[g] /\ flush'[g] = flush[g]
    BY <1>0, <1>7 DEF Send, SendFails
  <2>2. pending'[f] # <<>> => flush'[f] = "sending"
    <3>1. CASE SendFails(f)
      BY <1>0, <3>1 DEF SendFails
    <3>2. CASE Send(f)
      <4>1. /\ pending[f] \in Seq(Message) /\ pending[f] # <<>>
            /\ pending'[f] = Tail(pending[f])
            /\ flush'[f] = IF Len(pending[f]) = 1 THEN "idle" ELSE "sending"
        BY <1>0, <3>2 DEF Send
      <4>2. Len(pending[f]) = 1 => pending'[f] = <<>>
        BY <4>1, EmptyLooks
      <4> QED  BY <4>1, <4>2
    <3> QED  BY <1>7, <3>1, <3>2
  <2>3. flush'["handler"] = "serving" <=> flush["handler"] = "serving"
    BY <1>0, <2>1
  <2> QED  BY <2>1, <2>2, <2>3 DEF PhaseInv
<1>8. CASE Join \/ Leave
  <2>1. /\ flush' = flush /\ pending' = pending /\ msg' = msg
        /\ pc["worker"] \in {"join", "leave"} /\ pc'["worker"] \in {"check", "return"}
        /\ pc'["loop"] = pc["loop"]
    BY <1>0, <1>8, GotoSplit DEF Join, Leave, Threads
  <2> QED  BY <2>1 DEF PhaseInv
<1>9. CASE Resume
  <2>1. /\ pending' = pending /\ pc["worker"] = "return" /\ pc'["worker"] = "free"
        /\ pc'["loop"] = "free" /\ flush' = [flush EXCEPT !["handler"] = "due"]
    BY <1>0, <1>9 DEF Resume, Threads
  <2>2. flush["handler"] = "serving" /\ pending["handler"] = <<>>
    BY <1>0, <2>1 DEF PhaseInv
  <2> QED  BY <1>0, <2>1, <2>2 DEF PhaseInv, Flushers
<1>10. ASSUME NEW a \in Asks, NEW s \in Symbols, Ask(a, s)  PROVE PhaseInv'
  <2>1. /\ pending' = pending /\ pc["loop"] = "free" /\ pc'["loop"] = "free"
        /\ flush["handler"] = "idle" /\ flush' = [flush EXCEPT !["handler"] = "serving"]
        /\ pc'["worker"] = CASE a = "subscribe" -> "join"
                             [] a = "unsubscribe" -> "leave"
                             [] OTHER -> "check"
    BY <1>0, <1>10 DEF Ask, Goto, Threads
  <2>2. pc'["worker"] # "free" /\ (pc'["worker"] = "join" => a = "subscribe")
    BY <2>1, AskAssumption
  <2>3. a = "subscribe" => msg'["worker"].type = "snapshot"
    <3>1. a = "subscribe" => [Response(a, s) EXCEPT !.sym =
                               IF a = "unsubscribe" THEN s ELSE @].type = "snapshot"
      BY DEF Response, ResponseType
    <3> QED  BY <1>0, <1>10, <3>1 DEF Ask
  <2>4. pending["handler"] = <<>>
    BY <1>0, <2>1 DEF PhaseInv
  <2> QED  BY <1>0, <2>1, <2>2, <2>3, <2>4 DEF PhaseInv, Flushers
<1>11. CASE Close \/ UNCHANGED vars \/ \E s \in Symbols, y \in DeltaTypes : Publish(s, y)
  <2>1. pc' = pc /\ flush' = flush /\ pending' = pending /\ msg' = msg
    BY <1>11 DEF Close, Publish, vars
  <2> QED  BY <2>1 DEF PhaseInv
<1> QED
  BY <1>1, <1>2, <1>3, <1>4, <1>5, <1>6, <1>7, <1>8, <1>9, <1>10, <1>11
  DEF Next, Tick, Worker, Flush, Threads

\* A coroutine has something pending only while it drains or sends, and the
\* worker is at work only while the handler waits for it.
THEOREM SpecPhases == Spec => []PhaseInv
<1>1. Init => PhaseInv
  BY DEF Init, PhaseInv, Threads, Flushers
<1>2. TInv /\ TInv' /\ PhaseInv /\ [Next]_vars => PhaseInv'
  BY PhaseInductive
<1> QED  BY <1>1, <1>2, SpecTypes, PTL DEF Spec

\* What a message shows is in the state of its symbol.
Backed(m) == m.sym \in Symbols => m.alerts \subseteq state[m.sym]

BackedInv ==
  /\ \A s \in Symbols : shown[s] \subseteq state[s]
  /\ \A f \in Flushers : \A i \in DOMAIN pending[f] : Backed(pending[f][i])
  /\ \A i \in DOMAIN queue : Backed(queue[i])
  /\ \A t \in Threads : Coming(t) => Backed(msg[t])
  /\ \A i \in DOMAIN batch : Backed(batch[i])

\* What a send, the end of a drain and a popleft do to pending messages, to
\* the queue and to what the client shows.
LEMMA SendEffect ==
  ASSUME TInv, NEW f \in Flushers, Send(f)
  PROVE  \E m \in Message :
           /\ 1 \in DOMAIN pending[f] /\ m = pending[f][1]
           /\ \A i \in DOMAIN pending'[f] :
                i + 1 \in DOMAIN pending[f] /\ pending'[f][i] = pending[f][i + 1]
           /\ \A i \in DOMAIN pending[f] :
                i # 1 => i - 1 \in DOMAIN pending'[f] /\ pending'[f][i - 1] = pending[f][i]
           /\ \A g \in Flushers \ {f} : pending'[g] = pending[g]
           /\ \A s \in Symbols :
                shown'[s] = IF s # m.sym THEN shown[s]
                            ELSE CASE m.type = "snapshot" -> m.alerts
                                   [] IsAlert(m) -> shown[s] \cup m.alerts
                                   [] OTHER -> shown[s]
<1>0. /\ pending \in [Flushers -> Seq(Message)] /\ pending[f] \in Seq(Message)
      /\ pending[f] # <<>> /\ shown \in [Symbols -> SUBSET Nat]
  BY DEF TInv, RestOK, Send
<1> DEFINE m == Head(pending[f])
<1>1. m \in Message /\ 1 \in DOMAIN pending[f] /\ m = pending[f][1]
  BY <1>0
<1>2. pending'[f] = Tail(pending[f]) /\ \A g \in Flushers \ {f} : pending'[g] = pending[g]
  BY <1>0 DEF Send
<1>3. /\ \A i \in DOMAIN pending'[f] :
           i + 1 \in DOMAIN pending[f] /\ pending'[f][i] = pending[f][i + 1]
      /\ \A i \in DOMAIN pending[f] :
           i # 1 => i - 1 \in DOMAIN pending'[f] /\ pending'[f][i - 1] = pending[f][i]
  BY <1>0, <1>2
<1>4. m.sym = None => shown' = shown
  BY DEF Send, Show, clientVars
<1>5. m.sym # None =>
        shown' = [shown EXCEPT ![m.sym] = CASE m.type = "snapshot" -> m.alerts
                                            [] IsAlert(m) -> @ \cup m.alerts
                                            [] OTHER -> @]
  BY DEF Send, Show
<1>6. m.sym # None => m.sym \in Symbols
  BY <1>1 DEF Message
<1> HIDE DEF m
<1>7. \A s \in Symbols :
        shown'[s] = IF s # m.sym THEN shown[s]
                    ELSE CASE m.type = "snapshot" -> m.alerts
                           [] IsAlert(m) -> shown[s] \cup m.alerts
                           [] OTHER -> shown[s]
  <2>1. \A s \in Symbols : s # None
    BY NoneAssumption
  <2>2. CASE m.sym = None
    BY <1>4, <2>1, <2>2
  <2>3. CASE m.sym # None
    BY <1>0, <1>5, <1>6, <2>3
  <2> QED  BY <2>2, <2>3
<1> QED  BY <1>1, <1>2, <1>3, <1>7

LEMMA DrainEndEffect ==
  ASSUME TInv, NEW f \in Flushers, DrainEnd(f)
  PROVE  /\ \A g \in Flushers \ {f} : pending'[g] = pending[g] /\ flush'[g] = flush[g]
         /\ DOMAIN pending'[f] = DOMAIN pending[f]
         /\ \A i \in DOMAIN pending[f] : pending'[f][i] = Serialized(pending[f][i])
<1>0. /\ pending \in [Flushers -> Seq(Message)]
      /\ flush \in [Flushers -> {"idle", "serving", "due", "draining", "sending"}]
  BY DEF TInv, RestOK
<1>1. /\ pending' = [pending EXCEPT
                       ![f] = [i \in DOMAIN pending[f] |-> Serialized(pending[f][i])]]
      /\ flush' = [flush EXCEPT ![f] = IF pending[f] = <<>> THEN "idle" ELSE "sending"]
  BY DEF DrainEnd
<1>2. pending'[f] = [i \in DOMAIN pending[f] |-> Serialized(pending[f][i])]
  BY <1>0, <1>1
<1>3. \A g \in Flushers \ {f} : pending'[g] = pending[g] /\ flush'[g] = flush[g]
  BY <1>0, <1>1, Zenon
<1>4. /\ DOMAIN pending'[f] = DOMAIN pending[f]
      /\ \A i \in DOMAIN pending[f] : pending'[f][i] = Serialized(pending[f][i])
  BY <1>2, Zenon
<1> QED  BY <1>3, <1>4

LEMMA PopEffect ==
  ASSUME TInv, NEW f \in Flushers, Pop(f)
  PROVE  /\ \A g \in Flushers \ {f} : pending'[g] = pending[g]
         /\ DOMAIN pending[f] \subseteq DOMAIN pending'[f]
         /\ \A i \in DOMAIN pending[f] : pending'[f][i] = pending[f][i]
         /\ \E n \in DOMAIN pending'[f] :
              /\ pending'[f][n] = queue[1]
              /\ \A i \in DOMAIN pending'[f] : i \in DOMAIN pending[f] \/ i = n
         /\ \A i \in DOMAIN queue :
              i # 1 => i - 1 \in DOMAIN queue' /\ queue'[i - 1] = queue[i]
<1>0. /\ pending \in [Flushers -> Seq(Message)] /\ pending[f] \in Seq(Message)
      /\ queue \in Seq(Message) /\ queue # <<>>
  BY DEF TInv, RestOK, Pop
<1>1. pending' = [pending EXCEPT ![f] = Append(@, Head(queue))] /\ queue' = Tail(queue)
  BY DEF Pop
<1>2. pending'[f] = Append(pending[f], queue[1])
      /\ \A g \in Flushers \ {f} : pending'[g] = pending[g]
  BY <1>0, <1>1
<1>3. /\ DOMAIN pending[f] = 1 .. Len(pending[f]) /\ Len(pending[f]) \in Nat
      /\ DOMAIN pending'[f] = 1 .. Len(pending[f]) + 1
      /\ \A i \in DOMAIN pending[f] : pending'[f][i] = pending[f][i]
      /\ pending'[f][Len(pending[f]) + 1] = queue[1]
  <2>1. queue[1] \in Message
    BY <1>0
  <2> QED  BY <1>0, <1>2, <2>1
<1>4. \A i \in DOMAIN queue : i # 1 => i - 1 \in DOMAIN queue' /\ queue'[i - 1] = queue[i]
  BY <1>0, <1>1
<1>5. \E n \in DOMAIN pending'[f] :
        /\ pending'[f][n] = queue[1]
        /\ \A i \in DOMAIN pending'[f] : i \in DOMAIN pending[f] \/ i = n
  <2>1. Len(pending[f]) + 1 \in DOMAIN pending'[f]
    BY <1>3
  <2>2. \A i \in DOMAIN pending'[f] : i \in DOMAIN pending[f] \/ i = Len(pending[f]) + 1
    BY <1>3
  <2> QED  BY <1>3, <2>1, <2>2
<1>6. DOMAIN pending[f] \subseteq DOMAIN pending'[f]
  BY <1>3
<1> QED  BY <1>2, <1>3, <1>4, <1>5, <1>6

\* No step shows, queues or publishes an alert that the state does not hold.
LEMMA BackedInductive ==
  ASSUME TInv, BackedInv, [Next]_vars
  PROVE  BackedInv'
<1> USE DEF restEnqueue, flushVars, sourceVars, clientVars, threadVars
<1>0. /\ queue \in Seq(Message) /\ batch \in Seq(Message) /\ "loop" \in Threads
      /\ pending \in [Flushers -> Seq(Message)] /\ state \in [Symbols -> SUBSET Nat]
      /\ msg \in [Threads -> Message] /\ "worker" \in Threads
      /\ pc \in [Threads -> LoopLabels \cup WorkerLabels]
      /\ shown \in [Symbols -> SUBSET Nat]
  BY DEF TInv, ThreadsOK, RestOK, Threads
<1>1. CASE Still
  BY <1>1 DEF Still, BackedInv, Backed
<1>2. ASSUME NEW t \in Threads, EnqueueStep(t),
             \A i \in DOMAIN queue' : queue'[i] = msg[t]
                                     \/ \E j \in DOMAIN queue : queue'[i] = queue[j]
      PROVE  BackedInv'
  <2>1. /\ Coming(t) /\ UNCHANGED <<pending, batch, state, shown, msg>>
        /\ \A u \in Threads : Coming(u)' => Coming(u)
    BY <1>2, EnqueueComing
    DEF EnqueueStep, Search, Replace, Check, Scan, Delete, Recheck, AppendMessage
  <2> QED  BY <1>2, <2>1 DEF BackedInv, Backed
<1>3. ASSUME NEW t \in Threads, Replace(t), index[t] \in DOMAIN queue
      PROVE  BackedInv'
  <2>1. queue' = [queue EXCEPT ![index[t]] = msg[t]]
    BY <1>3 DEF Replace
  <2>2. \A i \in DOMAIN queue' : queue'[i] = msg[t]
                                 \/ \E j \in DOMAIN queue : queue'[i] = queue[j]
    BY <1>0, <2>1
  <2> QED  BY <1>2, <1>3, <2>2 DEF EnqueueStep
<1>4. ASSUME NEW t \in Threads, Delete(t)  PROVE BackedInv'
  <2>1. \A i \in DOMAIN queue' : \E j \in DOMAIN queue : queue'[i] = queue[j]
    BY <1>4, DeleteThins DEF Thinned
  <2> QED  BY <1>2, <1>4, <2>1 DEF EnqueueStep
<1>5. ASSUME NEW t \in Threads, AppendMessage(t)  PROVE BackedInv'
  <2>1. \A i \in DOMAIN queue' : queue'[i] = msg[t]
                                 \/ \E j \in DOMAIN queue : queue'[i] = queue[j]
    BY <1>5, AppendShape
  <2> QED  BY <1>2, <1>5, <2>1 DEF EnqueueStep
<1>6. CASE Broadcast
  <2>1. UNCHANGED <<queue, pending, state, shown>> /\ batch' = Tail(batch) /\ batch # <<>>
    BY <1>6 DEF Broadcast
  <2>2. /\ 1 \in DOMAIN batch /\ Head(batch) = batch[1]
        /\ \A i \in DOMAIN batch' : i + 1 \in DOMAIN batch /\ batch'[i] = batch[i + 1]
    BY <1>0, <2>1
  <2>3. \A t \in Threads : Coming(t)' =>
          msg'[t] = batch[1] \/ (Coming(t) /\ msg'[t] = msg[t])
    <3>1. CASE UNCHANGED threadVars
      BY <3>1 DEF Coming
    <3>2. CASE Enqueue("loop", Head(batch))
      <4>1. pc'["worker"] = pc["worker"] /\ msg'["worker"] = msg["worker"]
        BY <1>0, <3>2 DEF Enqueue, Goto, Threads
      <4>2. msg'["loop"] = batch[1]
        BY <1>0, <2>2, <3>2 DEF Enqueue
      <4> QED  BY <4>1, <4>2 DEF Coming, Threads
    <3> QED  BY <1>6, <3>1, <3>2 DEF Broadcast
  <2> QED  BY <2>1, <2>2, <2>3 DEF BackedInv, Backed
<1>7. ASSUME NEW s \in Symbols, NEW y \in DeltaTypes, Publish(s, y)
      PROVE  BackedInv'
  <2>1. PICK new, m :
          /\ UNCHANGED <<queue, pending, shown, pc, msg>> /\ batch' = Append(batch, m)
          /\ state' = [state EXCEPT ![s] = @ \cup new]
          /\ m.sym = s /\ m.alerts = new
    BY <1>7 DEF Publish
  <2>2. (\A r \in Symbols : state[r] \subseteq state'[r]) /\ new \subseteq state'[s]
    BY <1>0, <2>1
  <2>3. \A i \in DOMAIN batch' :
          batch'[i] = m \/ (i \in DOMAIN batch /\ batch'[i] = batch[i])
    BY <1>0, <2>1
  <2>4. \A x : Backed(x) => (x.sym \in Symbols => x.alerts \subseteq state'[x.sym])
    BY <2>2 DEF Backed
  <2>5. \A i \in DOMAIN batch' :
          batch'[i].sym \in Symbols => batch'[i].alerts \subseteq state'[batch'[i].sym]
    <3> SUFFICES ASSUME NEW i \in DOMAIN batch', batch'[i].sym \in Symbols
                 PROVE  batch'[i].alerts \subseteq state'[batch'[i].sym]
      OBVIOUS
    <3>1. CASE batch'[i] = m
      BY <2>1, <2>2, <3>1
    <3>2. CASE i \in DOMAIN batch /\ batch'[i] = batch[i]
      BY <2>4, <3>2 DEF BackedInv
    <3> QED  BY <2>3, <3>1, <3>2
  <2> QED  BY <2>1, <2>2, <2>4, <2>5 DEF BackedInv, Backed, Coming
<1>8. ASSUME NEW f \in Flushers, Pop(f)  PROVE BackedInv'
  <2>1. /\ UNCHANGED <<batch, state, shown>>
        /\ \A t \in Threads : Coming(t)' => Coming(t) /\ msg'[t] = msg[t]
    BY <1>8, FlushComing DEF Pop
  <2>2. /\ 1 \in DOMAIN queue
        /\ \A i \in DOMAIN queue' : i + 1 \in DOMAIN queue /\ queue'[i] = queue[i + 1]
    BY <1>8, PopThins
  <2>3. \A g \in Flushers : \A i \in DOMAIN pending'[g] :
          \/ i \in DOMAIN pending[g] /\ pending'[g][i] = pending[g][i]
          \/ pending'[g][i] = queue[1]
    BY <1>8, PopEffect
  <2> QED  BY <2>1, <2>2, <2>3 DEF BackedInv, Backed
<1>9. ASSUME NEW f \in Flushers, DrainEnd(f)  PROVE BackedInv'
  <2>1. /\ UNCHANGED <<batch, state, shown, queue>>
        /\ \A t \in Threads : Coming(t)' => Coming(t) /\ msg'[t] = msg[t]
    BY <1>9, FlushComing DEF DrainEnd
  <2>2. \A m \in Message : Backed(m) => Backed(Serialized(m))
    BY DEF Backed, Serialized, Message
  <2>3. \A g \in Flushers : \A i \in DOMAIN pending'[g] :
          /\ i \in DOMAIN pending[g]
          /\ \/ pending'[g][i] = pending[g][i]
             \/ pending'[g][i] = Serialized(pending[g][i])
    BY <1>9, DrainEndEffect
  <2>4. \A g \in Flushers : \A i \in DOMAIN pending'[g] : Backed(pending'[g][i])
    BY <1>0, <2>2, <2>3 DEF BackedInv
  <2> QED  BY <2>1, <2>4 DEF BackedInv, Backed
<1>10. ASSUME NEW f \in Flushers, Send(f)  PROVE BackedInv'
  <2>1. /\ UNCHANGED <<batch, state, queue>>
        /\ \A t \in Threads : Coming(t)' => Coming(t) /\ msg'[t] = msg[t]
    BY <1>10, FlushComing DEF Send
  <2>2. PICK m \in Message :
          /\ 1 \in DOMAIN pending[f] /\ m = pending[f][1]
          /\ \A i \in DOMAIN pending'[f] :
               i + 1 \in DOMAIN pending[f] /\ pending'[f][i] = pending[f][i + 1]
          /\ \A g \in Flushers \ {f} : pending'[g] = pending[g]
          /\ \A s \in Symbols :
               shown'[s] = IF s # m.sym THEN shown[s]
                           ELSE CASE m.type = "snapshot" -> m.alerts
                                  [] IsAlert(m) -> shown[s] \cup m.alerts
                                  [] OTHER -> shown[s]
    BY <1>10, SendEffect
  <2>3. Backed(m)
    BY <2>2 DEF BackedInv
  <2>4. \A s \in Symbols : shown'[s] \subseteq shown[s] \cup state[s]
    BY <2>2, <2>3 DEF Backed, IsAlert
  <2>5. \A g \in Flushers : \A i \in DOMAIN pending'[g] : Backed(pending'[g][i])
    BY <2>2 DEF BackedInv
  <2> QED  BY <2>1, <2>4, <2>5 DEF BackedInv, Backed
<1>11. ASSUME NEW f \in Flushers, SendFails(f)  PROVE BackedInv'
  <2>1. /\ UNCHANGED <<batch, state, shown, queue>>
        /\ \A t \in Threads : Coming(t)' => Coming(t) /\ msg'[t] = msg[t]
    BY <1>11, FlushComing DEF SendFails
  <2>2. pending' = [pending EXCEPT ![f] = <<>>]
    BY <1>11 DEF SendFails
  <2>3. \A g \in Flushers : \A i \in DOMAIN pending'[g] :
          i \in DOMAIN pending[g] /\ pending'[g][i] = pending[g][i]
    <3>1. \A g \in Flushers : pending'[g] = pending[g] \/ pending'[g] = <<>>
      BY <1>0, <2>2
    <3>2. DOMAIN <<>> = {}
      OBVIOUS
    <3> QED  BY <3>1, <3>2
  <2> QED  BY <2>1, <2>3 DEF BackedInv, Backed
<1>12. ASSUME NEW a \in Asks, NEW s \in Symbols, Ask(a, s)  PROVE BackedInv'
  <2> DEFINE m == [Response(a, s) EXCEPT !.sym = IF a = "unsubscribe" THEN s ELSE @]
  <2>1. m.alerts = {}
    BY DEF Response, Health
  <2>2. /\ msg' = [msg EXCEPT !["worker"] = m] /\ pc'["loop"] = pc["loop"]
        /\ UNCHANGED <<queue, batch, pending, state, shown>>
    BY <1>0, <1>12 DEF Ask, Goto
  <2> HIDE DEF m
  <2>3. msg'["worker"] = m /\ msg'["loop"] = msg["loop"]
    BY <1>0, <2>2
  <2>4. Backed(msg["worker"])'
    BY <2>1, <2>3 DEF Backed
  <2>5. Coming("loop")' => Backed(msg["loop"])'
    BY <2>2, <2>3 DEF BackedInv, Backed, Coming, Threads
  <2> QED  BY <2>2, <2>4, <2>5 DEF BackedInv, Backed, Threads
<1> QED
  BY <1>1, <1>3, <1>4, <1>5, <1>6, <1>7, <1>8, <1>9, <1>10, <1>11, <1>12, StepKinds

\* Nothing is shown or on its way that is not in the state.
THEOREM SpecBacked == Spec => []BackedInv
<1>1. Init => BackedInv
  BY DEF Init, BackedInv, Backed, Coming, Threads, Health
<1>2. TInv /\ BackedInv /\ [Next]_vars => BackedInv'
  BY BackedInductive
<1> QED  BY <1>1, <1>2, SpecTypes, PTL DEF Spec

IsSnapshotOf(m, s) == m.type = "snapshot" /\ m.sym = s
IsAlertOf(m, s, a) == IsAlert(m) /\ m.sym = s /\ a \in m.alerts

\* A snapshot of s is on its way that will be serialized from the state to be.
Fresh(s) ==
  \/ Coming("worker") /\ IsSnapshotOf(msg["worker"], s)
  \/ \E i \in DOMAIN queue : IsSnapshotOf(queue[i], s)
  \/ \E f \in Flushers :
       flush[f] = "draining" /\ \E i \in DOMAIN pending[f] : IsSnapshotOf(pending[f][i], s)

\* Alert a of s has not been drained yet.
Ahead(s, a) ==
  \/ \E i \in DOMAIN batch : IsAlertOf(batch[i], s, a)
  \/ Coming("loop") /\ IsAlertOf(msg["loop"], s, a)
  \/ \E i \in DOMAIN queue : IsAlertOf(queue[i], s, a)

\* Alert a of s is shown or will be sent, and no snapshot without it will be.
InFlight(s, a) ==
  /\ \/ a \in shown[s]
     \/ \E f \in Flushers : \E i \in DOMAIN pending[f] :
          \/ IsAlertOf(pending[f][i], s, a)
          \/ IsSnapshotOf(pending[f][i], s) /\ a \in pending[f][i].alerts
  /\ \A f \in Flushers : flush[f] # "draining" =>
       \A i \in DOMAIN pending[f] :
         IsSnapshotOf(pending[f][i], s) => a \in pending[f][i].alerts

Reaches(s) == Fresh(s) \/ \A a \in state[s] : Ahead(s, a) \/ InFlight(s, a)

\* One coroutine at most has drained something it has not sent.
Alone == \A f, g \in Flushers : f = g \/ pending[f] = <<>> \/ pending[g] = <<>>

AlertsInv == spoiled = {} /\ open /\ Alone => \A s \in subscribed : Reaches(s)

\* A step that leaves alone what is on its way leaves it on its way.
LEMMA ReachesStill ==
  ASSUME NEW s \in Symbols, Reaches(s),
         UNCHANGED <<queue, pending, batch, shown, state>>,
         \A t \in Threads : Coming(t) => Coming(t)' /\ msg'[t] = msg[t],
         \A f \in Flushers : pending[f] # <<>> => flush'[f] = flush[f]
  PROVE  Reaches(s)'
<1>0. /\ \A f \in Flushers : \A i \in DOMAIN pending[f] : flush'[f] = flush[f]
      /\ "loop" \in Threads /\ "worker" \in Threads
  <2>1. DOMAIN <<>> = {}
    OBVIOUS
  <2> QED  BY <2>1 DEF Threads
<1>1. Fresh(s) => Fresh(s)'
  BY <1>0 DEF Fresh
<1>2. \A a \in state[s] : Ahead(s, a) => Ahead(s, a)'
  BY <1>0 DEF Ahead
<1>3. \A a \in state[s] : InFlight(s, a) => InFlight(s, a)'
  BY <1>0 DEF InFlight
<1> QED  BY <1>1, <1>2, <1>3 DEF Reaches

\* Without a dropped message and a stale index, enqueue loses neither an alert
\* or response that is queued nor the one it is about to queue.
LEMMA EnqueueKeepsWorth ==
  ASSUME TInv, IndexInv, NEW t \in Threads, EnqueueStep(t), spoiled' = {}
  PROVE  /\ \A i \in DOMAIN queue : IsAlert(queue[i]) \/ IsCritical(queue[i]) =>
              \E j \in DOMAIN queue' : queue'[j] = queue[i]
         /\ IsAlert(msg[t]) \/ IsCritical(msg[t]) =>
              Coming(t)' \/ \E j \in DOMAIN queue' : queue'[j] = msg[t]
<1>0. queue \in Seq(Message) /\ DOMAIN queue = 1 .. Len(queue) /\ Len(queue) \in Nat
  BY DEF TInv, RestOK
<1>1. msg[t].type \in Coalescible => ~IsAlert(msg[t]) /\ ~IsCritical(msg[t])
  BY DEF Coalescible, Critical, IsAlert, IsCritical
<1>2. CASE Search(t) \/ Check(t) \/ Scan(t) \/ Recheck(t)
  <2>1. queue' = queue
    BY <1>2 DEF Search, Check, Scan, Recheck
  <2>2. CASE Search(t)
    BY <1>1, <2>1, <2>2 DEF Search, IndexInv, LooksAt
  <2>3. CASE Check(t)
    BY <2>1, <2>3, GotoSplit DEF Check, Coming
  <2>4. CASE Scan(t)
    <3>1. IsAlert(msg[t]) \/ IsCritical(msg[t]) => pc'[t] = "delete"
      BY <2>4, GotoSplit DEF Scan, Lose
    <3> QED  BY <2>1, <3>1 DEF Coming
  <2>5. CASE Recheck(t)
    <3>1. IsAlert(msg[t]) \/ IsCritical(msg[t]) => pc'[t] = "append"
      BY <2>5, GotoSplit DEF Recheck, Lose
    <3> QED  BY <2>1, <3>1 DEF Coming
  <2> QED  BY <1>2, <2>2, <2>3, <2>4, <2>5
<1>3. CASE Replace(t)
  <2>1. msg[t].type \in Coalescible
    BY <1>3 DEF Replace, IndexInv, LooksAt
  <2>2. CASE index[t] \in DOMAIN queue
    <3>1. /\ queue' = [queue EXCEPT ![index[t]] = msg[t]] /\ ~moved[t]
          /\ "race" \notin spoiled /\ pc[t] = "replace"
      BY <1>3, <2>2 DEF Replace
    <3>2. queue[index[t]].type = msg[t].type
      BY <3>1 DEF IndexInv, LooksAt, SameStream
    <3>3. ~IsAlert(queue[index[t]]) /\ ~IsCritical(queue[index[t]])
      BY <2>1, <3>2 DEF Coalescible, Critical, IsAlert, IsCritical
    <3>4. \A i \in DOMAIN queue :
            i # index[t] => i \in DOMAIN queue' /\ queue'[i] = queue[i]
      BY <1>0, <3>1
    <3> QED  BY <1>1, <2>1, <3>3, <3>4
  <2>3. CASE index[t] \notin DOMAIN queue
    BY <1>1, <1>3, <2>1, <2>3 DEF Replace
  <2> QED  BY <2>2, <2>3
<1>4. CASE Delete(t)
  <2>1. CASE index[t] \in DOMAIN queue
    <3>1. /\ queue' = RemoveAt(queue, index[t]) /\ MoveAndGoto(t, "recheck")
          /\ ~IsAlert(queue[index[t]]) /\ ~IsCritical(queue[index[t]])
      BY <1>4, <2>1 DEF Delete, Lose
    <3>2. pc'[t] = "recheck"
      BY <3>1, MoveSplit
    <3> DEFINE k == index[t]
    <3>3. k \in 1 .. Len(queue) /\ queue' = RemoveAt(queue, k)
          /\ ~IsAlert(queue[k]) /\ ~IsCritical(queue[k])
      BY <1>0, <2>1, <3>1
    <3> HIDE DEF k
    <3>4. /\ queue' \in Seq(Message) /\ Len(queue') = Len(queue) - 1
          /\ \A j \in 1 .. Len(queue) - 1 : queue'[j] = IF j < k THEN queue[j] ELSE queue[j + 1]
      BY <1>0, <3>3, RemoveAtProperties
    <3>5. DOMAIN queue' = 1 .. Len(queue) - 1
      BY <3>4
    <3>6. ASSUME NEW i \in DOMAIN queue, i # k
          PROVE  \E j \in DOMAIN queue' : queue'[j] = queue[i]
      <4>1. CASE i < k
        <5>1. i \in 1 .. Len(queue) - 1
          BY <1>0, <3>3, <4>1
        <5> QED  BY <3>4, <3>5, <4>1, <5>1
      <4>2. CASE i > k
        <5>1. i - 1 \in 1 .. Len(queue) - 1 /\ ~(i - 1 < k) /\ (i - 1) + 1 = i
          BY <1>0, <3>3, <4>2
        <5>2. queue'[i - 1] = queue[(i - 1) + 1]
          BY <3>4, <5>1
        <5> QED  BY <3>5, <5>1, <5>2
      <4> QED  BY <1>0, <3>3, <3>6, <4>1, <4>2
    <3> QED  BY <3>2, <3>3, <3>6 DEF Coming
  <2>2. CASE index[t] \notin DOMAIN queue
    BY <1>4, <2>2 DEF Delete, Lose
  <2> QED  BY <2>1, <2>2
<1>5. CASE AppendMessage(t)
  <2>1. /\ DOMAIN queue' = 1 .. Len(queue) + 1
        /\ queue'[Len(queue) + 1] = msg[t]
        /\ \A i \in DOMAIN queue : queue'[i] = queue[i]
    BY <1>5, AppendShape
  <2>2. Len(queue) + 1 \in DOMAIN queue' /\ DOMAIN queue \subseteq DOMAIN queue'
    BY <1>0, <2>1
  <2> QED  BY <2>1, <2>2
<1> QED  BY <1>2, <1>3, <1>4, <1>5 DEF EnqueueStep

\* What enqueue does, as long as it drops nothing and uses no stale index.
LEMMA EnqueueReaches ==
  ASSUME TInv, IndexInv, NEW t \in Threads, EnqueueStep(t), spoiled' = {},
         NEW s \in Symbols, Reaches(s)
  PROVE  Reaches(s)'
<1>0. /\ UNCHANGED <<pending, flush, batch, shown, state, msg>> /\ "worker" \in Threads
      /\ "loop" \in Threads
      /\ \A u \in Threads \ {t} : pc'[u] = pc[u]
  BY EnqueueComing
  DEF EnqueueStep, Search, Replace, Check, Scan, Delete, Recheck, AppendMessage,
      restEnqueue, flushVars, sourceVars, clientVars, Threads
<1>1. \A i \in DOMAIN queue : IsAlert(queue[i]) \/ IsCritical(queue[i]) =>
        \E j \in DOMAIN queue' : queue'[j] = queue[i]
  BY EnqueueKeepsWorth
<1>2. \A u \in Threads : Coming(u) /\ (IsAlert(msg[u]) \/ IsCritical(msg[u])) =>
        Coming(u)' \/ \E j \in DOMAIN queue' : queue'[j] = msg[u]
  <2>1. \A u \in Threads \ {t} : Coming(u) => Coming(u)'
    BY <1>0 DEF Coming
  <2> QED  BY <2>1, EnqueueKeepsWorth
<1>3. \A m : IsSnapshotOf(m, s) => IsCritical(m)
  BY DEF IsSnapshotOf, IsCritical, Critical
<1>4. Fresh(s) => Fresh(s)'
  BY <1>0, <1>1, <1>2, <1>3 DEF Fresh
<1>5. \A a \in state[s] : Ahead(s, a) => Ahead(s, a)'
  BY <1>0, <1>1, <1>2 DEF Ahead, IsAlertOf
<1>6. \A a \in state[s] : InFlight(s, a) => InFlight(s, a)'
  BY <1>0 DEF InFlight
<1> QED  BY <1>0, <1>4, <1>5, <1>6 DEF Reaches

\* A terminal message of a subscribed symbol goes from the tick to the hand.
LEMMA BroadcastReaches ==
  ASSUME TInv, Broadcast, open, NEW s \in subscribed, Reaches(s)
  PROVE  Reaches(s)'
<1> USE DEF flushVars, sourceVars, clientVars, threadVars
<1>0. /\ batch \in Seq(Message) /\ batch # <<>> /\ "loop" \in Threads /\ "worker" \in Threads
      /\ msg \in [Threads -> Message] /\ pc["loop"] = "broadcast"
      /\ pc \in [Threads -> LoopLabels \cup WorkerLabels]
      /\ UNCHANGED <<queue, flush, pending, shown, state>> /\ batch' = Tail(batch)
  BY DEF TInv, ThreadsOK, RestOK, Threads, Broadcast
<1>1. /\ 1 \in DOMAIN batch /\ Head(batch) = batch[1]
      /\ \A i \in DOMAIN batch : i # 1 => i - 1 \in DOMAIN batch' /\ batch'[i - 1] = batch[i]
  BY <1>0
<1>2. pc'["worker"] = pc["worker"] /\ msg'["worker"] = msg["worker"]
  <2>1. CASE Enqueue("loop", Head(batch))
    BY <1>0, <2>1 DEF Enqueue, Goto, Threads
  <2> QED  BY <2>1 DEF Broadcast
<1>3. batch[1].sym = s => Coming("loop")' /\ msg'["loop"] = batch[1]
  <2> SUFFICES ASSUME batch[1].sym = s
               PROVE  Coming("loop")' /\ msg'["loop"] = batch[1]
    OBVIOUS
  <2>1. Enqueue("loop", batch[1])
    BY <1>1 DEF Broadcast
  <2>2. pc'["loop"] \in {"search", "check"}
    BY <1>0, <2>1 DEF Enqueue, Goto
  <2> QED  BY <1>0, <2>1, <2>2 DEF Enqueue, Coming
<1>4. Fresh(s) => Fresh(s)'
  BY <1>0, <1>2 DEF Fresh, Coming
<1>5. \A a \in state[s] : Ahead(s, a) => Ahead(s, a)'
  <2> SUFFICES ASSUME NEW a \in state[s], Ahead(s, a)  PROVE Ahead(s, a)'
    OBVIOUS
  <2>1. ~Coming("loop")
    BY <1>0 DEF Coming
  <2>2. CASE \E i \in DOMAIN queue : IsAlertOf(queue[i], s, a)
    BY <1>0, <2>2 DEF Ahead
  <2>3. ASSUME NEW i \in DOMAIN batch, IsAlertOf(batch[i], s, a)  PROVE Ahead(s, a)'
    <3>1. CASE i = 1
      <4>1. Coming("loop")' /\ msg'["loop"] = batch[1]
        BY <1>3, <2>3, <3>1 DEF IsAlertOf
      <4> QED  BY <2>3, <3>1, <4>1 DEF Ahead
    <3>2. CASE i # 1
      BY <1>1, <2>3, <3>2 DEF Ahead
    <3> QED  BY <3>1, <3>2
  <2> QED  BY <2>1, <2>2, <2>3 DEF Ahead
<1>6. \A a \in state[s] : InFlight(s, a) => InFlight(s, a)'
  BY <1>0 DEF InFlight
<1> QED  BY <1>0, <1>4, <1>5, <1>6 DEF Reaches

\* A new alert of the state is ahead.
LEMMA PublishReaches ==
  ASSUME TInv, NEW r \in Symbols, NEW y \in DeltaTypes, Publish(r, y),
         NEW s \in Symbols, Reaches(s)
  PROVE  Reaches(s)'
<1> USE DEF flushVars, sourceVars, clientVars, threadVars
<1>0. batch \in Seq(Message) /\ state \in [Symbols -> SUBSET Nat]
  BY DEF TInv, RestOK
<1>1. PICK new, m :
        /\ UNCHANGED <<queue, pending, flush, shown, pc, msg>> /\ batch' = Append(batch, m)
        /\ state' = [state EXCEPT ![r] = @ \cup new]
        /\ m.sym = r /\ m.alerts = new /\ m.type = y
        /\ y # "alert_realtime" => new = {}
  BY DEF Publish
<1>2. /\ \E n \in DOMAIN batch' : batch'[n] = m
      /\ \A i \in DOMAIN batch : i \in DOMAIN batch' /\ batch'[i] = batch[i]
  <2>1. Len(batch) + 1 \in DOMAIN batch' /\ batch'[Len(batch) + 1] = m
    BY <1>0, <1>1
  <2>2. \A i \in DOMAIN batch : i \in DOMAIN batch' /\ batch'[i] = batch[i]
    BY <1>0, <1>1
  <2> QED  BY <2>1, <2>2
<1>3. \A a \in state'[s] : a \in state[s] \/ (s = r /\ a \in new)
  BY <1>0, <1>1
<1>4. Fresh(s) => Fresh(s)'
  BY <1>1 DEF Fresh, Coming
<1>5. \A a \in state[s] : Ahead(s, a) => Ahead(s, a)'
  BY <1>1, <1>2 DEF Ahead, Coming
<1>6. \A a \in state[s] : InFlight(s, a) => InFlight(s, a)'
  BY <1>1 DEF InFlight
<1>7. \A a \in new : s = r => Ahead(s, a)'
  BY <1>1, <1>2 DEF Ahead, IsAlertOf, IsAlert
<1> QED  BY <1>3, <1>4, <1>5, <1>6, <1>7 DEF Reaches

\* A thread that is on its way through enqueue is not stopped by the other
\* coroutines of the loop, which run while the loop is in none.
LEMMA FlushLeavesHands ==
  ASSUME TInv, NEW f \in Flushers, Pop(f) \/ DrainEnd(f) \/ Send(f)
  PROVE  /\ \A t \in Threads : Coming(t) => Coming(t)' /\ msg'[t] = msg[t]
         /\ batch' = batch /\ state' = state
<1> USE DEF flushVars, sourceVars, clientVars, threadVars
<1>0. pc \in [Threads -> LoopLabels \cup WorkerLabels] /\ msg' = msg
  BY DEF TInv, ThreadsOK, Pop, DrainEnd, Send
<1>1. pc'["worker"] = pc["worker"] /\ ~Coming("loop")
  <2>1. CASE Pop(f)
    BY <1>0, <2>1, MoveSplit DEF Pop, Coming, Threads
  <2>2. CASE DrainEnd(f)
    BY <1>0, <2>2 DEF DrainEnd, LoopGoes, Coming, Threads
  <2>3. CASE Send(f)
    BY <2>3 DEF Send, Coming
  <2> QED  BY <2>1, <2>2, <2>3
<1>2. batch' = batch /\ state' = state
  BY DEF Pop, DrainEnd, Send
<1> QED  BY <1>0, <1>1, <1>2 DEF Coming, Threads

\* The other coroutine has nothing pending while this one has.
LEMMA AloneSays ==
  ASSUME Alone, NEW f \in Flushers, NEW i \in DOMAIN pending[f], NEW g \in Flushers \ {f}
  PROVE  pending[g] = <<>> /\ DOMAIN pending[g] = {}
<1>1. DOMAIN <<>> = {}
  OBVIOUS
<1>2. pending[f] # <<>>
  BY <1>1
<1>3. pending[g] = <<>>
  BY <1>2 DEF Alone
<1> QED  BY <1>1, <1>3

\* What is drained goes from the queue to the pending messages.
LEMMA PopReaches ==
  ASSUME TInv, NEW f \in Flushers, Pop(f), Alone', NEW s \in Symbols, Reaches(s)
  PROVE  Reaches(s)'
<1>0. /\ flush' = flush /\ shown' = shown /\ flush[f] = "draining"
  BY DEF Pop, clientVars
<1>1. /\ \A t \in Threads : Coming(t) => Coming(t)' /\ msg'[t] = msg[t]
      /\ batch' = batch /\ state' = state /\ "loop" \in Threads /\ "worker" \in Threads
  BY FlushLeavesHands DEF Threads
<1>2. /\ \A g \in Flushers \ {f} : pending'[g] = pending[g]
      /\ DOMAIN pending[f] \subseteq DOMAIN pending'[f]
      /\ \A i \in DOMAIN pending[f] : pending'[f][i] = pending[f][i]
      /\ \A i \in DOMAIN queue :
           i # 1 => i - 1 \in DOMAIN queue' /\ queue'[i - 1] = queue[i]
  BY PopEffect
<1>3. PICK n \in DOMAIN pending'[f] :
        /\ pending'[f][n] = queue[1]
        /\ \A i \in DOMAIN pending'[f] : i \in DOMAIN pending[f] \/ i = n
  BY PopEffect
<1>4. \A g \in Flushers \ {f} : DOMAIN pending'[g] = {}
  <2>1. DOMAIN <<>> = {}
    OBVIOUS
  <2>2. pending'[f] # <<>>
    BY <1>3, <2>1
  <2> QED  BY <2>1, <2>2 DEF Alone
<1>5. Fresh(s) => Fresh(s)'
  <2>1. CASE Coming("worker") /\ IsSnapshotOf(msg["worker"], s)
    BY <1>1, <2>1 DEF Fresh
  <2>2. ASSUME NEW i \in DOMAIN queue, IsSnapshotOf(queue[i], s)  PROVE Fresh(s)'
    BY <1>0, <1>2, <1>3, <2>2 DEF Fresh
  <2>3. ASSUME NEW g \in Flushers, NEW i \in DOMAIN pending[g],
               IsSnapshotOf(pending[g][i], s), flush[g] = "draining"
        PROVE  Fresh(s)'
    <3>1. i \in DOMAIN pending'[g] /\ pending'[g][i] = pending[g][i]
      BY <1>2
    <3> QED  BY <1>0, <2>3, <3>1 DEF Fresh
  <2> QED  BY <2>1, <2>2, <2>3 DEF Fresh
<1>6. ASSUME NEW a \in state[s], Ahead(s, a)  PROVE (Ahead(s, a) \/ InFlight(s, a))'
  <2>1. CASE \/ \E i \in DOMAIN batch : IsAlertOf(batch[i], s, a)
             \/ Coming("loop") /\ IsAlertOf(msg["loop"], s, a)
    BY <1>1, <2>1 DEF Ahead
  <2>2. ASSUME NEW i \in DOMAIN queue, IsAlertOf(queue[i], s, a)
        PROVE  (Ahead(s, a) \/ InFlight(s, a))'
    <3>1. CASE i # 1
      BY <1>2, <2>2, <3>1 DEF Ahead
    <3>2. CASE i = 1
      <4>1. IsAlertOf(pending'[f][n], s, a)
        BY <1>3, <2>2, <3>2
      <4> QED  BY <1>0, <1>4, <4>1 DEF InFlight
    <3> QED  BY <3>1, <3>2
  <2> QED  BY <1>6, <2>1, <2>2 DEF Ahead
<1>7. ASSUME NEW a \in state[s], InFlight(s, a)  PROVE InFlight(s, a)'
  <2>1. \/ a \in shown'[s]
        \/ \E g \in Flushers : \E i \in DOMAIN pending'[g] :
             \/ IsAlertOf(pending'[g][i], s, a)
             \/ IsSnapshotOf(pending'[g][i], s) /\ a \in pending'[g][i].alerts
    <3>1. CASE a \in shown[s]
      BY <1>0, <3>1
    <3>2. ASSUME NEW g \in Flushers, NEW i \in DOMAIN pending[g],
                 \/ IsAlertOf(pending[g][i], s, a)
                 \/ IsSnapshotOf(pending[g][i], s) /\ a \in pending[g][i].alerts
          PROVE  \E h \in Flushers : \E j \in DOMAIN pending'[h] :
                   \/ IsAlertOf(pending'[h][j], s, a)
                   \/ IsSnapshotOf(pending'[h][j], s) /\ a \in pending'[h][j].alerts
      <4>1. i \in DOMAIN pending'[g] /\ pending'[g][i] = pending[g][i]
        BY <1>2
      <4> QED  BY <3>2, <4>1
    <3> QED  BY <1>7, <3>1, <3>2 DEF InFlight
  <2>2. \A g \in Flushers : flush'[g] # "draining" => DOMAIN pending'[g] = {}
    BY <1>0, <1>4
  <2> QED  BY <2>1, <2>2 DEF InFlight
<1> QED  BY <1>1, <1>5, <1>6, <1>7 DEF Reaches

\* A snapshot is serialized from the state, with all its alerts.
LEMMA DrainEndReaches ==
  ASSUME TInv, NEW f \in Flushers, DrainEnd(f), Alone, NEW s \in Symbols, Reaches(s)
  PROVE  Reaches(s)'
<1>0. /\ queue = <<>> /\ queue' = queue /\ shown' = shown /\ DOMAIN queue = {}
      /\ pending \in [Flushers -> Seq(Message)]
  <2>1. DOMAIN <<>> = {}
    OBVIOUS
  <2> QED  BY <2>1 DEF DrainEnd, clientVars, TInv, RestOK
<1>1. /\ \A t \in Threads : Coming(t) => Coming(t)' /\ msg'[t] = msg[t]
      /\ batch' = batch /\ state' = state /\ "loop" \in Threads /\ "worker" \in Threads
  BY FlushLeavesHands DEF Threads
<1>2. /\ \A g \in Flushers \ {f} : pending'[g] = pending[g] /\ flush'[g] = flush[g]
      /\ DOMAIN pending'[f] = DOMAIN pending[f]
      /\ \A i \in DOMAIN pending[f] : pending'[f][i] = Serialized(pending[f][i])
  BY DrainEndEffect
<1>3. \A i \in DOMAIN pending[f] :
        /\ IsSnapshotOf(pending'[f][i], s) <=> IsSnapshotOf(pending[f][i], s)
        /\ IsSnapshotOf(pending[f][i], s) => pending'[f][i].alerts = state[s]
        /\ ~IsSnapshotOf(pending[f][i], s) => pending'[f][i] = pending[f][i]
                                              \/ pending[f][i].sym # s
        /\ \A a : IsAlertOf(pending[f][i], s, a) => IsAlertOf(pending'[f][i], s, a)
  <2> SUFFICES ASSUME NEW i \in DOMAIN pending[f]
      PROVE /\ IsSnapshotOf(pending'[f][i], s) <=> IsSnapshotOf(pending[f][i], s)
            /\ IsSnapshotOf(pending[f][i], s) => pending'[f][i].alerts = state[s]
            /\ ~IsSnapshotOf(pending[f][i], s) => pending'[f][i] = pending[f][i]
                                                  \/ pending[f][i].sym # s
            /\ \A a : IsAlertOf(pending[f][i], s, a) => IsAlertOf(pending'[f][i], s, a)
    OBVIOUS
  <2>1. PICK m \in Message : m = pending[f][i]
    BY <1>0
  <2>2. pending'[f][i] = Serialized(m)
    BY <1>2, <2>1
  <2>3. CASE m.type = "snapshot"
    <3>1. /\ Serialized(m).type = "snapshot" /\ Serialized(m).sym = m.sym
          /\ Serialized(m).alerts = state[m.sym]
      BY <2>3 DEF Serialized, Message
    <3> QED  BY <2>1, <2>2, <2>3, <3>1 DEF IsSnapshotOf, IsAlertOf, IsAlert
  <2>4. CASE m.type # "snapshot"
    <3>1. Serialized(m) = m
      BY <2>4 DEF Serialized
    <3> QED  BY <2>1, <2>2, <2>4, <3>1 DEF IsSnapshotOf
  <2> QED  BY <2>3, <2>4
<1>4. ASSUME Fresh(s)  PROVE Reaches(s)'
  <2>1. CASE Coming("worker") /\ IsSnapshotOf(msg["worker"], s)
    BY <1>1, <2>1 DEF Fresh, Reaches
  <2>2. ASSUME NEW g \in Flushers, NEW i \in DOMAIN pending[g],
               IsSnapshotOf(pending[g][i], s), flush[g] = "draining"
        PROVE  Reaches(s)'
    <3>1. CASE g # f
      <4>1. Fresh(s)'
        BY <1>2, <2>2, <3>1 DEF Fresh
      <4> QED  BY <4>1 DEF Reaches
    <3>2. CASE g = f
      <4>1. \A h \in Flushers \ {f} : DOMAIN pending'[h] = {}
        BY <1>2, <3>2, AloneSays
      <4>2. ASSUME NEW a \in state[s]  PROVE InFlight(s, a)'
        <5>1. i \in DOMAIN pending'[f] /\ IsSnapshotOf(pending'[f][i], s)
              /\ a \in pending'[f][i].alerts
          BY <1>2, <1>3, <2>2, <3>2
        <5>2. \A j \in DOMAIN pending'[f] :
                IsSnapshotOf(pending'[f][j], s) => a \in pending'[f][j].alerts
          BY <1>2, <1>3
        <5> QED  BY <4>1, <5>1, <5>2 DEF InFlight
      <4> QED  BY <1>1, <4>2 DEF Reaches
    <3> QED  BY <3>1, <3>2
  <2> QED  BY <1>0, <1>4, <2>1, <2>2 DEF Fresh
<1>5. \A a \in state[s] : Ahead(s, a) => Ahead(s, a)'
  BY <1>0, <1>1 DEF Ahead
<1>6. ASSUME NEW a \in state[s], InFlight(s, a)  PROVE InFlight(s, a)'
  <2>1. \A g \in Flushers : flush'[g] # "draining" => \A i \in DOMAIN pending'[g] :
          IsSnapshotOf(pending'[g][i], s) => a \in pending'[g][i].alerts
    <3> SUFFICES ASSUME NEW g \in Flushers, flush'[g] # "draining",
                        NEW i \in DOMAIN pending'[g], IsSnapshotOf(pending'[g][i], s)
                 PROVE  a \in pending'[g][i].alerts
      OBVIOUS
    <3>1. CASE g = f
      BY <1>2, <1>3, <3>1
    <3>2. CASE g # f
      BY <1>2, <1>6, <3>2 DEF InFlight
    <3> QED  BY <3>1, <3>2
  <2>2. CASE a \in shown[s]
    BY <1>0, <2>1, <2>2 DEF InFlight
  <2>3. ASSUME NEW g \in Flushers, NEW i \in DOMAIN pending[g],
               \/ IsAlertOf(pending[g][i], s, a)
               \/ IsSnapshotOf(pending[g][i], s) /\ a \in pending[g][i].alerts
        PROVE  InFlight(s, a)'
    <3>1. /\ i \in DOMAIN pending'[g]
          /\ \/ IsAlertOf(pending'[g][i], s, a)
             \/ IsSnapshotOf(pending'[g][i], s) /\ a \in pending'[g][i].alerts
      <4>1. CASE g = f
        BY <1>2, <1>3, <2>3, <4>1
      <4>2. CASE g # f
        BY <1>2, <2>3, <4>2
      <4> QED  BY <4>1, <4>2
    <3> QED  BY <2>1, <3>1 DEF InFlight
  <2> QED  BY <1>6, <2>2, <2>3 DEF InFlight
<1> QED  BY <1>1, <1>4, <1>5, <1>6 DEF Reaches

\* What is sent is shown, if the other coroutine has nothing to send.
LEMMA SendReaches ==
  ASSUME TInv, NEW f \in Flushers, Send(f), "overlap" \notin spoiled',
         NEW s \in Symbols, Reaches(s)
  PROVE  Reaches(s)'
<1>0. /\ flush[f] = "sending" /\ queue' = queue
      /\ shown \in [Symbols -> SUBSET Nat]
      /\ \A g \in Flushers \ {f} : flush'[g] = flush[g]
  BY DEF Send, TInv, RestOK
<1>1. /\ \A t \in Threads : Coming(t) => Coming(t)' /\ msg'[t] = msg[t]
      /\ batch' = batch /\ state' = state /\ "loop" \in Threads /\ "worker" \in Threads
  BY FlushLeavesHands DEF Threads
<1>2. PICK m \in Message :
        /\ 1 \in DOMAIN pending[f] /\ m = pending[f][1]
        /\ \A i \in DOMAIN pending'[f] :
             i + 1 \in DOMAIN pending[f] /\ pending'[f][i] = pending[f][i + 1]
        /\ \A i \in DOMAIN pending[f] :
             i # 1 => i - 1 \in DOMAIN pending'[f] /\ pending'[f][i - 1] = pending[f][i]
        /\ \A g \in Flushers \ {f} : pending'[g] = pending[g]
        /\ \A r \in Symbols :
             shown'[r] = IF r # m.sym THEN shown[r]
                         ELSE CASE m.type = "snapshot" -> m.alerts
                                [] IsAlert(m) -> shown[r] \cup m.alerts
                                [] OTHER -> shown[r]
  BY SendEffect
<1>3. \A g \in Flushers \ {f} : DOMAIN pending[g] = {}
  <2>1. DOMAIN <<>> = {}
    OBVIOUS
  <2>2. \A g \in Flushers \ {f} : pending[g] = <<>>
    BY DEF Send
  <2> QED  BY <2>1, <2>2
<1>4. Fresh(s) => Fresh(s)'
  BY <1>0, <1>1, <1>3 DEF Fresh
<1>5. \A a \in state[s] : Ahead(s, a) => Ahead(s, a)'
  BY <1>0, <1>1 DEF Ahead
<1>6. ASSUME NEW a \in state[s], InFlight(s, a)  PROVE InFlight(s, a)'
  <2>1. \A i \in DOMAIN pending[f] :
          IsSnapshotOf(pending[f][i], s) => a \in pending[f][i].alerts
    BY <1>0, <1>6 DEF InFlight
  <2>2. \A g \in Flushers : \A i \in DOMAIN pending'[g] :
          IsSnapshotOf(pending'[g][i], s) => a \in pending'[g][i].alerts
    BY <1>2, <1>3, <2>1
  <2>3. CASE a \in shown'[s]
    BY <2>2, <2>3 DEF InFlight
  <2>4. CASE a \notin shown'[s]
    <3>1. a \notin shown[s]
      <4>1. m.sym = s /\ m.type = "snapshot" => a \in m.alerts
        BY <1>2, <2>1 DEF IsSnapshotOf
      <4> QED  BY <1>2, <2>4, <4>1
    <3>2. PICK g \in Flushers : \E i \in DOMAIN pending[g] :
            \/ IsAlertOf(pending[g][i], s, a)
            \/ IsSnapshotOf(pending[g][i], s) /\ a \in pending[g][i].alerts
      BY <1>6, <3>1 DEF InFlight
    <3>3. PICK i \in DOMAIN pending[f] :
            \/ IsAlertOf(pending[f][i], s, a)
            \/ IsSnapshotOf(pending[f][i], s) /\ a \in pending[f][i].alerts
      BY <1>3, <3>2
    <3>4. i # 1
      <4>1. IsAlertOf(m, s, a) => a \in shown'[s]
        BY <1>2 DEF IsAlertOf, IsAlert
      <4>2. IsSnapshotOf(m, s) /\ a \in m.alerts => a \in shown'[s]
        BY <1>2 DEF IsSnapshotOf
      <4> QED  BY <1>2, <2>4, <3>3, <4>1, <4>2
    <3>5. i - 1 \in DOMAIN pending'[f] /\ pending'[f][i - 1] = pending[f][i]
      BY <1>2, <3>4
    <3> QED  BY <2>2, <3>3, <3>5 DEF InFlight
  <2> QED  BY <2>3, <2>4
<1> QED  BY <1>1, <1>4, <1>5, <1>6 DEF Reaches

\* Every step leaves the alerts of a subscriber on their way.
LEMMA AlertsInductive ==
  ASSUME TInv, TInv', IndexInv, PhaseInv, AlertsInv, [Next]_vars
  PROVE  AlertsInv'
<1> USE DEF flushVars, sourceVars, clientVars, threadVars, restEnqueue
<1> SUFFICES ASSUME spoiled' = {}, open', Alone', NEW s \in subscribed'
             PROVE  Reaches(s)'
  BY DEF AlertsInv
<1>0. /\ spoiled = {} /\ s \in Symbols /\ "loop" \in Threads /\ "worker" \in Threads
      /\ pc \in [Threads -> LoopLabels \cup WorkerLabels]
      /\ msg \in [Threads -> Message] /\ subscribed \subseteq Symbols
      /\ pending \in [Flushers -> Seq(Message)]
      /\ flush \in [Flushers -> {"idle", "serving", "due", "draining", "sending"}]
      /\ "handler" \in Flushers /\ "broadcast" \in Flushers
      /\ \A f \in Flushers : pending[f] # <<>> => flush[f] \in {"draining", "sending"}
  BY SpoiledStays DEF TInv, RestOK, ThreadsOK, Threads, Flushers, PhaseInv
<1>1. ASSUME open, Alone, s \in subscribed  PROVE Reaches(s)
  BY <1>0, <1>1 DEF AlertsInv
<1>2. ASSUME NEW t \in Threads, EnqueueStep(t)  PROVE Reaches(s)'
  <2>1. open' = open /\ pending' = pending /\ subscribed' = subscribed
    BY <1>2 DEF EnqueueStep, Search, Replace, Check, Scan, Delete, Recheck, AppendMessage
  <2>2. Alone
    BY <2>1 DEF Alone
  <2> QED  BY <1>0, <1>1, <1>2, <2>1, <2>2, EnqueueReaches
<1>3. ASSUME UNCHANGED <<queue, pending, batch, shown, state, subscribed, open>>,
             \A t \in Threads : Coming(t) => Coming(t)' /\ msg'[t] = msg[t],
             \A f \in Flushers : pending[f] # <<>> => flush'[f] = flush[f]
      PROVE  Reaches(s)'
  <2>1. Alone
    BY <1>3 DEF Alone
  <2>2. Reaches(s)
    BY <1>1, <1>3, <2>1
  <2> QED  BY <1>0, <1>3, <2>2, ReachesStill
<1>4. CASE TickStart \/ PublishEnd \/ BroadcastEnd
  <2>1. /\ UNCHANGED <<queue, pending, batch, shown, state, subscribed, open, msg>>
        /\ pc["loop"] \in {"free", "publish", "broadcast"}
        /\ pc'["worker"] = pc["worker"]
    BY <1>0, <1>4 DEF TickStart, PublishEnd, BroadcastEnd, LoopGoes
  <2>2. \A t \in Threads : Coming(t) => Coming(t)'
    BY <2>1 DEF Coming, Threads
  <2>3. \A f \in Flushers : pending[f] # <<>> => flush'[f] = flush[f]
    <3>1. CASE TickStart \/ PublishEnd
      BY <3>1 DEF TickStart, PublishEnd
    <3>2. CASE BroadcastEnd
      <4>1. flush' = [flush EXCEPT !["broadcast"] = "due"] /\ pc["loop"] = "broadcast"
        BY <3>2 DEF BroadcastEnd, LoopGoes
      <4>2. pending["broadcast"] = <<>>
        BY <1>0, <4>1 DEF PhaseInv
      <4> QED  BY <1>0, <4>1, <4>2
    <3> QED  BY <1>4, <3>1, <3>2
  <2> QED  BY <1>3, <2>1, <2>2, <2>3
<1>5. CASE Broadcast
  <2>1. open' = open /\ pending' = pending /\ subscribed' = subscribed
    BY <1>5 DEF Broadcast
  <2>2. Alone
    BY <2>1 DEF Alone
  <2> QED  BY <1>1, <1>5, <2>1, <2>2, BroadcastReaches
<1>6. ASSUME NEW r \in Symbols, NEW y \in DeltaTypes, Publish(r, y)  PROVE Reaches(s)'
  <2>1. open' = open /\ pending' = pending /\ subscribed' = subscribed
    BY <1>6 DEF Publish
  <2>2. Alone
    BY <2>1 DEF Alone
  <2> QED  BY <1>0, <1>1, <1>6, <2>1, <2>2, PublishReaches
<1>7. ASSUME NEW f \in Flushers, FlushStart(f)  PROVE Reaches(s)'
  <2>1. /\ UNCHANGED <<queue, pending, batch, shown, state, subscribed, open, msg>>
        /\ pc["loop"] = "free" /\ pc'["worker"] = pc["worker"] /\ flush[f] = "due"
        /\ flush' \in {[flush EXCEPT ![f] = "draining"], [flush EXCEPT ![f] = "idle"]}
    BY <1>0, <1>7 DEF FlushStart, LoopGoes
  <2>2. \A t \in Threads : Coming(t) => Coming(t)'
    BY <2>1 DEF Coming, Threads
  <2>3. \A g \in Flushers : pending[g] # <<>> => flush'[g] = flush[g]
    BY <1>0, <2>1
  <2> QED  BY <1>3, <2>1, <2>2, <2>3
<1>8. ASSUME NEW f \in Flushers, Pop(f)  PROVE Reaches(s)'
  <2>1. open' = open /\ subscribed' = subscribed
    BY <1>8 DEF Pop
  <2>2. Alone
    <3>1. \A g \in Flushers : pending[g] # <<>> => pending'[g] # <<>>
      <4> SUFFICES ASSUME NEW g \in Flushers, pending[g] # <<>>
                   PROVE  pending'[g] # <<>>
        OBVIOUS
      <4>1. DOMAIN pending[g] \subseteq DOMAIN pending'[g]
        BY <1>8, PopEffect
      <4>2. DOMAIN pending[g] # {}
        BY <1>0, EmptyLooks
      <4>3. DOMAIN <<>> = {}
        OBVIOUS
      <4> QED  BY <4>1, <4>2, <4>3
    <3> QED  BY <3>1 DEF Alone
  <2> QED  BY <1>0, <1>1, <1>8, <2>1, <2>2, PopReaches
<1>9. ASSUME NEW f \in Flushers, DrainEnd(f)  PROVE Reaches(s)'
  <2>1. open' = open /\ subscribed' = subscribed
    BY <1>9 DEF DrainEnd
  <2>2. Alone
    <3>1. \A g \in Flushers : pending[g] # <<>> => pending'[g] # <<>>
      <4> SUFFICES ASSUME NEW g \in Flushers, pending[g] # <<>>
                   PROVE  pending'[g] # <<>>
        OBVIOUS
      <4>1. DOMAIN pending[g] = DOMAIN pending'[g]
        BY <1>9, DrainEndEffect
      <4>2. DOMAIN pending[g] # {}
        BY <1>0, EmptyLooks
      <4>3. DOMAIN <<>> = {}
        OBVIOUS
      <4> QED  BY <4>1, <4>2, <4>3
    <3> QED  BY <3>1 DEF Alone
  <2> QED  BY <1>0, <1>1, <1>9, <2>1, <2>2, DrainEndReaches
<1>10. ASSUME NEW f \in Flushers, Send(f)  PROVE Reaches(s)'
  <2>1. open /\ subscribed' = subscribed
    BY <1>10 DEF Send
  <2>2. \A g \in Flushers \ {f} : pending[g] = <<>>
    BY <1>10 DEF Send
  <2>3. Alone
    BY <2>2 DEF Alone
  <2> QED  BY <1>0, <1>1, <1>10, <2>1, <2>3, SendReaches
<1>11. CASE Close \/ \E f \in Flushers : SendFails(f)
  BY <1>11 DEF Close, SendFails
<1>12. CASE Join
  <2>1. /\ UNCHANGED <<queue, pending, batch, shown, state, open, msg, flush>>
        /\ pc["worker"] = "join" /\ pc'["worker"] = "check" /\ pc'["loop"] = pc["loop"]
        /\ subscribed' = subscribed \cup {msg["worker"].sym}
    BY <1>0, <1>12, GotoSplit DEF Join, Threads
  <2>2. msg["worker"].type = "snapshot"
    BY <2>1 DEF PhaseInv
  <2>3. \A t \in Threads : Coming(t) => Coming(t)'
    BY <2>1 DEF Coming, Threads
  <2>4. CASE s = msg["worker"].sym
    BY <2>1, <2>2, <2>4 DEF Reaches, Fresh, IsSnapshotOf, Coming
  <2>5. CASE s # msg["worker"].sym
    <3>1. Alone /\ open /\ s \in subscribed
      BY <2>1, <2>5 DEF Alone
    <3>2. Reaches(s)
      BY <1>1, <3>1
    <3> QED  BY <1>0, <2>1, <2>3, <3>2, ReachesStill
  <2> QED  BY <2>4, <2>5
<1>13. CASE Leave
  <2>1. /\ UNCHANGED <<queue, pending, batch, shown, state, open, msg, flush>>
        /\ pc["worker"] = "leave" /\ pc'["loop"] = pc["loop"]
        /\ subscribed' \subseteq subscribed
    BY <1>0, <1>13, GotoSplit DEF Leave, Threads
  <2>2. \A t \in Threads : Coming(t) => Coming(t)'
    BY <2>1 DEF Coming, Threads
  <2>3. Alone /\ open /\ s \in subscribed
    BY <2>1 DEF Alone
  <2>4. Reaches(s)
    BY <1>1, <2>3
  <2> QED  BY <1>0, <2>1, <2>2, <2>4, ReachesStill
<1>14. CASE Resume
  <2>1. /\ UNCHANGED <<queue, pending, batch, shown, state, subscribed, open>>
        /\ pc["worker"] = "return" /\ pc'["loop"] = pc["loop"] /\ msg'["loop"] = msg["loop"]
        /\ flush' = [flush EXCEPT !["handler"] = "due"]
    BY <1>0, <1>14 DEF Resume
  <2>2. \A t \in Threads : Coming(t) => Coming(t)' /\ msg'[t] = msg[t]
    BY <2>1 DEF Coming, Threads
  <2>3. flush["handler"] = "serving"
    BY <2>1 DEF PhaseInv
  <2>4. \A f \in Flushers : pending[f] # <<>> => flush'[f] = flush[f]
    BY <1>0, <2>1, <2>3
  <2> QED  BY <1>3, <2>1, <2>2, <2>4
<1>15. ASSUME NEW a \in Asks, NEW r \in Symbols, Ask(a, r)  PROVE Reaches(s)'
  <2>1. /\ UNCHANGED <<queue, pending, batch, shown, state, subscribed, open>>
        /\ flush["handler"] = "idle" /\ flush' = [flush EXCEPT !["handler"] = "serving"]
        /\ pc'["loop"] = pc["loop"]
    BY <1>0, <1>15 DEF Ask, Goto
  <2>2. msg'["loop"] = msg["loop"]
    BY <1>0, <1>15 DEF Ask
  <2>3. pc["worker"] = "free"
    BY <2>1 DEF PhaseInv
  <2>4. \A t \in Threads : Coming(t) => Coming(t)' /\ msg'[t] = msg[t]
    BY <2>1, <2>2, <2>3 DEF Coming, Threads
  <2>5. \A f \in Flushers : pending[f] # <<>> => flush'[f] = flush[f]
    BY <1>0, <2>1
  <2> QED  BY <1>3, <2>1, <2>4, <2>5
<1>16. CASE UNCHANGED vars
  BY <1>3, <1>16 DEF vars, Coming
<1> QED
  BY <1>2, <1>4, <1>5, <1>6, <1>7, <1>8, <1>9, <1>10, <1>11, <1>12, <1>13, <1>14, <1>15,
     <1>16
  DEF Next, Tick, Worker, Flush, Threads

\* A subscriber will be shown every alert of the state, by a snapshot that is
\* still to be serialized or by what is on its way.
THEOREM SpecAlerts == Spec => []AlertsInv
<1>1. Init => AlertsInv
  BY DEF Init, AlertsInv
<1>2. TInv /\ TInv' /\ IndexInv /\ PhaseInv /\ AlertsInv /\ [Next]_vars => AlertsInv'
  BY AlertsInductive
<1> QED  BY <1>1, <1>2, SpecTypes, SpecIndex, SpecPhases, PTL DEF Spec

\* Once nothing is under way a subscriber shows the alerts of the state, unless
\* a message was dropped, an index was stale or sends overlapped.
THEOREM AlertsReachClientHolds == Spec => []AlertsReachClient
<1>1. TInv /\ AlertsInv /\ BackedInv => AlertsReachClient
  <2> SUFFICES ASSUME TInv, AlertsInv, BackedInv, Quiet, open, spoiled = {},
                      NEW s \in subscribed
               PROVE  shown[s] = state[s]
    BY DEF AlertsReachClient
  <2>0. s \in Symbols /\ DOMAIN <<>> = {}
    <3>1. DOMAIN <<>> = {}
      OBVIOUS
    <3> QED  BY <3>1 DEF TInv, RestOK
  <2>1. /\ DOMAIN queue = {} /\ DOMAIN batch = {} /\ Alone
        /\ \A f \in Flushers : DOMAIN pending[f] = {}
        /\ \A t \in Threads : ~Coming(t)
    <3>1. /\ queue = <<>> /\ batch = <<>> /\ \A f \in Flushers : pending[f] = <<>>
          /\ \A t \in Threads : pc[t] = "free"
      BY DEF Quiet, Flushers
    <3>2. \A t \in Threads : ~Coming(t)
      BY <3>1 DEF Coming
    <3> QED  BY <2>0, <3>1, <3>2 DEF Alone
  <2>2. Reaches(s)
    BY <2>1 DEF AlertsInv
  <2>3. ~Fresh(s) /\ \A a \in state[s] : ~Ahead(s, a)
    BY <2>1 DEF Fresh, Ahead, Threads
  <2>4. state[s] \subseteq shown[s]
    BY <2>1, <2>2, <2>3 DEF Reaches, InFlight
  <2>5. shown[s] \subseteq state[s]
    BY <2>0 DEF BackedInv
  <2> QED  BY <2>4, <2>5
<1> QED  BY <1>1, SpecTypes, SpecAlerts, SpecBacked, PTL
=============================================================================
