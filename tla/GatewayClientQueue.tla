------------------------ MODULE GatewayClientQueue ------------------------
(***************************************************************************)
(* The queue between the runtime and one WebSocket client, from the tick   *)
(* that publishes a delta to the bytes on the socket.                      *)
(*                                                                         *)
(* Two threads touch the queue without a lock.  The event loop enqueues    *)
(* deltas and drains; the worker thread that serves the client's request   *)
(* enqueues responses.  A thread may be switched out between any two calls *)
(* it makes, so enqueue is cut where one read of the queue and the use of  *)
(* what was read are separate steps.                                       *)
(*                                                                         *)
(* Two coroutines of the loop flush the queue: the client's handler after  *)
(* each request and broadcast_once after each tick.  Each takes what is    *)
(* queued and sends it message by message, and may be suspended in a send. *)
(*                                                                         *)
(* The module starts when connect has returned.  The counters of           *)
(* ClientQueueStats are left out; nothing reads them back.                 *)
(***************************************************************************)
EXTENDS Integers, Sequences, FiniteSets, SequencesExt

CONSTANTS
  Symbols,     \* the symbols the client may ask for
  None,        \* no symbol: health messages are about none
  MaxSize,     \* GatewayClientQueue.max_size
  DeltaTypes,  \* types of the deltas the runtime publishes
  Asks,        \* actions of the requests the client sends
  MaxDeltas,   \* bound: deltas published per symbol
  MaxRequests  \* bound: requests of the client

Coalescible == {"tick_realtime", "queue_realtime"}
Critical == {"snapshot", "holding_name_click_response"}
Types == Coalescible \cup Critical \cup {"alert_realtime", "health"}

ASSUME NoneAssumption == None \notin Symbols
ASSUME SizeAssumption == MaxSize \in Nat \ {0}
ASSUME DeltaAssumption ==
  DeltaTypes \subseteq Coalescible \cup {"alert_realtime", "snapshot"}
ASSUME AskAssumption ==
  Asks \subseteq {"subscribe", "unsubscribe", "holding_name_click", "health"}
ASSUME BoundAssumption == MaxDeltas \in Nat /\ MaxRequests \in Nat

Threads == {"loop", "worker"}
Flushers == {"handler", "broadcast"}

\* "alerts" is what the client will show: for a snapshot the alerts of the
\* state it was serialized from, for an alert the alert itself.
Message ==
  {m \in [type : Types, sym : Symbols \cup {None}, seq : Nat, alerts : SUBSET Nat] :
     m.type # "health" => m.sym \in Symbols}

Health == [type |-> "health", sym |-> None, seq |-> 0, alerts |-> {}]

VARIABLES
  queue,       \* GatewayClientQueue.queue
  pc, msg, index,  \* where each thread stands in enqueue, and its locals
  moved,       \* the queue moved since this thread last looked for an index
  batch,       \* terminal messages of the tick that are not broadcast yet
  flush,       \* how far each coroutine has come with flush_client
  pending,     \* messages it has drained and not sent
  subscribed,  \* GatewaySession.subscribed_symbols
  open,        \* the client is in service.clients and manager.sessions
  published,   \* SymbolRuntimeManager.seq_by_symbol
  answered,    \* GatewayV2.seq_by_symbol
  state,       \* alerts in the symbol's snapshot payload
  requests,    \* requests sent
  shown,       \* alerts the client shows, per symbol
  wire,        \* seq last sent, per symbol and type
  spoiled      \* what has gone wrong so far: "race", "overlap", "overflow"

threadVars == <<pc, msg, index, moved>>
flushVars == <<flush, pending>>
sourceVars == <<published, answered, state, requests>>
clientVars == <<shown, wire>>
vars == <<queue, threadVars, batch, flushVars, subscribed, open, sourceVars,
          clientVars, spoiled>>

\* connect has put the health message in the queue; handle_client is about
\* to flush it.
Init ==
  /\ queue = <<Health>>
  /\ pc = [t \in Threads |-> "free"]
  /\ msg = [t \in Threads |-> Health]
  /\ index = [t \in Threads |-> 0]
  /\ moved = [t \in Threads |-> FALSE]
  /\ batch = <<>>
  /\ flush = [f \in Flushers |-> IF f = "handler" THEN "due" ELSE "idle"]
  /\ pending = [f \in Flushers |-> <<>>]
  /\ subscribed = {}
  /\ open = TRUE
  /\ published = [s \in Symbols |-> 0]
  /\ answered = [s \in Symbols |-> 0]
  /\ state = [s \in Symbols |-> {}]
  /\ requests = 0
  /\ shown = [s \in Symbols |-> {}]
  /\ wire = [s \in Symbols |-> [y \in Types |-> 0]]
  /\ spoiled = {}

-----------------------------------------------------------------------------
(* enqueue, on thread t.                                                   *)

IsAlert(m) == m.type = "alert_realtime"
IsCritical(m) == m.type \in Critical

\* Mutant of Droppable: a response may take the place of an alert.
DroppableAlert(m, q) ==
  \/ IsAlert(m) /\ ~IsAlert(q)
  \/ IsCritical(m) /\ ~IsCritical(q)

\* What enqueue of m may take out of a full queue.
Droppable(m, q) ==
  \/ IsAlert(m) /\ ~IsAlert(q)
  \/ IsCritical(m) /\ ~IsCritical(q) /\ ~IsAlert(q)

Victims(m) == {i \in DOMAIN queue : Droppable(m, queue[i])}

\* Mutant of SameStream: the symbol is not compared.
SameType(m, q) == q.type = m.type

\* Same type and symbol.
SameStream(m, q) == q.type = m.type /\ q.sym = m.sym

Goto(t, l, i, mv) ==
  /\ pc' = [pc EXCEPT ![t] = l]
  /\ index' = [index EXCEPT ![t] = i]
  /\ moved' = [moved EXCEPT ![t] = mv]

\* Thread t changes the length of the queue and goes to l: what the other
\* thread knows about positions is out of date.
Looking == {"search", "replace", "scan", "delete"}

MoveAndGoto(t, l) ==
  /\ pc' = [pc EXCEPT ![t] = l]
  /\ index' = [index EXCEPT ![t] = 0]
  /\ moved' = [u \in Threads |-> u # t /\ (moved[u] \/ pc[u] \in Looking)]

\* Mutant of Raise: nobody awaits the worker's error.
RaiseLost(t) == IF t = "loop" THEN "stopped" ELSE "free"

\* Where a thread goes on when enqueue has returned, and when it has raised:
\* the worker's error goes to its client, the loop's ends the runtime.
Return(t) == IF t = "loop" THEN "broadcast" ELSE "return"
Raise(t) == IF t = "loop" THEN "stopped" ELSE "return"

\* A message that must not be lost is.
Lose(m) ==
  spoiled' = IF IsAlert(m) \/ IsCritical(m) THEN spoiled \cup {"overflow"}
                                           ELSE spoiled

restEnqueue == <<msg, batch, flushVars, subscribed, open, sourceVars, clientVars>>

\* First step of enqueue(m): a coalescible message looks for its predecessor
\* from the end of the queue, which has the length it has now.
Enqueue(t, m) ==
  /\ msg' = [msg EXCEPT ![t] = m]
  /\ IF m.type \in Coalescible
       THEN Goto(t, "search", Len(queue), FALSE)
       ELSE Goto(t, "check", 0, FALSE)

\* Mutant of Search: the first message is not looked at.
SearchSkipsFirst(t) ==
  /\ pc[t] = "search"
  /\ \/ /\ index[t] <= 1
        /\ Goto(t, "check", 0, FALSE)
     \/ /\ index[t] > 1
        /\ IF index[t] \notin DOMAIN queue THEN Goto(t, Raise(t), 0, FALSE)
           ELSE IF SameStream(msg[t], queue[index[t]])
             THEN Goto(t, "replace", index[t], moved[t])
             ELSE Goto(t, "search", index[t] - 1, moved[t])
  /\ UNCHANGED <<queue, spoiled, restEnqueue>>

\* Mutant of Search: the search runs one index too far.
SearchTooFar(t) ==
  /\ pc[t] = "search"
  /\ IF index[t] \in DOMAIN queue /\ SameStream(msg[t], queue[index[t]])
       THEN Goto(t, "replace", index[t], moved[t])
       ELSE Goto(t, "search", index[t] - 1, moved[t])
  /\ UNCHANGED <<queue, spoiled, restEnqueue>>

\* _replace_latest looks at queue[index].  The index may be gone.
Search(t) ==
  /\ pc[t] = "search"
  /\ \/ /\ index[t] = 0
        /\ Goto(t, "check", 0, FALSE)
     \/ /\ index[t] > Len(queue)
        /\ Goto(t, Raise(t), 0, FALSE)
     \/ /\ index[t] \in DOMAIN queue
        /\ IF SameStream(msg[t], queue[index[t]])
             THEN Goto(t, "replace", index[t], moved[t])
             ELSE Goto(t, "search", index[t] - 1, moved[t])
  /\ UNCHANGED <<queue, spoiled, restEnqueue>>

\* self.queue[index] = message, at the index found before.
Replace(t) ==
  /\ pc[t] = "replace"
  /\ IF index[t] \in DOMAIN queue
       THEN /\ queue' = [queue EXCEPT ![index[t]] = msg[t]]
            /\ spoiled' = IF moved[t] THEN spoiled \cup {"race"} ELSE spoiled
            /\ Goto(t, Return(t), 0, FALSE)
       ELSE /\ Goto(t, Raise(t), 0, FALSE)
            /\ UNCHANGED <<queue, spoiled>>
  /\ UNCHANGED restEnqueue

\* Mutant of Full: off by one.
Overfull == Len(queue) > MaxSize

Full == Len(queue) >= MaxSize

\* The first length check.  A full queue refuses a message that is neither an
\* alert nor critical; the others look for something to drop.
Check(t) ==
  /\ pc[t] = "check"
  /\ IF ~Full THEN Goto(t, "recheck", 0, FALSE)
     ELSE IF IsAlert(msg[t]) \/ IsCritical(msg[t])
       THEN Goto(t, "scan", 0, FALSE)
       ELSE Goto(t, Return(t), 0, FALSE)
  /\ UNCHANGED <<queue, spoiled, restEnqueue>>

\* The loop of _drop_one_non_alert and _drop_one_non_critical.  When the queue
\* has moved since the check, that was before its iterator existed or after:
\* then the iterator raises.
Scan(t) ==
  /\ pc[t] = "scan"
  /\ \/ /\ moved[t]
        /\ Goto(t, Raise(t), 0, FALSE)
        /\ Lose(msg[t])
     \/ /\ Victims(msg[t]) = {}
        /\ Goto(t, Return(t), 0, FALSE)
        /\ Lose(msg[t])
     \/ /\ \E first \in Victims(msg[t]) :
             /\ \A i \in Victims(msg[t]) : first <= i
             /\ Goto(t, "delete", first, FALSE)
        /\ UNCHANGED spoiled
  /\ UNCHANGED <<queue, restEnqueue>>

\* del self.queue[index], at the index found before.
Delete(t) ==
  /\ pc[t] = "delete"
  /\ IF index[t] \in DOMAIN queue
       THEN /\ queue' = RemoveAt(queue, index[t])
            /\ MoveAndGoto(t, "recheck")
            /\ IF moved[t] THEN spoiled' = spoiled \cup {"race"}
                           ELSE Lose(queue[index[t]])
       ELSE /\ Goto(t, Raise(t), 0, FALSE)
            /\ Lose(msg[t])
            /\ UNCHANGED queue
  /\ UNCHANGED restEnqueue

\* The second length check.
Recheck(t) ==
  /\ pc[t] = "recheck"
  /\ IF Full
       THEN Goto(t, Return(t), 0, FALSE) /\ Lose(msg[t])
       ELSE Goto(t, "append", 0, FALSE) /\ UNCHANGED spoiled
  /\ UNCHANGED <<queue, restEnqueue>>

\* Mutant of AppendMessage: the message goes to the side that is drained.
AppendLeft(t) ==
  /\ pc[t] = "append"
  /\ queue' = <<msg[t]>> \o queue
  /\ MoveAndGoto(t, Return(t))
  /\ UNCHANGED <<spoiled, restEnqueue>>

AppendMessage(t) ==
  /\ pc[t] = "append"
  /\ queue' = Append(queue, msg[t])
  /\ MoveAndGoto(t, Return(t))
  /\ UNCHANGED <<spoiled, restEnqueue>>

EnqueueStep(t) ==
  \/ Search(t) \/ Replace(t) \/ Check(t) \/ Scan(t) \/ Delete(t)
  \/ Recheck(t) \/ AppendMessage(t)

-----------------------------------------------------------------------------
(* The event loop: a tick, then its flush.                                 *)

LoopGoes(from, to) ==
  /\ pc["loop"] = from
  /\ pc' = [pc EXCEPT !["loop"] = to]

\* tick_once starts when broadcast_once of the last tick has gathered its
\* flushes.
TickStart ==
  /\ LoopGoes("free", "publish")
  /\ flush["broadcast"] = "idle"
  /\ UNCHANGED <<queue, msg, index, moved, batch, flushVars, subscribed, open,
                 sourceVars, clientVars, spoiled>>

\* A raw event becomes a terminal message.  The pipeline has changed the
\* symbol's payload in place before.
Publish(s, y) ==
  /\ pc["loop"] = "publish"
  /\ published[s] < MaxDeltas
  /\ published' = [published EXCEPT ![s] = @ + 1]
  /\ LET new == IF y = "alert_realtime" THEN {published'[s]} ELSE {}
     IN /\ batch' = Append(batch, [type |-> y, sym |-> s,
                                   seq |-> published'[s], alerts |-> new])
        /\ state' = [state EXCEPT ![s] = @ \cup new]
  /\ UNCHANGED <<queue, threadVars, flushVars, subscribed, open, answered,
                 requests, clientVars, spoiled>>

PublishEnd ==
  /\ LoopGoes("publish", "broadcast")
  /\ UNCHANGED <<queue, msg, index, moved, batch, flushVars, subscribed, open,
                 sourceVars, clientVars, spoiled>>

\* broadcast_runtime_messages: the next message of the tick goes to the client
\* if it still has a session and is subscribed now.
Broadcast ==
  /\ pc["loop"] = "broadcast"
  /\ batch # <<>>
  /\ batch' = Tail(batch)
  /\ IF open /\ Head(batch).sym \in subscribed
       THEN Enqueue("loop", Head(batch))
       ELSE UNCHANGED threadVars
  /\ UNCHANGED <<queue, flushVars, subscribed, open, sourceVars, clientVars,
                 spoiled>>

\* The tick goes on to broadcast_once.
BroadcastEnd ==
  /\ batch = <<>>
  /\ LoopGoes("broadcast", "free")
  /\ flush' = [flush EXCEPT !["broadcast"] = "due"]
  /\ UNCHANGED <<queue, msg, index, moved, batch, pending, subscribed, open,
                 sourceVars, clientVars, spoiled>>

-----------------------------------------------------------------------------
(* flush_client, in coroutine f.                                           *)

\* A client that is gone has nothing to flush.
FlushStart(f) ==
  /\ flush[f] = "due"
  /\ pc["loop"] = "free"
  /\ IF open
       THEN /\ LoopGoes("free", "drain")
            /\ flush' = [flush EXCEPT ![f] = "draining"]
       ELSE /\ flush' = [flush EXCEPT ![f] = "idle"]
            /\ UNCHANGED pc
  /\ UNCHANGED <<queue, msg, index, moved, batch, pending, subscribed, open,
                 sourceVars, clientVars, spoiled>>

\* One popleft of drain.
Pop(f) ==
  /\ flush[f] = "draining"
  /\ pc["loop"] = "drain"
  /\ queue # <<>>
  /\ pending' = [pending EXCEPT ![f] = Append(@, Head(queue))]
  /\ queue' = Tail(queue)
  /\ MoveAndGoto("loop", "drain")
  /\ UNCHANGED <<msg, batch, flush, subscribed, open, sourceVars, clientVars,
                 spoiled>>

\* Mutant of Serialized: the message holds a copy made when it was built.
SerializedCopy(m) == m

\* json.dumps: a snapshot message holds the live payload, so what is sent is
\* the state of this moment and not of the moment it was enqueued.
Serialized(m) ==
  IF m.type = "snapshot" THEN [m EXCEPT !.alerts = state[m.sym]] ELSE m

\* The queue is empty: what was drained is serialized.
DrainEnd(f) ==
  /\ flush[f] = "draining"
  /\ queue = <<>>
  /\ LoopGoes("drain", "free")
  /\ pending' = [pending EXCEPT
                   ![f] = [i \in DOMAIN pending[f] |-> Serialized(pending[f][i])]]
  /\ flush' = [flush EXCEPT ![f] = IF pending[f] = <<>> THEN "idle" ELSE "sending"]
  /\ UNCHANGED <<queue, msg, index, moved, batch, subscribed, open, sourceVars,
                 clientVars, spoiled>>

\* The client shows the alerts of a snapshot, and each alert it is sent.
Show(m) ==
  IF m.sym = None
    THEN UNCHANGED clientVars
    ELSE /\ wire' = [wire EXCEPT ![m.sym][m.type] = m.seq]
         /\ shown' = [shown EXCEPT ![m.sym] =
                        CASE m.type = "snapshot" -> m.alerts
                          [] IsAlert(m) -> @ \cup m.alerts
                          [] OTHER -> @]

\* The next message is written to the socket; then the coroutine may be
\* suspended until the client has read.
Send(f) ==
  /\ pc["loop"] = "free"
  /\ flush[f] = "sending"
  /\ pending[f] # <<>>
  /\ open
  /\ Show(Head(pending[f]))
  /\ pending' = [pending EXCEPT ![f] = Tail(@)]
  /\ flush' = [flush EXCEPT ![f] = IF Len(pending[f]) = 1 THEN "idle" ELSE "sending"]
  /\ spoiled' = IF \E g \in Flushers \ {f} : pending[g] # <<>>
                  THEN spoiled \cup {"overlap"} ELSE spoiled
  /\ UNCHANGED <<queue, threadVars, batch, subscribed, open, sourceVars>>

\* A send fails or times out, or the client is gone: what is left is dropped
\* and the client is disconnected.
SendFails(f) ==
  /\ pc["loop"] = "free"
  /\ flush[f] = "sending"
  /\ open' = FALSE
  /\ pending' = [pending EXCEPT ![f] = <<>>]
  /\ flush' = [flush EXCEPT ![f] = "idle"]
  /\ UNCHANGED <<queue, threadVars, batch, subscribed, sourceVars, clientVars,
                 spoiled>>

-----------------------------------------------------------------------------
(* handle_client and the worker thread of its request.                     *)

ResponseType(a) ==
  CASE a = "subscribe" -> "snapshot"
    [] a = "holding_name_click" -> "holding_name_click_response"
    [] OTHER -> "health"

Response(a, s) ==
  IF ResponseType(a) = "health" THEN Health
  ELSE [type |-> ResponseType(a), sym |-> s, seq |-> answered[s] + 1, alerts |-> {}]

\* A request is handed to the worker, which builds the response.
Ask(a, s) ==
  /\ open
  /\ pc["loop"] = "free"
  /\ flush["handler"] = "idle"
  /\ requests < MaxRequests
  /\ requests' = requests + 1
  /\ flush' = [flush EXCEPT !["handler"] = "serving"]
  /\ msg' = [msg EXCEPT !["worker"] = [Response(a, s) EXCEPT !.sym =
                                         IF a = "unsubscribe" THEN s ELSE @]]
  /\ answered' = IF ResponseType(a) = "health" THEN answered
                 ELSE [answered EXCEPT ![s] = @ + 1]
  /\ Goto("worker", CASE a = "subscribe" -> "join"
                      [] a = "unsubscribe" -> "leave"
                      [] OTHER -> "check", 0, FALSE)
  /\ UNCHANGED <<queue, batch, pending, subscribed, open, published, state,
                 clientVars, spoiled>>

\* subscribed_symbols.add, then enqueue of the snapshot.
Join ==
  /\ pc["worker"] = "join"
  /\ subscribed' = subscribed \cup {msg["worker"].sym}
  /\ Goto("worker", "check", 0, FALSE)
  /\ UNCHANGED <<queue, msg, batch, flushVars, open, sourceVars, clientVars,
                 spoiled>>

Leave ==
  /\ pc["worker"] = "leave"
  /\ subscribed' = subscribed \ {msg["worker"].sym}
  /\ Goto("worker", "return", 0, FALSE)
  /\ UNCHANGED <<queue, msg, batch, flushVars, open, sourceVars, clientVars,
                 spoiled>>

\* Mutant of Resume: the handler waits for the next request at once.
ResumeUnflushed ==
  /\ pc["loop"] = "free"
  /\ pc["worker"] = "return"
  /\ pc' = [pc EXCEPT !["worker"] = "free"]
  /\ msg' = [msg EXCEPT !["worker"] = Health]
  /\ flush' = [flush EXCEPT !["handler"] = "idle"]
  /\ UNCHANGED <<queue, index, moved, batch, pending, subscribed, open,
                 sourceVars, clientVars, spoiled>>

\* The handler resumes, whether the request was served or raised, and flushes.
Resume ==
  /\ pc["loop"] = "free"
  /\ pc["worker"] = "return"
  /\ pc' = [pc EXCEPT !["worker"] = "free"]
  /\ msg' = [msg EXCEPT !["worker"] = Health]
  /\ flush' = [flush EXCEPT !["handler"] = "due"]
  /\ UNCHANGED <<queue, index, moved, batch, pending, subscribed, open,
                 sourceVars, clientVars, spoiled>>

\* The connection ends while the handler waits for a request.
Close ==
  /\ open
  /\ pc["loop"] = "free"
  /\ flush["handler"] = "idle"
  /\ open' = FALSE
  /\ UNCHANGED <<queue, threadVars, batch, flushVars, subscribed, sourceVars,
                 clientVars, spoiled>>

Worker == EnqueueStep("worker") \/ Join \/ Leave
Tick == EnqueueStep("loop") \/ PublishEnd \/ Broadcast \/ BroadcastEnd
Flush(f) == FlushStart(f) \/ Pop(f) \/ DrainEnd(f) \/ Send(f) \/ SendFails(f)

Next ==
  \/ TickStart
  \/ \E s \in Symbols, y \in DeltaTypes : Publish(s, y)
  \/ Tick
  \/ \E f \in Flushers : Flush(f)
  \/ \E a \in Asks, s \in Symbols : Ask(a, s)
  \/ Worker
  \/ Resume
  \/ Close

Spec == Init /\ [][Next]_vars

\* Threads are scheduled.  Coroutines that are ready are resumed in turn, and
\* a send ends at the latest when it times out.
Fairness ==
  /\ WF_vars(Worker)
  /\ WF_vars(Tick)
  /\ SF_vars(Resume)
  /\ \A f \in Flushers : SF_vars(Flush(f))

FairSpec == Spec /\ Fairness

-----------------------------------------------------------------------------
(* Properties.                                                             *)

Labels == {"free", "search", "replace", "check", "scan", "delete", "recheck",
           "append"}
LoopLabels == Labels \cup {"publish", "broadcast", "drain", "stopped"}
WorkerLabels == Labels \cup {"join", "leave", "return"}

\* The variables have the types the code gives them.
TypeOK ==
  /\ queue \in Seq(Message)
  /\ pc \in [Threads -> LoopLabels \cup WorkerLabels]
  /\ pc["loop"] \in LoopLabels /\ pc["worker"] \in WorkerLabels
  /\ msg \in [Threads -> Message]
  /\ index \in [Threads -> Nat]
  /\ moved \in [Threads -> BOOLEAN]
  /\ batch \in Seq(Message)
  /\ flush \in [Flushers -> {"idle", "serving", "due", "draining", "sending"}]
  /\ pending \in [Flushers -> Seq(Message)]
  /\ subscribed \subseteq Symbols
  /\ open \in BOOLEAN
  /\ published \in [Symbols -> Nat]
  /\ answered \in [Symbols -> Nat]
  /\ state \in [Symbols -> SUBSET Nat]
  /\ requests \in Nat
  /\ shown \in [Symbols -> SUBSET Nat]
  /\ wire \in [Symbols -> [Types -> Nat]]
  /\ spoiled \subseteq {"race", "overlap", "overflow"}

\* The queue of gateway.py is bounded although check and append are not
\* atomic: two threads that both found room exceed max_size by one at most.
QueueBounded == Len(queue) <= MaxSize + 1

\* Enqueue never takes a queued alert out of the queue, and never moves one
\* back, as long as no thread has used an index after the other moved the
\* queue: _drop_one_non_alert, _drop_one_non_critical, _replace_latest.
Keeps(i) ==
  \/ \E j \in 1 .. i : j \in DOMAIN queue' /\ queue'[j] = queue[i]
  \/ i = 1 /\ pc["loop"] = "drain"

AlertsKept ==
  [][\A i \in DOMAIN queue :
       IsAlert(queue[i]) => Keeps(i) \/ "race" \in spoiled']_vars

\* _replace_latest keeps one delta of a kind and symbol in the queue, however
\* the worker's responses come in between, as long as no index is stale.
Coalesced ==
  "race" \in spoiled \/
  \A i, j \in DOMAIN queue :
     /\ queue[i].type \in Coalescible
     /\ queue[i].type = queue[j].type /\ queue[i].sym = queue[j].sym
     => i = j

\* A queued delta makes way for a newer one of its kind and symbol, for a
\* message that is worth more, or for the drain, and for nothing else.
DeltasKept ==
  [][\A i \in DOMAIN queue :
       queue[i].type \in Coalescible =>
         \/ \E j \in 1 .. i :
              /\ j \in DOMAIN queue'
              /\ queue'[j].type = queue[i].type /\ queue'[j].sym = queue[i].sym
              /\ queue'[j].seq >= queue[i].seq
         \/ i = 1 /\ pc["loop"] = "drain"
         \/ \E t \in Threads : pc[t] = "delete" /\ ~(msg[t].type \in Coalescible)
         \/ "race" \in spoiled']_vars

\* What reaches the client of one kind is in the order in which it was
\* numbered, across coalescing and drops, as long as only one coroutine sends
\* at a time.  Snapshots are numbered by two counters and are left out.
KindInOrder ==
  [][\A s \in Symbols, y \in Types \ {"snapshot"} :
       wire'[s][y] # wire[s][y] =>
         wire'[s][y] > wire[s][y] \/ spoiled' \cap {"race", "overlap"} # {}]_vars

\* A subscriber misses no alert between its snapshot and its first delta: once
\* nothing is under way, a client shows all alerts of the state, unless an
\* alert or a response was dropped, an index was stale or sends overlapped.
Quiet == queue = <<>> /\ batch = <<>>
         /\ \A f \in Flushers : pending[f] = <<>>
         /\ \A t \in Threads : pc[t] = "free"

AlertsReachClient ==
  Quiet /\ open /\ spoiled = {} => \A s \in subscribed : shown[s] = state[s]

\* What is queued is drained: every enqueue is followed by a flush, unless the
\* client goes or the loop stops (handle_client, broadcast_once).
EventuallyDrained ==
  queue # <<>> ~> queue = <<>> \/ ~open \/ pc["loop"] = "stopped"

\* After its request a client is served again, whatever enqueue and the
\* flushes came to (handle_client).
EventuallyServed ==
  flush["handler"] = "serving" ~>
    flush["handler"] = "idle" \/ pc["loop"] = "stopped"

-----------------------------------------------------------------------------
(* What the documents say and the code does not keep.                      *)

\* seq is "Monotonic per `symbol` stream" (docs/market-event-contracts-v1.md:17)
\* on the wire of one client, for the alerts of a symbol, which are never
\* coalesced.
AlertsMonotonic ==
  [][\A s \in Symbols : wire'[s]["alert_realtime"] >= wire[s]["alert_realtime"]]_vars

\* "slow-client isolation" (gateway.py:25): the queue of one client does not
\* stop the loop that serves all.
LoopSurvives == pc["loop"] # "stopped"

=============================================================================
