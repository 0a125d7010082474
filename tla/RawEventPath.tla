---- MODULE RawEventPath ----
(***************************************************************************)
(* The path of a raw market event: a callback of the market data client    *)
(* enters a bounded queue on the thread of that client, the event loop     *)
(* drains the queue in tick_once (app_runtime.py:291), publishes each      *)
(* event through ReliableEventBus (retries, then spool and rejection),     *)
(* applies what was acknowledged to the state of the symbol, commits an    *)
(* offset and appends to the day's files.  The process may end between     *)
(* any two steps and be started again, and an operator may replay the      *)
(* spool file.                                                             *)
(*                                                                         *)
(* One symbol, one partition.  A callback is its number; its content does  *)
(* not matter beyond its kind: a "tick" is queued, a "queue" (broker queue *)
(* or order book) replaces the waiting one of its kind.                    *)
(***************************************************************************)
EXTENDS Integers, FiniteSets, SequencesExt

CONSTANTS
  MaxCallbacks,         \* bound: callbacks in a behaviour
  MaxPolled,            \* the same where the topic is polled
  MaxCrashes,           \* bound: ends of the process
  MaxReplays,           \* bound: runs of replay-kafka-spool
  QueueSize,            \* raw_queue_max_size
  Retries,              \* kafka_retries
  MaxRaw,               \* max_raw_records_per_tick
  PollMax,              \* max_poll_records of the consumer
  Modes,                \* subset of BOOLEAN: TRUE, the runtime owns the raw path
  ReplayBesideRuntime   \* BOOLEAN: the operator replays while the process runs

ASSUME BoundsAssumption ==
  /\ {MaxCallbacks, MaxPolled, MaxCrashes, MaxReplays, Retries} \subseteq Nat
  /\ MaxPolled <= MaxCallbacks
  /\ {QueueSize, MaxRaw, PollMax} \subseteq Nat \ {0}
  /\ Modes \subseteq BOOLEAN
  /\ ReplayBesideRuntime \in BOOLEAN

Callbacks == 1..MaxCallbacks
Kinds == {"tick", "queue"}
Marker == 0      \* {"__coalesce_key__": ...} in items; also "no callback"

VARIABLES
  kinds,        \* kind of each callback so far
  items,        \* BoundedRawEventQueue.items
  coalesced,    \* BoundedRawEventQueue.coalesced_items, of the one key
  superseded,   \* history: callbacks replaced in coalesced
  owned,        \* raw_consumer_worker.runtime_event_processor is not None
  pc,           \* where tick_once is; "down" when no process runs
  hand,         \* the event being published
  tries,        \* attempts of its publish
  ingested,     \* events this tick has published
  batch,        \* records to process: ingested or polled, with their offset
  next,         \* how many of batch are done
  log,          \* the raw topic: callbacks in the order the broker took them
  position,     \* what the consumer has fetched of log
  offset,       \* _committed_offsets of the adapters, gone with the process
  brokerOffset, \* offset of the consumer group at the broker
  spoolFile,    \* publish-failures.jsonl
  rejections,   \* callback-rejections.jsonl
  state,        \* callbacks applied to the state of the symbol, in order; every
                \* write of the state writes Redis, which keeps it at a crash
  rawFile,      \* raw-events.jsonl of the symbol
  handled,      \* history: callbacks the consumer has processed or given up
  lost,         \* history: callbacks only an ended process knew of
  crashes,
  replays,
  opRecords,    \* records replay-kafka-spool loaded; its list is gone at the end
  opIndex       \* records it has published; -1 when it does not run

queueVars == <<kinds, items, coalesced, superseded>>
loopVars == <<owned, pc, hand, tries, ingested, batch, next>>
brokerVars == <<log, position, offset, brokerOffset>>
stateVars == <<state, rawFile, handled>>
crashVars == <<lost, crashes>>
opVars == <<replays, opRecords, opIndex>>
vars == <<queueVars, loopVars, brokerVars, spoolFile, rejections, stateVars, crashVars, opVars>>

Init ==
  /\ kinds = <<>> /\ items = <<>> /\ coalesced = Marker /\ superseded = {}
  /\ owned \in Modes /\ pc = "drain" /\ hand = Marker /\ tries = 0
  /\ ingested = <<>> /\ batch = <<>> /\ next = 0
  /\ log = <<>> /\ position = 0 /\ offset = 0 /\ brokerOffset = 0
  /\ spoolFile = <<>> /\ rejections = {}
  /\ state = <<>> /\ rawFile = <<>> /\ handled = {}
  /\ lost = {} /\ crashes = 0 /\ replays = 0 /\ opRecords = <<>> /\ opIndex = -1

(***************************************************************************)
(* The thread of the market data client.                                   *)
(***************************************************************************)

Reject(n) == rejections' = rejections \cup {n}

Push(n, kind) ==
  IF kind = "queue" /\ coalesced # Marker
    THEN /\ coalesced' = n
         /\ superseded' = superseded \cup {coalesced}
         /\ UNCHANGED <<items, rejections>>
    ELSE IF Len(items) >= QueueSize
    THEN /\ Reject(n)
         /\ UNCHANGED <<items, coalesced, superseded>>
    ELSE /\ items' = Append(items, IF kind = "queue" THEN Marker ELSE n)
         /\ coalesced' = IF kind = "queue" THEN n ELSE coalesced
         /\ UNCHANGED <<superseded, rejections>>

ReceiveCallback(kind) ==
  /\ pc # "down"
  /\ Len(kinds) < (IF owned THEN MaxCallbacks ELSE MaxPolled)
  /\ kinds' = Append(kinds, kind)
  /\ Push(Len(kinds) + 1, kind)
  /\ UNCHANGED <<loopVars, brokerVars, spoolFile, stateVars, crashVars, opVars>>

(***************************************************************************)
(* tick_once on the event loop.                                            *)
(***************************************************************************)

Popped == IF Head(items) = Marker THEN coalesced ELSE Head(items)

\* Mutant of DrainOnce: the waiting event of a marker is left in place.
DrainOnceKeeps ==
  /\ pc = "drain" /\ items # <<>> /\ Len(ingested) < MaxRaw
  /\ items' = Tail(items)
  /\ hand' = Popped /\ tries' = 0 /\ pc' = "publish"
  /\ UNCHANGED <<kinds, coalesced, superseded, owned, ingested, batch, next, brokerVars, spoolFile, rejections,
                 stateVars, crashVars, opVars>>

\* drain_once: a payload the normalizer refuses is rejected; another one is
\* numbered and handed to the publisher.
DrainOnce ==
  /\ pc = "drain" /\ items # <<>> /\ Len(ingested) < MaxRaw
  /\ items' = Tail(items)
  /\ coalesced' = IF Head(items) = Marker THEN Marker ELSE coalesced
  /\ \/ /\ hand' = Popped /\ tries' = 0 /\ pc' = "publish"
        /\ UNCHANGED rejections
     \/ /\ Reject(Popped)
        /\ UNCHANGED <<hand, tries, pc>>
  /\ UNCHANGED <<kinds, superseded, owned, ingested, batch, next, brokerVars, spoolFile, stateVars, crashVars, opVars>>

\* One attempt of the inner bus.  A delivery the client has not confirmed in
\* time counts as failed and may be in the topic all the same ("late").
Attempts == {"acknowledged", "refused", "late"}

Acknowledged ==
  /\ ingested' = Append(ingested, hand)
  /\ hand' = Marker /\ pc' = "drain"
  /\ UNCHANGED <<tries, spoolFile, rejections>>

\* Mutant of Retry: no limit.
RetryForever ==
  /\ tries' = IF tries < Retries THEN tries + 1 ELSE 0
  /\ UNCHANGED <<pc, hand, ingested, spoolFile, rejections>>

Retry ==
  /\ tries < Retries
  /\ tries' = tries + 1
  /\ UNCHANGED <<pc, hand, ingested, spoolFile, rejections>>

\* The record is spooled and drain_once rejects the callback.
GiveUp ==
  /\ tries = Retries
  /\ spoolFile' = Append(spoolFile, hand)
  /\ Reject(hand)
  /\ hand' = Marker /\ pc' = "drain"
  /\ UNCHANGED <<tries, ingested>>

Publish(attempt) ==
  /\ pc = "publish"
  /\ log' = IF attempt = "refused" THEN log ELSE Append(log, hand)
  /\ IF attempt = "acknowledged" THEN Acknowledged ELSE Retry \/ GiveUp
  /\ UNCHANGED <<queueVars, owned, batch, next, position, offset, brokerOffset, stateVars, crashVars, opVars>>

\* The queue is empty or the tick has its share.  The runtime that owns the
\* path goes on with what it published; the other polls the topic from where
\* its consumer stands and keeps the first MaxRaw records of what it got.
Drained == pc = "drain" /\ (items = <<>> \/ Len(ingested) = MaxRaw)

TakeIngested ==
  /\ Drained /\ owned
  /\ batch' = [i \in 1..Len(ingested) |-> [id |-> ingested[i], offset |-> 0]]
  /\ next' = 0 /\ pc' = "process"
  /\ UNCHANGED <<queueVars, owned, hand, tries, ingested, brokerVars, spoolFile, rejections,
                 stateVars, crashVars, opVars>>

Poll ==
  /\ Drained /\ ~owned
  /\ \E n \in 0..PollMax :
       /\ position + n <= Len(log)
       /\ position' = position + n
       /\ batch' = [i \in 1..(IF n < MaxRaw THEN n ELSE MaxRaw) |->
                      [id |-> log[position + i], offset |-> position + i]]
  /\ next' = 0 /\ pc' = "process"
  /\ UNCHANGED <<queueVars, owned, hand, tries, ingested, log, offset, brokerOffset, spoolFile,
                 rejections, stateVars, crashVars, opVars>>

\* One event: refused before it changes anything, and dead-lettered; or
\* applied to the state, which Redis takes before its result is published.
Process ==
  /\ pc = "process" /\ next < Len(batch)
  /\ LET n == batch[next + 1].id
     IN /\ handled' = handled \cup {n}
        /\ \/ UNCHANGED state
           \/ state' = Append(state, n)
  /\ next' = next + 1
  /\ UNCHANGED <<queueVars, owned, pc, hand, tries, ingested, batch, brokerVars, spoolFile, rejections, rawFile,
                 crashVars, opVars>>

\* Mutant of Commit: the batch is committed before it is processed.
CommitFirst ==
  /\ pc = "process"
  /\ pc' = "persist"
  /\ offset' = offset + Len(batch) /\ brokerOffset' = offset'
  /\ UNCHANGED <<queueVars, owned, hand, tries, ingested, batch, next, log, position, spoolFile, rejections,
                 stateVars, crashVars, opVars>>

\* The adapters remember the offset before the broker has taken it.  The
\* runtime that owns the path counts its events from the remembered offset
\* and survives a refused commit; a refused commit of the other ends the tick
\* with an exception, and with it the process (Crash).
Commit ==
  /\ pc = "process" /\ next = Len(batch)
  /\ pc' = "persist"
  /\ IF batch = <<>>
       THEN UNCHANGED <<offset, brokerOffset>>
       ELSE /\ offset' = IF owned THEN offset + Len(batch) ELSE batch[Len(batch)].offset
            /\ brokerOffset' \in {offset'} \cup (IF owned THEN {brokerOffset} ELSE {})
  /\ UNCHANGED <<queueVars, owned, hand, tries, ingested, batch, next, log, position, spoolFile,
                 rejections, stateVars, crashVars, opVars>>

Persist ==
  /\ pc = "persist"
  /\ rawFile' = rawFile \o ingested
  /\ pc' = "drain" /\ ingested' = <<>> /\ batch' = <<>> /\ next' = 0
  /\ UNCHANGED <<queueVars, owned, hand, tries, brokerVars, spoolFile, rejections, state,
                 handled, crashVars, opVars>>

(***************************************************************************)
(* The end of the process and its start.                                   *)
(***************************************************************************)

Queued == (Range(items) \cup {coalesced}) \ {Marker}
InMemory == Queued \cup ({hand} \ {Marker})
Unprocessed == {batch[i].id : i \in (next + 1)..Len(batch)}
                 \cup (IF pc \in {"drain", "publish"} THEN Range(ingested) ELSE {})

Crash ==
  /\ pc # "down" /\ crashes < MaxCrashes
  /\ crashes' = crashes + 1
  /\ lost' = lost \cup InMemory \cup Unprocessed
  /\ pc' = "down" /\ items' = <<>> /\ coalesced' = Marker /\ hand' = Marker /\ tries' = 0
  /\ ingested' = <<>> /\ batch' = <<>> /\ next' = 0 /\ offset' = 0
  /\ UNCHANGED <<kinds, superseded, owned, log, position, brokerOffset, spoolFile, rejections, stateVars,
                 opVars>>

\* Startup: the state is the snapshot of Redis when it is fresh
\* (recover_symbol_intraday), else the replay of the day's raw events, once
\* each and in the order of their times.
Replayed ==
  CHOOSE s \in [1..Cardinality(Range(rawFile)) -> Range(rawFile)] :
    \A i, j \in DOMAIN s : i < j => s[i] < s[j]

\* Mutant of Restart: the raw events are replayed on top of the snapshot.
RestartTwice ==
  /\ pc = "down"
  /\ pc' = "drain"
  /\ position' = brokerOffset
  /\ state' = state \o Replayed
  /\ UNCHANGED <<queueVars, owned, hand, tries, ingested, batch, next, log, offset, brokerOffset, spoolFile,
                 rejections, rawFile, handled, crashVars, opVars>>

Restart ==
  /\ pc = "down"
  /\ ~ReplayBesideRuntime => opIndex = -1
  /\ pc' = "drain"
  /\ position' = brokerOffset
  /\ state' \in (IF state = <<>> THEN {} ELSE {state}) \cup {Replayed}
  /\ UNCHANGED <<queueVars, owned, hand, tries, ingested, batch, next, log, offset, brokerOffset, spoolFile,
                 rejections, rawFile, handled, crashVars, opVars>>

(***************************************************************************)
(* The operator: replay-kafka-spool in a process of its own.               *)
(***************************************************************************)

LoadSpool ==
  /\ opIndex = -1 /\ replays < MaxReplays
  /\ pc = "down" \/ ReplayBesideRuntime
  /\ replays' = replays + 1
  /\ opRecords' = spoolFile /\ opIndex' = 0
  /\ UNCHANGED <<queueVars, loopVars, brokerVars, spoolFile, rejections, stateVars, crashVars>>

Pending == SubSeq(opRecords, opIndex + 1, Len(opRecords))
OperatorEnds == opRecords' = <<>> /\ opIndex' = -1

\* Mutant of ReplayRecord: the record that failed is left out.
ReplayRecordSkips ==
  /\ opIndex >= 0 /\ Pending # <<>>
  /\ \/ /\ log' = Append(log, Head(Pending))
        /\ opIndex' = opIndex + 1
        /\ UNCHANGED <<opRecords, spoolFile>>
     \/ /\ UNCHANGED log
        /\ spoolFile' = Tail(Pending)
        /\ OperatorEnds
  /\ UNCHANGED <<queueVars, loopVars, position, offset, brokerOffset, rejections, stateVars, crashVars, replays>>

\* The tool publishes without retries; at the first failure the file is
\* rewritten with what is left, the record that failed included.
ReplayRecord ==
  /\ opIndex >= 0 /\ Pending # <<>>
  /\ \/ /\ log' = Append(log, Head(Pending))
        /\ opIndex' = opIndex + 1
        /\ UNCHANGED <<opRecords, spoolFile>>
     \/ /\ log' \in {log, Append(log, Head(Pending))}
        /\ spoolFile' = Pending
        /\ OperatorEnds
  /\ UNCHANGED <<queueVars, loopVars, position, offset, brokerOffset, rejections,
                 stateVars, crashVars, replays>>

\* All published: drain() unlinks the file.
ReplayDone ==
  /\ opIndex >= 0 /\ Pending = <<>>
  /\ spoolFile' = <<>>
  /\ OperatorEnds
  /\ UNCHANGED <<queueVars, loopVars, brokerVars, rejections, stateVars, crashVars, replays>>

\* The tool ends between two steps; the file stays as it is.
OperatorStops ==
  /\ opIndex >= 0
  /\ OperatorEnds
  /\ UNCHANGED <<queueVars, loopVars, brokerVars, spoolFile, rejections, stateVars, crashVars, replays>>

Loop ==
  \/ DrainOnce
  \/ \E attempt \in Attempts : Publish(attempt)
  \/ TakeIngested \/ Poll \/ Process \/ Commit \/ Persist

Operator == LoadSpool \/ ReplayRecord \/ ReplayDone \/ OperatorStops

Next ==
  \/ \E kind \in Kinds : ReceiveCallback(kind)
  \/ Loop
  \/ Crash \/ Restart
  \/ Operator

Spec == Init /\ [][Next]_vars

\* The loop of run_supervised_runtime ticks as long as the process runs; a
\* process that ended is started again (restart policy of the container).
FairSpec == Spec /\ WF_vars(Loop) /\ WF_vars(Restart) /\ WF_vars(ReplayRecord \/ ReplayDone)

(***************************************************************************)
(* Properties.                                                             *)
(***************************************************************************)

Ids == Seq(Callbacks)

\* Every variable holds what the code keeps there, and no more than the
\* bounds allow.
TypeOK ==
  /\ kinds \in Seq(Kinds) /\ Len(kinds) <= MaxCallbacks
  /\ items \in Seq(Callbacks \cup {Marker}) /\ Len(items) <= QueueSize
  /\ (coalesced # Marker) = (Marker \in Range(items))
  /\ pc \in {"down", "drain", "publish", "process", "persist"}
  /\ (hand # Marker) = (pc = "publish")
  /\ tries \in 0..Retries /\ next \in 0..Len(batch)
  /\ ingested \in Ids /\ Len(ingested) <= MaxRaw /\ Len(batch) <= MaxRaw
  /\ log \in Ids /\ {state, rawFile} \subseteq Ids
  /\ position \in 0..Len(log) /\ offset \in Nat /\ brokerOffset \in Nat
  /\ {spoolFile, opRecords} \subseteq Ids
  /\ rejections \cup superseded \cup handled \cup lost \subseteq Callbacks
  /\ crashes \in 0..MaxCrashes /\ replays \in 0..MaxReplays /\ opIndex \in -1..Len(opRecords)

\* Where a callback is: what survives the process first.  One that is nowhere
\* is lost with the process that had it in its memory, or else "dropped", which
\* is no place of EventLedger.
PlaceOf(n) ==
  IF n > Len(kinds)             THEN "unseen"
  ELSE IF n \in Range(log)       THEN "published"
  ELSE IF n \in Range(spoolFile) THEN "spooled"
  ELSE IF n \in rejections       THEN "quarantined"
  ELSE IF n \in superseded       THEN "superseded"
  ELSE IF n \in InMemory         THEN "memory"
  ELSE IF n \in lost             THEN "lost"
  ELSE "dropped"

Ledger == INSTANCE EventLedger WITH
            Events <- Callbacks, place <- [n \in Callbacks |-> PlaceOf(n)]

\* No callback is silently dropped: whatever the queue, the publisher, the
\* spool and its replay do to it, each callback moves along the moves of
\* EventLedger, and only the end of a process that held it loses one
\* (docs/market-event-contracts-v1.md:35).
NothingDropped == Ledger!Spec

\* A record leaves the spool file only once it is in its topic: the spool is
\* what "must survive restarts" (adapters.py:95).
SpoolKept == [][ Range(spoolFile) \ Range(spoolFile') \subseteq Range(log') ]_vars

\* The offset at the broker covers no record that nobody has handled: each
\* one below it was processed or dead-lettered, or rejected by the producer
\* that thought it undelivered, or lost with the process that had it.  Nor does
\* the count the runtime keeps instead of record offsets (app_runtime.py:412)
\* get beyond the end of the topic, where it would hide records to come
\* (docs/terminal-runtime-architecture-guidance.md:154).
OffsetCovered ==
  /\ brokerOffset <= Len(log) /\ offset <= Len(log)
  /\ \A i \in 1..brokerOffset : log[i] \in handled \cup rejections \cup lost

IsTick(n) == n \in DOMAIN kinds /\ kinds[n] = "tick"

\* The runtime that owns its path counts a trade once and in the order of the
\* callbacks, over retries that duplicate a record in the topic, over crashes
\* and over either way to recover (volume and turnover are sums).
TicksOnceInOrder ==
  owned => \A i, j \in 1..Len(state) :
             i < j /\ IsTick(state[i]) /\ IsTick(state[j]) => state[i] < state[j]

\* A callback that was accepted does not wait for ever: again and again the
\* queue is drained and nothing is being published, however often publishing
\* fails, because a publish ends after its retries.
EventuallyDrained == []<>(items = <<>> /\ hand = Marker)
====
