---- MODULE UpstreamFeed ----
(***************************************************************************)
(* The subscriptions at the market data SDK.  A client of the gateway that *)
(* is the first to attach a symbol subscribes it on its worker thread, one *)
(* SDK call per period; the event loop subscribes the start-up symbols,    *)
(* releases evicted symbols and renews the symbols whose streams have gone *)
(* quiet; callbacks create streams in the freshness tracker meanwhile.     *)
(* XtQuantMarketDataClient keeps the handles of the SDK,                   *)
(* XtQuantSubscriptionManager the symbols, SymbolFreshnessTracker the      *)
(* streams, each in containers of its own and without a lock.              *)
(*                                                                         *)
(* Any SDK call may raise, with or without its effect.  The runtime object *)
(* of a symbol is what SymbolRuntime says: references and realtime_attached*)
(***************************************************************************)
EXTENDS Integers, FiniteSets

CONSTANTS
  Symbols,
  StartupSymbols,   \* symbols of run_supervised_runtime's command line
  Clients,          \* sessions of the gateway, each with its worker thread
  Loop,             \* the event loop
  LastPeriod,       \* periods of a symbol: 1..LastPeriod
  Crowded,          \* bound: periods (0: the symbol itself) whose recorded
                    \* backlog may be over the limit
  MaxFailures       \* bound: SDK calls that raise

ASSUME FeedAssumption ==
  /\ StartupSymbols \subseteq Symbols /\ Loop \notin Clients
  /\ LastPeriod \in Nat \ {0} /\ Crowded \subseteq 0..LastPeriod /\ MaxFailures \in Nat

Threads == Clients \cup {Loop}
Periods == 1..LastPeriod
Parent == 0                      \* the stream of the symbol itself
Streams == Symbols \X (0..LastPeriod)

VARIABLES
  phase,             \* of the process: "starting", "live", "failed" (start
                     \* raised), "ended" (tick_once raised) or "stopped"
  live,              \* SDK: subscriptions of each symbol and period
  handles,           \* client: subscription_handles
  clientSubscribed,  \* client: subscribed_symbols
  subscribed,        \* manager: subscribed_symbols
  tracker,           \* state_by_symbol: "none", "off" or "on" for each stream
  quiet,             \* streams whose age is beyond max_event_age_seconds
  backlogged,        \* streams whose recorded backlog is over max_queue_backlog
  queued,            \* callbacks in the raw event queue
  refs,              \* runtime: clients that hold the symbol
  attached,          \* runtime: symbols with realtime_attached
  call,              \* what each thread is doing at the manager
  loopAt,            \* where tick_once is
  todo,              \* symbols the loop has still to start, renew or evict
  iterated,          \* the keys evaluate iterates over
  cooling,           \* symbols in their resubscribe cooldown
  failures,          \* SDK calls that have raised
  faulty             \* history: symbols with a failed call

sdkVars == <<live, handles, failures>>
managerVars == <<clientSubscribed, subscribed>>
trackerVars == <<tracker, quiet, backlogged>>
runtimeVars == <<refs, attached>>
loopVars == <<loopAt, todo, iterated, cooling>>
vars == <<phase, sdkVars, managerVars, trackerVars, queued, runtimeVars, call, loopVars, faulty>>

Idle == [op |-> "idle"]
Call(op, stage, s, keys) == [op |-> op, stage |-> stage, symbol |-> s, period |-> 1, keys |-> keys]

Init ==
  /\ phase = "starting"
  /\ live = [s \in Symbols |-> [p \in Periods |-> 0]]
  /\ handles = {} /\ clientSubscribed = {} /\ subscribed = {}
  /\ tracker = [st \in Streams |-> "none"] /\ quiet = {} /\ backlogged = {} /\ queued = {}
  /\ refs = [s \in Symbols |-> {}] /\ attached = {}
  /\ call = [t \in Threads |-> Idle]
  /\ loopAt = "connect" /\ todo = StartupSymbols /\ iterated = {} /\ cooling = {}
  /\ failures = 0 /\ faulty = {}

Keys == {st \in Streams : tracker[st] # "none"}

(***************************************************************************)
(* Subscribing and unsubscribing: the calls of the client, on any thread.  *)
(***************************************************************************)

\* client.subscribe returns at once for a symbol it has.
SubscribeStage(s) == IF s \in clientSubscribed THEN "mark" ELSE "subscribe"

\* live_attach_symbol: a symbol the manager has needs no call.
BeginAttach(t, s) ==
  IF s \in subscribed
    THEN /\ attached' = attached \cup {s}
         /\ UNCHANGED call
    ELSE /\ call' = [call EXCEPT ![t] = Call("attach", SubscribeStage(s), s, {})]
         /\ UNCHANGED attached

Working(t, stage) == call[t].op # "idle" /\ call[t].stage = stage

\* The next period of the call, or the stage after the last one.
NextPeriod(c, after) ==
  IF c.period = LastPeriod THEN [c EXCEPT !.stage = after, !.period = 1]
                           ELSE [c EXCEPT !.period = @ + 1]

Advance(t, after) == call' = [call EXCEPT ![t] = NextPeriod(call[t], after)]

\* subscribe_quote of one period; the handle replaces an older one.
SubscribePeriod(t) ==
  /\ Working(t, "subscribe")
  /\ LET s == call[t].symbol
         p == call[t].period
     IN  /\ live' = [live EXCEPT ![s][p] = @ + 1]
         /\ handles' = handles \cup {<<s, p>>}
  /\ Advance(t, "mark")
  /\ UNCHANGED <<phase, failures, managerVars, trackerVars, queued, runtimeVars, loopVars, faulty>>

\* Mutant of UnsubscribePeriod: the handle is taken out and not used.
ForgetPeriod(t) ==
  /\ Working(t, "unsubscribe")
  /\ handles' = handles \ {<<call[t].symbol, call[t].period>>}
  /\ Advance(t, IF call[t].op = "release" THEN "mark" ELSE "subscribe")
  /\ clientSubscribed' = IF call[t].period = LastPeriod THEN clientSubscribed \ {call[t].symbol} ELSE clientSubscribed
  /\ UNCHANGED <<phase, live, failures, subscribed, trackerVars, queued, runtimeVars, loopVars, faulty>>

\* unsubscribe_quote of one period.  Without a handle the SDK has nothing to
\* end; after the last period the client forgets the symbol.
UnsubscribePeriod(t) ==
  /\ Working(t, "unsubscribe")
  /\ LET s == call[t].symbol
         p == call[t].period
     IN  /\ live' = IF <<s, p>> \in handles THEN [live EXCEPT ![s][p] = @ - 1] ELSE live
         /\ handles' = handles \ {<<s, p>>}
         /\ clientSubscribed' = IF p = LastPeriod THEN clientSubscribed \ {s} ELSE clientSubscribed
  /\ Advance(t, IF call[t].op = "release" THEN "mark" ELSE "subscribe")
  /\ UNCHANGED <<phase, failures, subscribed, trackerVars, queued, runtimeVars, loopVars, faulty>>

\* What an error does to the thread: the manager of the runtimes keeps the
\* error of an attach or of a release, the start and the tick do not.
Raised(t) ==
  /\ call' = [call EXCEPT ![t] = Idle]
  /\ phase' = CASE t = Loop /\ call[t].op = "attach" -> "failed"
                [] call[t].op = "renew"              -> "ended"
                [] OTHER                             -> phase

\* An SDK call raises, its effect having taken place or not.  The handle of
\* an unsubscribe is gone already, the one of a subscribe was never returned.
SdkRaises(t) ==
  /\ call[t].op # "idle" /\ call[t].stage \in {"subscribe", "unsubscribe"}
  /\ failures < MaxFailures
  /\ failures' = failures + 1
  /\ faulty' = faulty \cup {call[t].symbol}
  /\ LET s == call[t].symbol
         p == call[t].period
         had == <<s, p>> \in handles
     IN  /\ \E effect \in BOOLEAN :
              live' = CASE ~effect                                   -> live
                        [] effect /\ call[t].stage = "subscribe"        -> [live EXCEPT ![s][p] = @ + 1]
                        [] effect /\ call[t].stage = "unsubscribe" /\ had -> [live EXCEPT ![s][p] = @ - 1]
                        [] OTHER                                     -> live
         /\ handles' = IF call[t].stage = "unsubscribe" THEN handles \ {<<s, p>>} ELSE handles
  /\ Raised(t)
  /\ UNCHANGED <<managerVars, trackerVars, queued, runtimeVars, loopVars>>

\* _sync_freshness_health begins to iterate over the streams.
Iterating(c, keys) == [c EXCEPT !.stage = "sync", !.keys = keys]

\* The sets of client and manager and the stream of the symbol follow (the
\* time of the subscription counts for a stream that never had an event).
Mark(t) ==
  /\ Working(t, "mark") /\ call[t].op # "release"
  /\ LET s == call[t].symbol
     IN  /\ clientSubscribed' = clientSubscribed \cup {s}
         /\ subscribed' = IF call[t].op = "attach" THEN subscribed \cup {s} ELSE subscribed
         /\ tracker' = [tracker EXCEPT ![<<s, Parent>>] = "on"]
         /\ quiet' \in {quiet, quiet \ {<<s, Parent>>}}
         /\ call' = [call EXCEPT ![t] = Iterating(call[t], Keys \cup {<<s, Parent>>})]
  /\ UNCHANGED <<phase, sdkVars, backlogged, queued, runtimeVars, loopVars, faulty>>

\* Mutant of MarkReleased: the tracker keeps the stream of the symbol.
KeepTracked(t) ==
  /\ Working(t, "mark") /\ call[t].op = "release"
  /\ subscribed' = subscribed \ {call[t].symbol}
  /\ call' = [call EXCEPT ![t] = Iterating(call[t], Keys)]
  /\ UNCHANGED <<phase, sdkVars, clientSubscribed, trackerVars, queued, runtimeVars, loopVars, faulty>>

MarkReleased(t) ==
  /\ Working(t, "mark") /\ call[t].op = "release"
  /\ LET s == call[t].symbol
     IN  /\ subscribed' = subscribed \ {s}
         /\ tracker' = [tracker EXCEPT ![<<s, Parent>>] = "off"]
         /\ call' = [call EXCEPT ![t] = Iterating(call[t], Keys)]
  /\ UNCHANGED <<phase, sdkVars, clientSubscribed, quiet, backlogged, queued, runtimeVars, loopVars, faulty>>

\* A stream that another thread has added breaks the iteration: the call
\* fails although everything it had to do is done.
Sync(t) ==
  /\ Working(t, "sync")
  /\ IF Keys = call[t].keys
       THEN /\ call' = [call EXCEPT ![t] = Idle]
            /\ attached' = CASE call[t].op = "attach"  -> attached \cup {call[t].symbol}
                             [] call[t].op = "release" -> attached \ {call[t].symbol}
                             [] OTHER                  -> attached
            /\ UNCHANGED <<phase, faulty>>
       ELSE /\ Raised(t)
            /\ faulty' = faulty \cup {call[t].symbol}
            /\ UNCHANGED attached
  /\ UNCHANGED <<sdkVars, managerVars, trackerVars, queued, refs, loopVars>>

(***************************************************************************)
(* The clients of the gateway.                                             *)
(***************************************************************************)

\* Mutant of Attach: every client subscribes, not the first one only.
AttachAlways(c, s) ==
  /\ phase = "live" /\ call[c] = Idle /\ c \notin refs[s]
  /\ refs' = [refs EXCEPT ![s] = @ \cup {c}]
  /\ IF s \notin attached THEN BeginAttach(c, s) ELSE UNCHANGED <<call, attached>>
  /\ UNCHANGED <<phase, sdkVars, managerVars, trackerVars, queued, loopVars, faulty>>

\* Only the client that finds the runtime unreferenced attaches it.
Attach(c, s) ==
  /\ phase = "live" /\ call[c] = Idle /\ c \notin refs[s]
  /\ refs' = [refs EXCEPT ![s] = @ \cup {c}]
  /\ IF refs[s] = {} /\ s \notin attached
       THEN BeginAttach(c, s)
       ELSE UNCHANGED <<call, attached>>
  /\ UNCHANGED <<phase, sdkVars, managerVars, trackerVars, queued, loopVars, faulty>>

\* A session is detached from what it is known to hold, so not before its
\* own call has returned.
Detach(c, s) ==
  /\ phase = "live" /\ c \in refs[s] /\ call[c] = Idle
  /\ refs' = [refs EXCEPT ![s] = @ \ {c}]
  /\ UNCHANGED <<phase, sdkVars, managerVars, trackerVars, queued, attached, call, loopVars, faulty>>

(***************************************************************************)
(* The thread of the SDK and time.                                         *)
(***************************************************************************)

\* record_backlog writes down, for these streams, a backlog within the limit
\* or over it; nothing else touches what is written down.
RecordBacklog(streams) ==
  backlogged' \in {backlogged \cup {st \in streams : st[2] \in Crowded}, backlogged \ streams}

\* A callback: queued unless the queue is full, and the backlog is recorded
\* with the symbol, which may create its stream.
Deliver(s, p) ==
  /\ live[s][p] > 0 /\ phase \in {"starting", "live"}
  /\ queued' \in {queued, queued \cup {<<s, p>>}}
  /\ tracker' = IF tracker[<<s, Parent>>] = "none" THEN [tracker EXCEPT ![<<s, Parent>>] = "off"] ELSE tracker
  /\ RecordBacklog({<<s, Parent>>})
  /\ UNCHANGED <<phase, sdkVars, managerVars, quiet, runtimeVars, call, loopVars, faulty>>

\* The stream of the symbol is as young as its youngest period.  The age a
\* tick sees is the one at the time its evaluation begins.
Age(s, k) ==
  /\ phase = "live" /\ loopAt = "drain" /\ tracker[<<s, k>>] = "on" /\ <<s, k>> \notin quiet
  /\ k = Parent => \A p \in Periods : tracker[<<s, p>>] = "on" => <<s, p>> \in quiet
  /\ quiet' = quiet \cup {<<s, k>>}
  /\ UNCHANGED <<phase, sdkVars, managerVars, tracker, backlogged, queued, runtimeVars, call, loopVars, faulty>>

CoolDown(s) ==
  /\ phase = "live" /\ loopAt = "drain" /\ s \in cooling
  /\ cooling' = cooling \ {s}
  /\ UNCHANGED <<phase, sdkVars, managerVars, trackerVars, queued, runtimeVars, call, loopAt, todo, iterated, faulty>>

(***************************************************************************)
(* The event loop: start, tick_once, stop.                                 *)
(***************************************************************************)

LoopIdleAt(place) == loopAt = place /\ call[Loop] = Idle

\* manager.start: the data centre and the connection, over several ports.
Connect ==
  /\ phase = "starting" /\ loopAt = "connect"
  /\ \/ /\ loopAt' = "start" /\ UNCHANGED <<phase, failures>>
     \/ /\ failures < MaxFailures /\ failures' = failures + 1
        /\ phase' = "failed" /\ UNCHANGED loopAt
  /\ UNCHANGED <<live, handles, managerVars, trackerVars, queued, runtimeVars, call, todo, iterated, cooling, faulty>>

\* activate_symbol(strict_realtime) of each start-up symbol.
StartSymbol ==
  /\ phase = "starting" /\ LoopIdleAt("start")
  /\ \E s \in todo :
       /\ todo' = todo \ {s}
       /\ BeginAttach(Loop, s)
  /\ UNCHANGED <<phase, sdkVars, managerVars, trackerVars, queued, refs, loopAt, iterated, cooling, faulty>>

GoLive ==
  /\ phase = "starting" /\ LoopIdleAt("start") /\ todo = {}
  /\ phase' = "live" /\ loopAt' = "drain"
  /\ UNCHANGED <<sdkVars, managerVars, trackerVars, queued, runtimeVars, call, todo, iterated, cooling, faulty>>

\* ingest_event marks the stream of the period as subscribed, whoever the
\* symbol belongs to by now; an event that was published is recorded for both
\* of its streams, and so is the backlog.  An event that cannot be published
\* or normalised records the backlog with the symbol alone.
Ingest ==
  /\ phase = "live" /\ LoopIdleAt("drain")
  /\ \E e \in queued :
       LET parent == <<e[1], Parent>>
           marked == [tracker EXCEPT ![e] = "on"]
       IN  /\ queued' = queued \ {e}
           /\ \/ tracker' = marked /\ quiet' \in {quiet, quiet \ {e, parent}} /\ RecordBacklog({e, parent})
              \/ tracker' = marked /\ quiet' \in {quiet, quiet \ {e}} /\ RecordBacklog({parent})
              \/ UNCHANGED <<tracker, quiet>> /\ RecordBacklog({parent})
  /\ UNCHANGED <<phase, sdkVars, managerVars, runtimeVars, call, loopVars, faulty>>

\* evaluate iterates over the streams; other threads may add one.
BeginEvaluate ==
  /\ phase = "live" /\ LoopIdleAt("drain")
  /\ loopAt' = "evaluate" /\ iterated' = Keys
  /\ UNCHANGED <<phase, sdkVars, managerVars, trackerVars, queued, runtimeVars, call, todo, cooling, faulty>>

StaleSymbols == {st[1] : st \in {x \in quiet : tracker[x] = "on"}}

\* A stream over the backlog limit makes evaluate ask for a renewal too, which
\* _should_resubscribe then refuses to the symbol, whatever else is stale.
HeldBack(s) == \E k \in 0..LastPeriod : tracker[<<s, k>>] = "on" /\ <<s, k>> \in backlogged

\* Mutant of EndEvaluate: the age of the symbol's own stream only.
EvaluateParents ==
  /\ phase = "live" /\ loopAt = "evaluate"
  /\ IF Keys = iterated
       THEN /\ todo' = {s \in Symbols : /\ <<s, Parent>> \in quiet /\ tracker[<<s, Parent>>] = "on"
                                       /\ ~HeldBack(s)}
            /\ loopAt' = "renew" /\ UNCHANGED phase
       ELSE /\ phase' = "ended"
            /\ UNCHANGED <<todo, loopAt>>
  /\ iterated' = {}
  /\ UNCHANGED <<sdkVars, managerVars, trackerVars, queued, runtimeVars, call, cooling, faulty>>

\* What check_freshness_and_resubscribe decides from is what evaluate saw.
EndEvaluate ==
  /\ phase = "live" /\ loopAt = "evaluate"
  /\ IF Keys = iterated
       THEN /\ todo' = {s \in StaleSymbols : ~HeldBack(s)}
            /\ loopAt' = "renew" /\ UNCHANGED phase
       ELSE /\ phase' = "ended"
            /\ UNCHANGED <<todo, loopAt>>
  /\ iterated' = {}
  /\ UNCHANGED <<sdkVars, managerVars, trackerVars, queued, runtimeVars, call, cooling, faulty>>

\* check_freshness_and_resubscribe, one stale symbol at a time.
Renew ==
  /\ phase = "live" /\ LoopIdleAt("renew")
  /\ \E s \in todo :
       /\ todo' = todo \ {s}
       /\ IF s \in subscribed /\ s \notin cooling
            THEN /\ cooling' = cooling \cup {s}
                 /\ call' = [call EXCEPT ![Loop] = Call("renew", "unsubscribe", s, {})]
            ELSE UNCHANGED <<cooling, call>>
  /\ UNCHANGED <<phase, sdkVars, managerVars, trackerVars, queued, runtimeVars, loopAt, iterated, faulty>>

BeginEvict ==
  /\ phase = "live" /\ LoopIdleAt("renew") /\ todo = {}
  /\ loopAt' = "evict"
  /\ UNCHANGED <<phase, sdkVars, managerVars, trackerVars, queued, runtimeVars, call, todo, iterated, cooling, faulty>>

\* evict_expired releases a runtime nobody holds whose grace period is over
\* (the pool or the last client made it EVICTING).
Evict ==
  /\ phase = "live" /\ LoopIdleAt("evict")
  /\ \E s \in attached :
       /\ refs[s] = {}
       /\ IF s \in subscribed
            THEN /\ call' = [call EXCEPT ![Loop] = Call("release", "unsubscribe", s, {})]
                 /\ UNCHANGED attached
            ELSE /\ attached' = attached \ {s}
                 /\ UNCHANGED call
  /\ UNCHANGED <<phase, sdkVars, managerVars, trackerVars, queued, refs, loopVars, faulty>>

EndTick ==
  /\ phase = "live" /\ LoopIdleAt("evict")
  /\ loopAt' = "drain"
  /\ UNCHANGED <<phase, sdkVars, managerVars, trackerVars, queued, runtimeVars, call, todo, iterated, cooling, faulty>>

\* supervisor.stop between two ticks: the containers are cleared, no call is
\* made to the SDK.
Stop ==
  /\ phase = "live" /\ LoopIdleAt("drain")
  /\ phase' = "stopped"
  /\ handles' = {} /\ clientSubscribed' = {} /\ subscribed' = {}
  /\ UNCHANGED <<live, failures, trackerVars, queued, runtimeVars, call, loopVars, faulty>>

Running == phase \in {"starting", "live", "stopped"}

SdkReturns(t) == Running /\ (SubscribePeriod(t) \/ UnsubscribePeriod(t) \/ Mark(t) \/ MarkReleased(t) \/ Sync(t))

Next ==
  \/ \E t \in Threads : SdkReturns(t) \/ (Running /\ SdkRaises(t))
  \/ \E c \in Clients, s \in Symbols : Attach(c, s) \/ Detach(c, s)
  \/ \E s \in Symbols, p \in Periods : Deliver(s, p)
  \/ \E st \in Streams : Age(st[1], st[2])
  \/ \E s \in Symbols : CoolDown(s)
  \/ Connect \/ StartSymbol \/ GoLive
  \/ Ingest \/ BeginEvaluate \/ EndEvaluate \/ Renew \/ BeginEvict \/ Evict \/ EndTick \/ Stop

Spec == Init /\ [][Next]_vars

\* SDK calls return, the loop goes on from each of its places (the records of
\* a tick are limited by max_raw_records_per_tick), the cooldown ends, and a
\* stream without a subscription at the SDK grows old: both are clocks, which
\* the loop reads at its own place.  Nothing is assumed of the backlog.
Fairness ==
  /\ \A t \in Threads : WF_vars(SdkReturns(t))
  /\ WF_vars(Connect) /\ WF_vars(StartSymbol \/ GoLive)
  /\ WF_vars(BeginEvaluate) /\ WF_vars(EndEvaluate) /\ WF_vars(Renew \/ BeginEvict) /\ WF_vars(EndTick)
  /\ \A s \in Symbols : SF_vars(CoolDown(s))
  /\ \A s \in Symbols, p \in Periods : SF_vars(live[s][p] = 0 /\ Age(s, p))

FairSpec == Spec /\ Fairness

(***************************************************************************)
(* Properties.                                                             *)
(***************************************************************************)

CallsType ==
  \A t \in Threads : call[t] # Idle =>
    /\ call[t].op \in {"attach", "renew", "release"} /\ (t = Loop \/ call[t].op = "attach")
    /\ call[t].stage \in {"subscribe", "unsubscribe", "mark", "sync"}
    /\ call[t].symbol \in Symbols /\ call[t].period \in Periods /\ call[t].keys \subseteq Streams

\* Every variable holds what the code keeps there; a subscription count is
\* never negative and grows by failures only.
TypeOK ==
  /\ phase \in {"starting", "live", "failed", "ended", "stopped"}
  /\ \A s \in Symbols, p \in Periods : live[s][p] \in 0..(1 + MaxFailures)
  /\ handles \subseteq Symbols \X Periods
  /\ clientSubscribed \cup subscribed \cup attached \cup cooling \cup todo \cup faulty \subseteq Symbols
  /\ tracker \in [Streams -> {"none", "off", "on"}]
  /\ quiet \cup backlogged \cup queued \cup iterated \subseteq Streams
  /\ refs \in [Symbols -> SUBSET Clients]
  /\ CallsType
  /\ loopAt \in {"connect", "start", "drain", "evaluate", "renew", "evict"}
  /\ failures \in 0..MaxFailures

InCall(s) == \E t \in Threads : call[t].op # "idle" /\ call[t].symbol = s

\* One thread at a time works on the subscriptions of a symbol: the client
\* that finds it unreferenced, or the loop that starts, renews or releases
\* it.  Nothing in the client or the manager locks them.
SoleCaller ==
  \A t, u \in {x \in Threads : call[x].op # "idle" /\ call[x].stage # "sync"} :
    call[t].symbol = call[u].symbol => t = u

\* Unless a call of the symbol has failed, runtime, manager, client and SDK
\* agree: the SDK has each of its periods once while the manager lists it and
\* none when it does not, the client has a handle for each, and the runtime
\* believes its realtime feed attached just then: no read is doubled, none is
\* left behind (docs/terminal-runtime-architecture-guidance.md:17).
ExactlyOnce ==
  \A s \in Symbols :
    phase \in {"starting", "live"} /\ ~InCall(s) /\ s \notin faulty =>
      /\ (s \in attached) = (s \in subscribed)
      /\ \A p \in Periods :
           /\ live[s][p] = IF s \in subscribed THEN 1 ELSE 0
           /\ (<<s, p>> \in handles) = (s \in subscribed)

\* Between calls the tracker watches the symbols the manager subscribes and
\* no other: a feed that goes quiet is noticed, one that was given up is not
\* missed.
WatchedIsSubscribed ==
  phase \in {"starting", "live"} =>
    \A s \in Symbols : ~InCall(s) => ((tracker[<<s, Parent>>] = "on") = (s \in subscribed))

\* The manager lists the symbol and the tracker watches the stream, but the
\* SDK has no subscription for it.
CutOff(s, p) ==
  phase = "live" /\ s \in subscribed /\ tracker[<<s, p>>] = "on" /\ live[s][p] = 0

\* What a failed release has cut off comes back: a stream that was known is
\* renewed while the manager lists its symbol and the runtime lives, unless
\* the backlog recorded for the symbol is over the limit again and again or
\* for good (a stream that is cut off gets no event to record a better one).
QuietIsRenewed ==
  \A s \in Symbols, p \in Periods : <>[]CutOff(s, p) => []<>HeldBack(s)

\* An error of the market data client degrades its symbol; it does not end
\* the runtime of the others
\* (docs/terminal-runtime-architecture-guidance.md:268).
LoopSurvives == phase # "ended"
====
