-------------------------- MODULE GatewaySessions --------------------------
(***************************************************************************)
(* GatewayV2SessionManager and the WebSocket service calling the symbol    *)
(* runtime manager.  Each client is one connection: its requests run one   *)
(* at a time on a worker thread (asyncio.to_thread), while the event loop  *)
(* connects and disconnects sessions, applies raw events and evicts.  The  *)
(* loop may disconnect a session whose request is still running, because a *)
(* failed or timed-out send of a broadcast disconnects too.                *)
(*                                                                         *)
(* Every step is a step of SymbolRuntime's next-state relation or leaves   *)
(* its variables alone; this module adds the session state and restricts   *)
(* the calls to those the gateway makes.                                   *)
(***************************************************************************)
EXTENDS SymbolRuntime

CONSTANT StartupSymbols   \* the active pool that supervisor start-up activates

ASSUME StartupAssumption == StartupSymbols \subseteq Symbols

VARIABLES
  starting,    \* how far start-up has come with each symbol of the pool
  session,     \* "absent", "open" or "gone" (popped from manager.sessions)
  subscribed,  \* GatewaySession.subscribed_symbols
  attached,    \* GatewaySession.attached_runtime_symbols
  request,     \* the request each worker thread is serving
  detaching    \* attached symbols disconnect still has to detach, per client

sessionVars == <<starting, session, subscribed, attached, request, detaching>>
allVars == <<vars, sessionVars>>

NoRequest == [kind |-> "none", sym |-> NoObject]

\* How far handle_message has come: a subscribe is routed to the fast path
\* (perhaps seeding the snapshot again) or to attach.
Kinds == {"none", "subscribe", "fast", "seeding", "seeded", "retaining",
          "attach", "attaching", "unsubscribe"}

Requests == [kind : Kinds, sym : Symbols \cup {NoObject}]

SessionInit ==
  /\ Init
  /\ starting = [s \in StartupSymbols |-> "seed"]
  /\ session = [c \in Clients |-> "absent"]
  /\ subscribed = [c \in Clients |-> {}]
  /\ attached = [c \in Clients |-> {}]
  /\ request = [c \in Clients |-> NoRequest]
  /\ detaching = [c \in Clients |-> {}]

-----------------------------------------------------------------------------
(* The event loop.                                                         *)

LoopFree == pc[Loop] = "idle" /\ \A c \in Clients : detaching[c] = {}

\* Start-up seeds every symbol of the pool from the recovered snapshot, then
\* activates one symbol after the other and seeds it again from market data.
StartupSeed(s) ==
  /\ starting[s] = "seed"
  /\ SeedSnapshot(Loop, s)
  /\ starting' = [starting EXCEPT ![s] = "activate"]
  /\ UNCHANGED <<session, subscribed, attached, request, detaching>>

StartupActivate(s) ==
  /\ starting[s] = "activate"
  /\ \A r \in StartupSymbols : starting[r] \notin {"seed", "reseed"}
  /\ Activate(Loop, s)
  /\ starting' = [starting EXCEPT ![s] = "reseed"]
  /\ UNCHANGED <<session, subscribed, attached, request, detaching>>

\* The requested date is no trading day: the symbol stays as it was seeded.
StartupSkip(s) ==
  /\ starting[s] = "activate"
  /\ "skipped" \in AttachResults
  /\ LoopFree
  /\ starting' = [starting EXCEPT ![s] = "done"]
  /\ UNCHANGED <<vars, session, subscribed, attached, request, detaching>>

\* The market may have no bars to seed from.
StartupReseed(s) ==
  /\ starting[s] = "reseed"
  /\ LoopFree
  /\ SeedSnapshot(Loop, s) \/ UNCHANGED vars
  /\ starting' = [starting EXCEPT ![s] = "done"]
  /\ UNCHANGED <<session, subscribed, attached, request, detaching>>

\* The service accepts connections and ticks only after start-up.
Started == \A s \in StartupSymbols : starting[s] = "done"

Connect(c) ==
  /\ Started
  /\ LoopFree
  /\ session[c] = "absent"
  /\ session' = [session EXCEPT ![c] = "open"]
  /\ UNCHANGED <<vars, starting, subscribed, attached, request, detaching>>

\* disconnect: pop the session, then detach a copy of its attached symbols.
Disconnect(c) ==
  /\ LoopFree
  /\ session[c] = "open"
  /\ session' = [session EXCEPT ![c] = "gone"]
  /\ detaching' = [detaching EXCEPT ![c] = attached[c]]
  /\ UNCHANGED <<vars, starting, subscribed, attached, request>>

DisconnectDetach(c, s) ==
  /\ s \in detaching[c]
  /\ Detach(Loop, s, c)
  /\ detaching' = [detaching EXCEPT ![c] = @ \ {s}]
  /\ UNCHANGED <<starting, session, subscribed, attached, request>>

LoopCall(s) ==
  /\ Started
  /\ LoopFree
  /\ RawEvent(Loop, s) \/ EvictCheck(Loop, s)
  /\ UNCHANGED sessionVars

-----------------------------------------------------------------------------
(* handle_message on the worker thread of client c.                        *)

Serving(c, kind) == request[c].kind = kind /\ pc[c] = "idle"
Become(c, kind) == request' = [request EXCEPT ![c].kind = kind]
Done(c) == request' = [request EXCEPT ![c] = NoRequest]

\* The event loop hands a message of an open session to a worker thread.
Receive(c, s, kind) ==
  /\ session[c] = "open"
  /\ request[c] = NoRequest
  /\ pc[c] = "idle"
  /\ LoopFree
  /\ request' = [request EXCEPT ![c] = [kind |-> kind, sym |-> s]]
  /\ UNCHANGED <<vars, starting, session, subscribed, attached, detaching>>

\* _active_runtime_snapshot: a runtime with realtime attached answers at once.
SubscribeRoute(c) ==
  /\ Serving(c, "subscribe")
  /\ Become(c, IF Retainable(request[c].sym) THEN "fast" ELSE "attach")
  /\ UNCHANGED <<vars, starting, session, subscribed, attached, detaching>>

\* A snapshot that lacks today's bars or ticks is seeded before it is sent.
SubscribeSeed(c) ==
  /\ Serving(c, "fast")
  /\ SeedSnapshot(c, request[c].sym)
  /\ Become(c, "seeding")
  /\ UNCHANGED <<starting, session, subscribed, attached, detaching>>

SeedReturns(c) ==
  /\ pc[c] = "returned"
  /\ request[c].kind = "seeding"
  /\ Return(c)
  /\ Become(c, "seeded")
  /\ UNCHANGED <<starting, session, subscribed, attached, detaching>>

FastPath(c) == Serving(c, "fast") \/ Serving(c, "seeded")

SubscribeRetain(c) ==
  /\ FastPath(c)
  /\ Retain(c, request[c].sym, c)
  /\ Become(c, "retaining")
  /\ UNCHANGED <<starting, session, subscribed, attached, detaching>>

\* retain_existing_runtime answers False when the runtime has been evicted since:
\* the snapshot is sent and the symbol subscribed all the same.
SubscribeNotRetained(c) ==
  /\ FastPath(c)
  /\ ~Retainable(request[c].sym)
  /\ subscribed' = [subscribed EXCEPT ![c] = @ \cup {request[c].sym}]
  /\ Done(c)
  /\ UNCHANGED <<vars, starting, session, attached, detaching>>

SubscribeAttach(c) ==
  /\ Serving(c, "attach")
  /\ Attach(c, request[c].sym, c)
  /\ Become(c, "attaching")
  /\ UNCHANGED <<starting, session, subscribed, attached, detaching>>

\* The manager's answer reaches the session object the request started with,
\* whether or not it is still registered.
SubscribeReturns(c) ==
  /\ pc[c] = "returned"
  /\ request[c].kind \in {"attaching", "retaining"}
  /\ Return(c)
  /\ attached' = [attached EXCEPT ![c] = @ \cup {request[c].sym}]
  /\ subscribed' = [subscribed EXCEPT ![c] = @ \cup {request[c].sym}]
  /\ Done(c)
  /\ UNCHANGED <<starting, session, detaching>>

\* The exception becomes a gateway_error message; the session is untouched.
SubscribeRaises(c) ==
  /\ pc[c] = "raised"
  /\ Return(c)
  /\ Done(c)
  /\ UNCHANGED <<starting, session, subscribed, attached, detaching>>

UnsubscribeAttached(c) ==
  /\ Serving(c, "unsubscribe")
  /\ request[c].sym \in attached[c]
  /\ Detach(c, request[c].sym, c)
  /\ subscribed' = [subscribed EXCEPT ![c] = @ \ {request[c].sym}]
  /\ attached' = [attached EXCEPT ![c] = @ \ {request[c].sym}]
  /\ UNCHANGED <<starting, session, request, detaching>>

UnsubscribeOther(c) ==
  /\ Serving(c, "unsubscribe")
  /\ request[c].sym \notin attached[c]
  /\ subscribed' = [subscribed EXCEPT ![c] = @ \ {request[c].sym}]
  /\ Done(c)
  /\ UNCHANGED <<vars, starting, session, attached, detaching>>

UnsubscribeReturns(c) ==
  /\ pc[c] = "returned"
  /\ request[c].kind = "unsubscribe"
  /\ Return(c)
  /\ Done(c)
  /\ UNCHANGED <<starting, session, subscribed, attached, detaching>>

\* A start-up activation that raises ends start-up: nothing is served.
LoopReturns ==
  /\ ~(pc[Loop] = "raised" /\ job[Loop].op = "activate")
  /\ Return(Loop)
  /\ UNCHANGED sessionVars

\* The manager's internal steps.
ManagerStep(t) ==
  /\ pc[t] \notin {"returned", "raised"}
  /\ Step(t)
  /\ UNCHANGED sessionVars

-----------------------------------------------------------------------------
ClientStep(c) ==
  \/ SubscribeRoute(c) \/ SubscribeRetain(c) \/ SubscribeNotRetained(c)
  \/ SubscribeAttach(c) \/ SubscribeReturns(c) \/ SubscribeRaises(c) \/ SeedReturns(c)
  \/ UnsubscribeAttached(c) \/ UnsubscribeOther(c) \/ UnsubscribeReturns(c)
  \/ ManagerStep(c)

LoopStep ==
  \/ \E s \in StartupSymbols :
       StartupSeed(s) \/ StartupActivate(s) \/ StartupSkip(s) \/ StartupReseed(s)
  \/ \E c \in Clients, s \in Symbols : DisconnectDetach(c, s)
  \/ LoopReturns
  \/ ManagerStep(Loop)

SessionNext ==
  \/ \E c \in Clients : Connect(c) \/ Disconnect(c) \/ SubscribeSeed(c) \/ ClientStep(c)
  \/ \E c \in Clients, s \in Symbols, kind \in {"subscribe", "unsubscribe"} : Receive(c, s, kind)
  \/ \E s \in Symbols : LoopCall(s)
  \/ LoopStep
  \/ \E s \in Symbols : GraceElapses(s) /\ UNCHANGED sessionVars

SessionSpec == SessionInit /\ [][SessionNext]_allVars

\* Worker threads and the event loop run on, and each supervisor tick offers
\* every expired runtime to evict_expired, so an eviction that stays possible at
\* the start of tick after tick is eventually made.
SessionFairness ==
  /\ \A c \in Clients : WF_allVars(ClientStep(c))
  /\ WF_allVars(LoopStep)
  /\ \A s \in Symbols : WF_allVars(GraceElapses(s) /\ UNCHANGED sessionVars)
  /\ \A s \in Symbols : SF_allVars(LoopFree /\ EvictCheck(Loop, s) /\ UNCHANGED sessionVars)

FairSessionSpec == SessionSpec /\ SessionFairness

-----------------------------------------------------------------------------
(* Properties.                                                             *)

SessionTypeOK ==
  /\ TypeOK
  /\ starting \in [StartupSymbols -> {"seed", "activate", "reseed", "done"}]
  /\ session \in [Clients -> {"absent", "open", "gone"}]
  /\ subscribed \in [Clients -> SUBSET Symbols]
  /\ attached \in [Clients -> SUBSET Symbols]
  /\ request \in [Clients -> Requests]
  /\ detaching \in [Clients -> SUBSET Symbols]

Holds(c, s) == runtimes[s] # NoObject /\ c \in heap[runtimes[s]].subs

\* What a registered session believes it has attached is a reference the current
\* runtime of the symbol counts: no eviction, failed attach of another client or
\* re-created runtime takes it away.
AttachedIsReferenced ==
  \A c \in Clients, s \in Symbols :
    session[c] = "open" /\ s \in attached[c] => Holds(c, s)

\* The realtime_attached flag of the current runtime never claims a subscription
\* that is not there, except between the release hook and the write that clears
\* the flag: a client is not left waiting on the flag for deltas that never come.
FlagIsBacked ==
  \A s \in Symbols :
    /\ runtimes[s] # NoObject
    /\ heap[runtimes[s]].attached
    => s \in upstream \/ \E t \in Threads : At(t, "clear") /\ job[t].obj = runtimes[s]

\* docs/terminal-runtime-architecture-guidance.md:109: "After a grace period,
\* realtime is detached", so an evicted symbol has no upstream subscription.
EvictedIsReleased ==
  \A s \in Symbols :
    runtimes[s] = NoObject /\ (\A t \in Threads : job[t].sym # s) => s \notin upstream

\* docs/terminal-runtime-architecture-guidance.md:83: LIVE means that the realtime
\* subscription is active.
LiveMeansAttached ==
  \A s \in Symbols :
    /\ runtimes[s] # NoObject
    /\ heap[runtimes[s]].state = "LIVE"
    /\ \A t \in Threads : job[t].sym # s
    => heap[runtimes[s]].attached

\* docs/terminal-runtime-architecture-guidance.md:106-107: a disconnect decrements
\* the ref-count.
GoneIsReleased ==
  \A c \in Clients, s \in Symbols :
    session[c] = "gone" /\ request[c] = NoRequest /\ LoopFree => ~Holds(c, s)

\* A runtime nobody references is evicted after its grace period, unless a client
\* takes a reference, or an attach or a hydration is at work on it: the checks of
\* later ticks make up for the ones a raw event, a seed or a detach got in the way of.
Abandoned(s) ==
  /\ runtimes[s] # NoObject
  /\ heap[runtimes[s]].subs = {}
  /\ s \notin hydrating
  /\ \A t \in Threads : ~(job[t].op = "attach" /\ job[t].obj = runtimes[s])

AbandonedIsEvicted ==
  \A s \in Symbols :
    Abandoned(s) /\ heap[runtimes[s]].state = "EVICTING" ~> ~Abandoned(s)

\* Every request is answered: no worker thread waits for ever, whichever of the
\* loader, the hooks or the concurrent calls fails.
RequestsAnswered ==
  \A c \in Clients : request[c] # NoRequest ~> request[c] = NoRequest
=============================================================================
