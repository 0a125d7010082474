--------------------------- MODULE SymbolRuntime ---------------------------
(***************************************************************************)
(* SymbolRuntimeManager: the owner of one in-process runtime per symbol.   *)
(* Its methods run on the WebSocket worker threads (one call at a time per *)
(* client) and on the event-loop thread, and every method is a sequence of *)
(* sections under the manager's lock with unlocked calls between them: the *)
(* hydration loader, the realtime hooks and the Redis sinks.  A step of    *)
(* this module is one locked section or one unlocked call, so the model    *)
(* has every interleaving of those pieces.                                 *)
(*                                                                         *)
(* Data is reduced to what the control flow reads.  A snapshot payload is  *)
(* its freshness verdict: "DEGRADED" when freshness lists reasons, else    *)
(* the runtime_state it carries.  degraded_reasons is whether any reason   *)
(* is present.  The eviction clock is absent, running, or past the grace   *)
(* period.  A hydration key is its symbol: a COLD runtime has no payload,  *)
(* so its key always carries the manager's own trade date.                 *)
(***************************************************************************)
EXTENDS Naturals, FiniteSets

CONSTANTS
  Symbols,          \* symbols clients may ask for
  Clients,          \* WebSocket clients; each has one worker thread
  Loop,             \* the event-loop thread
  Slots,            \* names for the runtime objects of one symbol
  NoObject,         \* "the dictionary has no entry"
  MaxHydrations,    \* max_concurrent_hydrations
  Calls,            \* the methods the environment calls
  HydrationResults, \* what hydrate_symbol may answer
  SeedPayloads,     \* payloads seed_snapshot may be given
  RawPayloads,      \* payload verdicts raw processing may leave behind
  AttachResults,    \* what the attach_realtime hook may answer
  ReleaseResults,   \* what the release_symbol hook may answer
  SinkResults       \* what a state or snapshot sink write may answer

Threads == Clients \cup {Loop}
Objects == Symbols \X Slots
States  == {"COLD", "HYDRATING", "WARM", "LIVE", "DEGRADED", "EVICTING"}
Verdicts == {"WARM", "LIVE", "DEGRADED"}

ASSUME ThreadAssumption == Loop \notin Clients
ASSUME ObjectAssumption == NoObject \notin Objects
ASSUME CapacityAssumption == MaxHydrations \in Nat \ {0}
ASSUME OutcomeAssumption ==
  /\ HydrationResults \subseteq Verdicts \cup {"none", "error"}
  /\ SeedPayloads \subseteq Verdicts
  /\ RawPayloads \subseteq Verdicts
  /\ AttachResults \subseteq {"attached", "skipped", "error"}
  /\ ReleaseResults \subseteq {"released", "error"}
  /\ SinkResults \subseteq {"written", "error"}

VARIABLES
  runtimes,         \* self.runtimes: symbol -> current runtime object
  heap,             \* the fields of every runtime object, current or stale
  hydrating,        \* self._hydrating
  activeHydrations, \* self._active_hydrations
  loaders,          \* HistoricalHydrationService._active
  upstream,         \* XtQuantSubscriptionManager.subscribed_symbols
  pc,               \* where each thread stands
  job               \* the locals of the call each thread is running

vars == <<runtimes, heap, hydrating, activeHydrations, loaders, upstream, pc, job>>

-----------------------------------------------------------------------------
(* Runtime objects.                                                        *)

ColdRuntime ==
  [state |-> "COLD", subs |-> {}, payload |-> "none", reasons |-> FALSE,
   clock |-> "none", attached |-> FALSE]

Runtime ==
  [state : States, subs : SUBSET Clients, payload : Verdicts \cup {"none"},
   reasons : BOOLEAN, clock : {"none", "running", "elapsed"}, attached : BOOLEAN]

\* Degrade: the state and reason a failed hook or sink write leaves behind.
Degrade(r) == [r EXCEPT !.state = "DEGRADED", !.reasons = TRUE]

\* Mutant of Sync: a fresh snapshot takes a runtime out of its grace period.
SyncRevives(r) ==
  CASE r.payload = "none"     -> r
    [] r.payload = "DEGRADED" -> Degrade(r)
    [] OTHER -> [r EXCEPT !.reasons = @ /\ r.state # "DEGRADED",
                          !.state = IF @ = "HYDRATING" THEN @ ELSE r.payload]

\* _sync_degraded_from_snapshot.
Sync(r) ==
  CASE r.payload = "none"     -> r
    [] r.payload = "DEGRADED" -> Degrade(r)
    [] OTHER ->
         [r EXCEPT !.reasons = @ /\ r.state # "DEGRADED",
                   !.state = IF @ \in {"EVICTING", "HYDRATING"} THEN @ ELSE r.payload]

\* The tail of detach and deactivate_symbol: an unreferenced runtime that ever
\* left COLD starts its grace period.
EvictIfUnreferenced(r) ==
  IF r.subs = {} /\ r.state # "COLD"
  THEN [r EXCEPT !.state = "EVICTING", !.clock = "running"]
  ELSE r

Unevict(r) ==
  IF r.state = "EVICTING" THEN [r EXCEPT !.state = "WARM", !.clock = "none"] ELSE r

-----------------------------------------------------------------------------
(* The dictionary of runtimes.  A slot is free when neither the dictionary *)
(* nor a running call refers to its object.                                *)

FreeSlots(s) ==
  {k \in Slots : /\ runtimes[s] # <<s, k>>
                 /\ \A t \in Threads : job[t].obj # <<s, k>>}

\* runtimes.setdefault(symbol, SymbolRuntime(symbol)): the object it returns ...
SetDefault(s) ==
  IF runtimes[s] # NoObject THEN runtimes[s] ELSE <<s, CHOOSE k \in FreeSlots(s) : TRUE>>

\* ... and its fields, new ones when the entry is.
Fields(s) == IF runtimes[s] # NoObject THEN heap[runtimes[s]] ELSE ColdRuntime

CanSetDefault(s) == runtimes[s] # NoObject \/ FreeSlots(s) # {}

PutRuntime(s, r) ==
  /\ CanSetDefault(s)
  /\ runtimes' = [runtimes EXCEPT ![s] = SetDefault(s)]
  /\ heap' = [heap EXCEPT ![SetDefault(s)] = r]

-----------------------------------------------------------------------------
(* Calls and program counters.                                             *)

NoJob == [op |-> "none", sym |-> NoObject, sub |-> NoObject, obj |-> NoObject,
          first |-> FALSE, fresh |-> FALSE, next |-> "idle"]

Ops == {"attach", "detach", "retain", "activate", "deactivate", "seed", "apply", "raw", "evict"}

PCs == {"idle", "ensure", "hydrateOnce", "join", "service", "loading", "loaded",
        "hydrated", "unevict", "attachCheck", "hook", "mark", "reply", "poolEvictions",
        "failed", "publish", "rawRead", "rawApply", "release", "clear",
        "evictDelete", "returned", "raised"}

\* Where a call may go on after a sink write.
Continuations == {"idle", "unevict", "rawRead", "poolEvictions", "failed", "loaded",
                  "returned", "raised"}

Job == [op : Ops \cup {"none"}, sym : Symbols \cup {NoObject},
        sub : Clients \cup {NoObject}, obj : Objects \cup {NoObject},
        first : BOOLEAN, fresh : BOOLEAN, next : Continuations]

At(t, label) == pc[t] = label
Goto(t, label) == pc' = [pc EXCEPT ![t] = label] /\ UNCHANGED job

AfterPublish(label) == IF "error" \in SinkResults THEN label ELSE "idle"
PublishOr(label) == IF "error" \in SinkResults THEN "publish" ELSE label

\* Leave a locked section for a sink write, and continue at label after it.  A
\* sink that cannot fail changes nothing, so its write needs no step.
PublishThen(t, label) ==
  /\ pc' = [pc EXCEPT ![t] = PublishOr(label)]
  /\ job' = [job EXCEPT ![t].next = AfterPublish(label)]

\* A call begins with job j and goes on at label.
Enter(t, j, label) ==
  /\ pc' = [pc EXCEPT ![t] = label]
  /\ job' = [job EXCEPT ![t] = j]

\* ... or has done all its work and publishes.
EnterAndPublish(t, j) ==
  Enter(t, [j EXCEPT !.next = AfterPublish("returned")], PublishOr("returned"))

MayCall(t, op) == op \in Calls /\ At(t, "idle")

\* The fields of the object this thread holds a reference to.
Mine(t) == heap[job[t].obj]
SetMine(t, r) == heap' = [heap EXCEPT ![job[t].obj] = r]

Hydration == <<hydrating, activeHydrations, loaders>>

Init ==
  /\ runtimes = [s \in Symbols |-> NoObject]
  /\ heap = [o \in Objects |-> ColdRuntime]
  /\ hydrating = {}
  /\ activeHydrations = 0
  /\ loaders = {}
  /\ upstream = {}
  /\ pc = [t \in Threads |-> "idle"]
  /\ job = [t \in Threads |-> NoJob]

-----------------------------------------------------------------------------
(* Entry points.                                                           *)

\* attach, first locked section: take the reference before hydrating.
Attach(t, s, c) ==
  /\ MayCall(t, "attach")
  /\ PutRuntime(s, [Fields(s) EXCEPT !.subs = @ \cup {c}])
  /\ Enter(t, [NoJob EXCEPT !.op = "attach", !.sym = s, !.sub = c,
                            !.obj = SetDefault(s),
                            !.first = Fields(s).subs = {},
                            !.fresh = c \notin Fields(s).subs], "ensure")
  /\ UNCHANGED <<Hydration, upstream>>

Detach(t, s, c) ==
  /\ MayCall(t, "detach")
  /\ PutRuntime(s, EvictIfUnreferenced([Fields(s) EXCEPT !.subs = @ \ {c}]))
  /\ EnterAndPublish(t, [NoJob EXCEPT !.op = "detach", !.sym = s, !.sub = c])
  /\ UNCHANGED <<Hydration, upstream>>

\* activate_symbol, first locked section (start-up and pool promotion).
Activate(t, s) ==
  /\ MayCall(t, "activate")
  /\ PutRuntime(s, Fields(s))
  /\ Enter(t, [NoJob EXCEPT !.op = "activate", !.sym = s, !.obj = SetDefault(s)], "ensure")
  /\ UNCHANGED <<Hydration, upstream>>

Deactivate(t, s) ==
  /\ MayCall(t, "deactivate")
  /\ runtimes[s] # NoObject
  /\ heap' = [heap EXCEPT ![runtimes[s]] = EvictIfUnreferenced(@)]
  /\ EnterAndPublish(t, [NoJob EXCEPT !.op = "deactivate", !.sym = s])
  /\ UNCHANGED <<runtimes, Hydration, upstream>>

Seeded(r, p) ==
  Sync([r EXCEPT !.payload = p, !.state = IF @ = "COLD" THEN "WARM" ELSE @])

SeedSnapshot(t, s) ==
  /\ MayCall(t, "seed")
  /\ \E p \in SeedPayloads : PutRuntime(s, Seeded(Fields(s), p))
  /\ EnterAndPublish(t, [NoJob EXCEPT !.op = "seed", !.sym = s])
  /\ UNCHANGED <<Hydration, upstream>>

\* apply_terminal_message and apply_processed_event: a message replaces part of
\* the payload, and its freshness decides the state.
Apply(t, s) ==
  /\ MayCall(t, "apply")
  /\ runtimes[s] # NoObject
  /\ heap[runtimes[s]].payload # "none"
  /\ \E p \in RawPayloads :
       heap' = [heap EXCEPT ![runtimes[s]] = Sync([@ EXCEPT !.payload = p])]
  /\ EnterAndPublish(t, [NoJob EXCEPT !.op = "apply", !.sym = s])
  /\ UNCHANGED <<runtimes, Hydration, upstream>>

\* What retain_existing_runtime requires of the entry it finds.
Retainable(s) ==
  /\ runtimes[s] # NoObject
  /\ heap[runtimes[s]].payload # "none"
  /\ heap[runtimes[s]].attached

\* Mutant of Retained: it takes the reference and nothing else.
RetainedKeepsState(r, c) == [r EXCEPT !.subs = @ \cup {c}]

Retained(r, c) ==
  LET held == [r EXCEPT !.subs = @ \cup {c}]
  IN  IF r.state = "EVICTING" THEN [held EXCEPT !.state = "LIVE", !.clock = "none"] ELSE held

Retain(t, s, c) ==
  /\ MayCall(t, "retain")
  /\ Retainable(s)
  /\ heap' = [heap EXCEPT ![runtimes[s]] = Retained(@, c)]
  /\ EnterAndPublish(t, [NoJob EXCEPT !.op = "retain", !.sym = s, !.sub = c])
  /\ UNCHANGED <<runtimes, Hydration, upstream>>

\* apply_raw_event, first locked section.
RawEvent(t, s) ==
  /\ MayCall(t, "raw")
  /\ PutRuntime(s, Fields(s))
  /\ Enter(t, [NoJob EXCEPT !.op = "raw", !.sym = s, !.obj = SetDefault(s)],
           IF Fields(s).payload = "none" THEN "ensure" ELSE "rawRead")
  /\ UNCHANGED <<Hydration, upstream>>

\* evict_expired, the check of one candidate.  An EVICTING runtime always has a
\* clock, so the branch that starts a missing one only sets it.
EvictCheck(t, s) ==
  /\ MayCall(t, "evict")
  /\ runtimes[s] # NoObject
  /\ LET r == heap[runtimes[s]]
     IN  /\ r.state = "EVICTING"
         /\ r.subs = {}
         /\ r.clock = "elapsed"
  /\ Enter(t, [NoJob EXCEPT !.op = "evict", !.sym = s, !.obj = runtimes[s]], "release")
  /\ UNCHANGED <<runtimes, heap, Hydration, upstream>>

-----------------------------------------------------------------------------
(* Hydration: _ensure_hydrated, _hydrate_once and the hydration service.   *)

AfterHydration(j) == IF j.op = "raw" THEN "rawRead" ELSE "unevict"
HydrationRaised(j) == IF j.op = "attach" THEN "failed" ELSE "raised"

EnsureHydrated(t) ==
  /\ At(t, "ensure")
  /\ job[t].sym \notin hydrating
  /\ Goto(t, IF Mine(t).state = "COLD" THEN "hydrateOnce" ELSE AfterHydration(job[t]))
  /\ UNCHANGED <<runtimes, heap, Hydration, upstream>>

\* Another thread won between the two checks: wait for it, then return.
HydrateJoin(t) ==
  /\ At(t, "hydrateOnce")
  /\ job[t].sym \in hydrating
  /\ Goto(t, "join")
  /\ UNCHANGED <<runtimes, heap, Hydration, upstream>>

HydrateJoined(t) ==
  /\ At(t, "join")
  /\ job[t].sym \notin hydrating
  /\ Goto(t, AfterHydration(job[t]))
  /\ UNCHANGED <<runtimes, heap, Hydration, upstream>>

HydrateNotCold(t) ==
  /\ At(t, "hydrateOnce")
  /\ job[t].sym \notin hydrating
  /\ Mine(t).state # "COLD"
  /\ Goto(t, AfterHydration(job[t]))
  /\ UNCHANGED <<runtimes, heap, Hydration, upstream>>

\* Over capacity: the runtime gets a degraded placeholder and the caller goes on.
HydrateRejected(t) ==
  /\ At(t, "hydrateOnce")
  /\ job[t].sym \notin hydrating
  /\ Mine(t).state = "COLD"
  /\ activeHydrations >= MaxHydrations
  /\ SetMine(t, [Degrade(Mine(t)) EXCEPT !.payload = IF @ = "none" THEN "DEGRADED" ELSE @])
  /\ PublishThen(t, AfterHydration(job[t]))
  /\ UNCHANGED <<runtimes, Hydration, upstream>>

\* Mutants of HydrateStart: no second look at the key and the state under the
\* lock, or one hydration too many.
HydrateStartUnchecked(t) ==
  /\ At(t, "hydrateOnce")
  /\ activeHydrations < MaxHydrations
  /\ hydrating' = hydrating \cup {job[t].sym}
  /\ activeHydrations' = activeHydrations + 1
  /\ SetMine(t, [Mine(t) EXCEPT !.state = "HYDRATING"])
  /\ Goto(t, "service")
  /\ UNCHANGED <<runtimes, loaders, upstream>>

HydrateStartOneMore(t) ==
  /\ At(t, "hydrateOnce")
  /\ job[t].sym \notin hydrating
  /\ Mine(t).state = "COLD"
  /\ activeHydrations <= MaxHydrations
  /\ hydrating' = hydrating \cup {job[t].sym}
  /\ activeHydrations' = activeHydrations + 1
  /\ SetMine(t, [Mine(t) EXCEPT !.state = "HYDRATING"])
  /\ Goto(t, "service")
  /\ UNCHANGED <<runtimes, loaders, upstream>>

HydrateStart(t) ==
  /\ At(t, "hydrateOnce")
  /\ job[t].sym \notin hydrating
  /\ Mine(t).state = "COLD"
  /\ activeHydrations < MaxHydrations
  /\ hydrating' = hydrating \cup {job[t].sym}
  /\ activeHydrations' = activeHydrations + 1
  /\ SetMine(t, [Mine(t) EXCEPT !.state = "HYDRATING"])
  /\ Goto(t, "service")
  /\ UNCHANGED <<runtimes, loaders, upstream>>

\* HistoricalHydrationService.hydrate: wait for the key, then run the loader.
ServiceEnter(t) ==
  /\ At(t, "service")
  /\ job[t].sym \notin loaders
  /\ loaders' = loaders \cup {job[t].sym}
  /\ Goto(t, "loading")
  /\ UNCHANGED <<runtimes, heap, hydrating, activeHydrations, upstream>>

\* The loader may seed the runtime from market data while it runs.
LoaderSeeds(t) ==
  /\ At(t, "loading")
  /\ \E p \in SeedPayloads : PutRuntime(job[t].sym, Seeded(Fields(job[t].sym), p))
  /\ PublishThen(t, "loaded")
  /\ UNCHANGED <<Hydration, upstream>>

LoaderReturns(t) ==
  /\ At(t, "loading")
  /\ Goto(t, "loaded")
  /\ UNCHANGED <<runtimes, heap, Hydration, upstream>>

\* The service's finally clause frees the key before the manager frees its own.
ServiceLeave(t) ==
  /\ At(t, "loaded")
  /\ loaders' = loaders \ {job[t].sym}
  /\ Goto(t, "hydrated")
  /\ UNCHANGED <<runtimes, heap, hydrating, activeHydrations, upstream>>

\* Mutants of Hydrated: the answer is stored even when there is none, or before
\* it is known to be one.
HydratedStoresNone(r, answer) ==
  IF answer = "error"
  THEN Sync(Degrade(r))
  ELSE Sync([r EXCEPT !.payload = answer, !.state = "WARM", !.reasons = FALSE])

HydratedStoresError(r, answer) ==
  Sync([r EXCEPT !.payload = answer, !.state = "WARM", !.reasons = FALSE])

Hydrated(r, answer) ==
  IF answer = "error"
  THEN Sync(Degrade(r))
  ELSE Sync([r EXCEPT !.payload = IF answer = "none" THEN @ ELSE answer,
                      !.state = "WARM", !.reasons = FALSE])

\* Mutants of HydrateFinish: a failure leaks the slot, or keeps the key.
HydrateFinishLeaks(t) ==
  /\ At(t, "hydrated")
  /\ \E answer \in HydrationResults :
       /\ SetMine(t, Hydrated(Mine(t), answer))
       /\ PublishThen(t, IF answer = "error" THEN HydrationRaised(job[t])
                                             ELSE AfterHydration(job[t]))
       /\ activeHydrations' = IF answer = "error" THEN activeHydrations ELSE activeHydrations - 1
  /\ hydrating' = hydrating \ {job[t].sym}
  /\ UNCHANGED <<runtimes, loaders, upstream>>

HydrateFinishKeepsKey(t) ==
  /\ At(t, "hydrated")
  /\ \E answer \in HydrationResults :
       /\ SetMine(t, Hydrated(Mine(t), answer))
       /\ PublishThen(t, IF answer = "error" THEN HydrationRaised(job[t])
                                             ELSE AfterHydration(job[t]))
       /\ hydrating' = IF answer = "error" THEN hydrating ELSE hydrating \ {job[t].sym}
  /\ activeHydrations' = activeHydrations - 1
  /\ UNCHANGED <<runtimes, loaders, upstream>>

HydrateFinish(t) ==
  /\ At(t, "hydrated")
  /\ \E answer \in HydrationResults :
       /\ SetMine(t, Hydrated(Mine(t), answer))
       /\ PublishThen(t, IF answer = "error" THEN HydrationRaised(job[t])
                                             ELSE AfterHydration(job[t]))
  /\ hydrating' = hydrating \ {job[t].sym}
  /\ activeHydrations' = IF activeHydrations = 0 THEN 0 ELSE activeHydrations - 1
  /\ UNCHANGED <<runtimes, loaders, upstream>>

-----------------------------------------------------------------------------
(* The rest of attach and activate_symbol.                                 *)

LeaveEvicting(t) ==
  /\ At(t, "unevict")
  /\ SetMine(t, Unevict(Mine(t)))
  /\ Goto(t, IF job[t].op = "attach" /\ ~job[t].first THEN "reply" ELSE "attachCheck")
  /\ UNCHANGED <<runtimes, Hydration, upstream>>

\* _attach_realtime runs outside the lock: it reads the flag, calls the hook,
\* then writes flag and state.
AttachCheck(t) ==
  /\ At(t, "attachCheck")
  /\ Goto(t, IF Mine(t).attached THEN "reply" ELSE "hook")
  /\ UNCHANGED <<runtimes, heap, Hydration, upstream>>

HookAttaches(t) ==
  /\ At(t, "hook")
  /\ "attached" \in AttachResults
  /\ upstream' = upstream \cup {job[t].sym}
  /\ Goto(t, "mark")
  /\ UNCHANGED <<runtimes, heap, Hydration>>

\* The market is closed, or the subscription manager is not running.
HookSkips(t) ==
  /\ At(t, "hook")
  /\ "skipped" \in AttachResults
  /\ Goto(t, "reply")
  /\ UNCHANGED <<runtimes, heap, Hydration, upstream>>

\* strict is set only by start-up, which re-raises.
HookFails(t) ==
  /\ At(t, "hook")
  /\ "error" \in AttachResults
  /\ SetMine(t, Degrade(Mine(t)))
  /\ Goto(t, IF job[t].op = "attach" THEN "reply" ELSE "raised")
  /\ UNCHANGED <<runtimes, Hydration, upstream>>

MarkAttached(t) ==
  /\ At(t, "mark")
  /\ SetMine(t, [Mine(t) EXCEPT !.attached = TRUE,
                                !.state = IF Mine(t).reasons THEN @ ELSE "LIVE"])
  /\ Goto(t, "reply")
  /\ UNCHANGED <<runtimes, Hydration, upstream>>

\* The last locked section.  Without a payload attach asks the gateway's cache,
\* which may not have one either.
Reply(t) ==
  /\ At(t, "reply")
  /\ IF job[t].op = "activate"
     THEN PublishThen(t, "returned") /\ UNCHANGED heap
     ELSE \/ /\ SetMine(t, [Mine(t) EXCEPT !.state = IF @ = "HYDRATING" THEN "WARM" ELSE @])
             /\ PublishThen(t, "poolEvictions")
          \/ /\ Mine(t).payload = "none"
             /\ Goto(t, "failed")
             /\ UNCHANGED heap
  /\ UNCHANGED <<runtimes, Hydration, upstream>>

\* _deactivate_pool_evictions: noting the query may have pushed one symbol out
\* of the active pool.
PoolEvicts(t) ==
  /\ At(t, "poolEvictions")
  /\ "deactivate" \in Calls
  /\ \E e \in Symbols \ {job[t].sym} :
       /\ runtimes[e] # NoObject
       /\ heap' = [heap EXCEPT ![runtimes[e]] = EvictIfUnreferenced(@)]
  /\ PublishThen(t, "returned")
  /\ UNCHANGED <<runtimes, Hydration, upstream>>

PoolUnchanged(t) ==
  /\ At(t, "poolEvictions")
  /\ Goto(t, "returned")
  /\ UNCHANGED <<runtimes, heap, Hydration, upstream>>

\* Mutant of AttachFailed: it takes back a reference an earlier attach made.
AttachFailedDropsAny(t) ==
  /\ At(t, "failed")
  /\ LET left == [Mine(t) EXCEPT !.subs = @ \ {job[t].sub}]
     IN  SetMine(t, IF left.subs = {} THEN [left EXCEPT !.clock = "running"] ELSE left)
  /\ PublishThen(t, "raised")
  /\ UNCHANGED <<runtimes, Hydration, upstream>>

\* attach's except clause: the new reference goes and the clock starts, but the
\* state is left as it is.
AttachFailed(t) ==
  /\ At(t, "failed")
  /\ LET left == [Mine(t) EXCEPT !.subs = IF job[t].fresh THEN @ \ {job[t].sub} ELSE @]
     IN  SetMine(t, IF job[t].fresh /\ left.subs = {}
                    THEN [left EXCEPT !.clock = "running"] ELSE left)
  /\ PublishThen(t, "raised")
  /\ UNCHANGED <<runtimes, Hydration, upstream>>

-----------------------------------------------------------------------------
(* Sink writes, raw events, eviction and return.                           *)

\* _publish_state and _publish_snapshot: a failed write degrades whatever
\* runtime the symbol has by then.
Resume(t) ==
  /\ At(t, "publish")
  /\ pc' = [pc EXCEPT ![t] = job[t].next]
  /\ job' = [job EXCEPT ![t].next = "idle"]

SinkWrites(t) ==
  /\ Resume(t)
  /\ UNCHANGED <<runtimes, heap, Hydration, upstream>>

SinkFails(t) ==
  /\ Resume(t)
  /\ "error" \in SinkResults
  /\ heap' = IF runtimes[job[t].sym] = NoObject THEN heap
             ELSE [heap EXCEPT ![runtimes[job[t].sym]] = Degrade(@)]
  /\ UNCHANGED <<runtimes, Hydration, upstream>>

\* apply_raw_event, second locked section: the state to process against.
RawRead(t) ==
  /\ At(t, "rawRead")
  /\ Goto(t, IF Fields(job[t].sym).payload = "none" THEN "raised" ELSE "rawApply")
  /\ UNCHANGED <<runtimes, heap, Hydration, upstream>>

RawApplied(r, p) ==
  LET synced == Sync([r EXCEPT !.payload = p])
  IN  [synced EXCEPT !.state = IF @ \in {"DEGRADED", "EVICTING"} THEN @ ELSE "LIVE"]

\* ... and the third, after the processor ran outside the lock.
RawApply(t) ==
  /\ At(t, "rawApply")
  /\ \E p \in RawPayloads :
       heap' = IF runtimes[job[t].sym] = NoObject THEN heap
               ELSE [heap EXCEPT ![runtimes[job[t].sym]] = RawApplied(@, p)]
  /\ PublishThen(t, "returned")
  /\ UNCHANGED <<runtimes, Hydration, upstream>>

\* _release_realtime runs outside the lock too.
ReleaseNotAttached(t) ==
  /\ At(t, "release")
  /\ ~Mine(t).attached
  /\ Goto(t, "evictDelete")
  /\ UNCHANGED <<runtimes, heap, Hydration, upstream>>

HookReleases(t) ==
  /\ At(t, "release")
  /\ Mine(t).attached
  /\ "released" \in ReleaseResults
  /\ upstream' = upstream \ {job[t].sym}
  /\ Goto(t, "clear")
  /\ UNCHANGED <<runtimes, heap, Hydration>>

ReleaseFails(t) ==
  /\ At(t, "release")
  /\ Mine(t).attached
  /\ "error" \in ReleaseResults
  /\ SetMine(t, Degrade(Mine(t)))
  /\ Goto(t, "evictDelete")
  /\ UNCHANGED <<runtimes, Hydration, upstream>>

\* Mutant of ClearAttached: the flag survives the release.
ReleaseKeepsFlag(t) ==
  /\ At(t, "clear")
  /\ Goto(t, "evictDelete")
  /\ UNCHANGED <<runtimes, heap, Hydration, upstream>>

ClearAttached(t) ==
  /\ At(t, "clear")
  /\ SetMine(t, [Mine(t) EXCEPT !.attached = FALSE])
  /\ Goto(t, "evictDelete")
  /\ UNCHANGED <<runtimes, Hydration, upstream>>

StillExpired(t) ==
  /\ runtimes[job[t].sym] = job[t].obj
  /\ Mine(t).state = "EVICTING"
  /\ Mine(t).subs = {}

EvictDelete(t) ==
  /\ At(t, "evictDelete")
  /\ runtimes' = IF StillExpired(t) THEN [runtimes EXCEPT ![job[t].sym] = NoObject] ELSE runtimes
  /\ Goto(t, "returned")
  /\ UNCHANGED <<heap, Hydration, upstream>>

\* The call ends and drops its reference; a runtime object nobody refers to any
\* more is garbage.
Garbage(t) ==
  {o \in {job[t].obj} \cap Objects :
     /\ runtimes[o[1]] # o
     /\ \A u \in Threads \ {t} : job[u].obj # o}

Return(t) ==
  /\ pc[t] \in {"returned", "raised"}
  /\ Enter(t, NoJob, "idle")
  /\ heap' = [o \in Objects |-> IF o \in Garbage(t) THEN ColdRuntime ELSE heap[o]]
  /\ UNCHANGED <<runtimes, Hydration, upstream>>

\* Time: a running eviction clock passes the grace period.
GraceElapses(s) ==
  /\ runtimes[s] # NoObject
  /\ heap[runtimes[s]].clock = "running"
  /\ heap' = [heap EXCEPT ![runtimes[s]].clock = "elapsed"]
  /\ UNCHANGED <<runtimes, Hydration, upstream, pc, job>>

-----------------------------------------------------------------------------
Begin(t) ==
  \E s \in Symbols :
    \/ t # Loop /\ Attach(t, s, t)
    \/ t # Loop /\ Retain(t, s, t)
    \/ \E c \in Clients : t \in {c, Loop} /\ Detach(t, s, c)
    \/ Activate(t, s)
    \/ Deactivate(t, s)
    \/ SeedSnapshot(t, s)
    \/ Apply(t, s)
    \/ t = Loop /\ RawEvent(t, s)
    \/ t = Loop /\ EvictCheck(t, s)

Step(t) ==
  \/ EnsureHydrated(t) \/ HydrateJoin(t) \/ HydrateJoined(t) \/ HydrateNotCold(t)
  \/ HydrateRejected(t) \/ HydrateStart(t) \/ ServiceEnter(t)
  \/ LoaderSeeds(t) \/ LoaderReturns(t) \/ ServiceLeave(t) \/ HydrateFinish(t)
  \/ LeaveEvicting(t) \/ AttachCheck(t) \/ HookAttaches(t) \/ HookSkips(t)
  \/ HookFails(t) \/ MarkAttached(t) \/ Reply(t) \/ PoolEvicts(t) \/ PoolUnchanged(t)
  \/ AttachFailed(t) \/ SinkWrites(t) \/ SinkFails(t) \/ RawRead(t) \/ RawApply(t)
  \/ ReleaseNotAttached(t) \/ HookReleases(t) \/ ReleaseFails(t) \/ ClearAttached(t)
  \/ EvictDelete(t) \/ Return(t)

Next ==
  \/ \E t \in Threads : Begin(t) \/ Step(t)
  \/ \E s \in Symbols : GraceElapses(s)

Spec == Init /\ [][Next]_vars

-----------------------------------------------------------------------------
(* Properties.                                                             *)

\* The shape of every variable, and the runtime fields the code may produce.
TypeOK ==
  /\ runtimes \in [Symbols -> Objects \cup {NoObject}]
  /\ \A s \in Symbols : runtimes[s] # NoObject => runtimes[s][1] = s
  /\ heap \in [Objects -> Runtime]
  /\ hydrating \subseteq Symbols
  /\ activeHydrations \in Nat
  /\ loaders \subseteq Symbols
  /\ upstream \subseteq Symbols
  /\ pc \in [Threads -> PCs]
  /\ job \in [Threads -> Job]

\* The thread owns the hydration of its symbol, from the reservation under the
\* lock until the result is stored.
Owns(t) == \/ pc[t] \in {"service", "loading", "loaded", "hydrated"}
           \/ pc[t] = "publish" /\ job[t].next = "loaded"

\* The hydrations under way: each owner with its symbol.
Held == {<<t, job[t].sym>> : t \in {u \in Threads : Owns(u)}}

\* Singleflight: two threads never hydrate one symbol at the same time, however
\* the two key checks of _ensure_hydrated and _hydrate_once interleave.
Singleflight ==
  \A t1, t2 \in Threads : Owns(t1) /\ Owns(t2) /\ job[t1].sym = job[t2].sym => t1 = t2

\* The reservation set names exactly the symbols being hydrated, the counter
\* counts them, and they never exceed max_concurrent_hydrations: no failure path
\* leaks a slot or frees one twice.
HydrationAccounting ==
  /\ hydrating = {h[2] : h \in Held}
  /\ activeHydrations = Cardinality(hydrating)
  /\ activeHydrations <= MaxHydrations

\* Every step acquires one hydration slot, releases one, or leaves them alone:
\* seen from outside, the reservation set, the counter and all the places a call
\* can stand in are the slots of HydrationSlots.
Pool == INSTANCE HydrationSlots
          WITH Holders <- Threads, Keys <- Symbols, Capacity <- MaxHydrations, holds <- Held

HydrationIsSlots == Pool!SlotsSpec

\* An attach is under way that has yet to pass the section which takes its
\* runtime out of EVICTING.
Reviving(o) ==
  \E t \in Threads : /\ job[t].op = "attach" /\ job[t].obj = o
                     /\ \/ pc[t] \in {"ensure", "hydrateOnce", "join", "unevict", "failed"}
                        \/ Owns(t)
                        \/ pc[t] = "publish" /\ job[t].next \in {"unevict", "failed"}

\* A runtime does not stay EVICTING: its clock runs, so that evict_expired can
\* reach it, and one that is referenced has an attach under way that will take
\* it out, whatever state a hydration that ends or a retain has stored.
EvictingMovesOn ==
  \A s \in Symbols :
    runtimes[s] # NoObject /\ heap[runtimes[s]].state = "EVICTING"
    => /\ heap[runtimes[s]].clock # "none"
       /\ heap[runtimes[s]].subs # {} => Reviving(runtimes[s])

\* A runtime that has a snapshot keeps one until it is evicted: no hydration
\* that fails or returns nothing takes away what seeding has put there.
SnapshotKept ==
  [][\A s \in Symbols :
       /\ runtimes[s] # NoObject
       /\ runtimes'[s] = runtimes[s]
       /\ heap[runtimes[s]].payload # "none"
       => heap'[runtimes[s]].payload # "none"]_vars
=============================================================================
