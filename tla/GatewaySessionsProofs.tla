----------------------- MODULE GatewaySessionsProofs -----------------------
(***************************************************************************)
(* Theorems about GatewaySessions for every number of symbols, clients and *)
(* slots: the gateway's behaviours are behaviours of the symbol runtime    *)
(* manager, what an open session has attached is a reference the current   *)
(* runtime counts, and the realtime flag of a current runtime is backed by *)
(* a subscription.                                                         *)
(***************************************************************************)
EXTENDS GatewaySessions, SymbolRuntimeProofs

-----------------------------------------------------------------------------
(* The invariants.                                                         *)

\* Where a call stands, or goes on after the sink write it is at.
Place(t) == IF pc[t] = "publish" THEN job[t].next ELSE pc[t]

\* The call has left, or is about to leave, with an error: an attach has given
\* its new reference back.
Dropped(t) == Place(t) = "raised"

AttachLabels == {"attachCheck", "hook", "mark"}
EvictLabels  == {"release", "clear", "evictDelete"}

\* Which calls stand at a place.
CallAt(place, j) ==
  /\ place \in ClimbLabels => j.op \in {"attach", "activate", "raw"}
  /\ place \in {"unevict", "reply"} \cup AttachLabels => j.op \in {"attach", "activate"}
  /\ place = "failed" => j.op = "attach"
  /\ place \in AttachLabels /\ j.op = "attach" => j.first
  /\ place \in EvictLabels => j.op = "evict"

\* What a call's locals say: only the event loop evicts, and nobody else takes
\* the entry it is evicting out of the dictionary.
PathOf(t) ==
  /\ CallAt(Place(t), job[t])
  /\ job[t].op = "evict" => t = Loop
  /\ pc[t] \in EvictLabels => runtimes[job[t].sym] = job[t].obj
  /\ pc[t] # "idle" /\ job[t].op \in {"attach", "activate"} =>
       job[t].obj \in Objects /\ job[t].obj[1] = job[t].sym
  /\ job[t].first => job[t].fresh

PathInv == \A t \in Threads : PathOf(t)

SessionTypes ==
  /\ starting \in [StartupSymbols -> {"seed", "activate", "reseed", "done"}]
  /\ session \in [Clients -> {"absent", "open", "gone"}]
  /\ subscribed \in [Clients -> SUBSET Symbols]
  /\ attached \in [Clients -> SUBSET Symbols]
  /\ request \in [Clients -> Requests]
  /\ detaching \in [Clients -> SUBSET Symbols]

LifeOf(c) ==
  /\ request[c].kind # "none" => request[c].sym \in Symbols
  /\ session[c] = "absent" => request[c].kind = "none" /\ attached[c] = {}
  /\ detaching[c] # {} => session[c] = "gone"
  /\ session[c] # "absent" => Started

\* The call a request has under way.
OpOf(kind) ==
  CASE kind = "seeding"     -> "seed"
    [] kind = "retaining"   -> "retain"
    [] kind = "attaching"   -> "attach"
    [] kind = "unsubscribe" -> "detach"
    [] OTHER                -> "none"

ServeOf(c) ==
  pc[c] # "idle" =>
    /\ request[c].kind \in {"seeding", "retaining", "attaching", "unsubscribe"}
    /\ job[c].op = OpOf(request[c].kind)
    /\ job[c].sym = request[c].sym
    /\ job[c].op # "seed" => job[c].sub = c

LoopInv ==
  pc[Loop] # "idle" =>
    /\ job[Loop].op \in {"seed", "activate", "detach", "raw", "evict"}
    /\ job[Loop].op = "activate" => \E s \in StartupSymbols : starting[s] = "reseed"

SessionInv ==
  /\ SessionTypes
  /\ \A c \in Clients : LifeOf(c) /\ ServeOf(c)
  /\ LoopInv

Attaching(c) == pc[c] # "idle" /\ job[c].op = "attach"

\* What a client holds.
HoldOf(c) ==
  /\ \A s \in attached[c] : session[c] = "open" => Holds(c, s)
  /\ \A s \in detaching[c] : request[c].kind \notin {"none", "unsubscribe"} => Holds(c, s)
  /\ pc[c] # "idle" /\ job[c].op = "retain" /\ session[c] = "open" => Holds(c, job[c].sym)
  /\ Attaching(c) /\ ~Dropped(c) /\ (job[c].fresh \/ session[c] = "open") =>
       Holds(c, job[c].sym) /\ runtimes[job[c].sym] = job[c].obj
  /\ Attaching(c) /\ job[c].fresh =>
       job[c].sym \notin detaching[c] /\ (session[c] = "open" => job[c].sym \notin attached[c])

HoldInv == \A c \in Clients : HoldOf(c)

Firsts(c) == Attaching(c) /\ job[c].first /\ ~Dropped(c)

OneFirst == \A c, d \in Clients : Firsts(c) /\ Firsts(d) /\ job[c].sym = job[d].sym => c = d

MarkOf(t) ==
  /\ pc[t] \in {"hook", "mark"} => ~heap[job[t].obj].attached
  /\ pc[t] = "mark" => job[t].sym \in upstream

FlagInv == FlagIsBacked /\ \A t \in Threads : MarkOf(t)

-----------------------------------------------------------------------------
(* What the manager's steps do to references, to flags and to the          *)
(* dictionary.                                                             *)

\* No reference is lost and no flag raised.
Keeps(q, r) == r.subs \subseteq q.subs /\ (q.attached => r.attached)

LEMMA OperatorsKeep ==
  ASSUME NEW r \in Runtime
  PROVE  /\ Keeps(r, r)
         /\ Keeps(Degrade(r), r)
         /\ Keeps(EvictIfUnreferenced(r), r)
         /\ Keeps(Unevict(r), r)
         /\ \A p \in Verdicts :
              /\ Keeps(Seeded(r, p), r)
              /\ Keeps(RawApplied(r, p), r)
              /\ Keeps(Sync([r EXCEPT !.payload = p]), r)
         /\ \A c \in Clients : Keeps(Retained(r, c), r) /\ c \in Retained(r, c).subs
         /\ \A answer \in Verdicts \cup {"none", "error"} : Keeps(Hydrated(r, answer), r)
<1> USE DEF Keeps, Runtime, States, Verdicts
<1>1. Keeps(r, r) /\ Keeps(Degrade(r), r) /\ Keeps(EvictIfUnreferenced(r), r) /\ Keeps(Unevict(r), r)
  BY DEF Degrade, EvictIfUnreferenced, Unevict
<1>2. \A q \in Runtime : Sync(q).subs = q.subs /\ Sync(q).attached = q.attached
  BY DEF Sync, Degrade
<1>3. ASSUME NEW c \in Clients  PROVE Keeps(Retained(r, c), r) /\ c \in Retained(r, c).subs
  BY DEF Retained
<1>4. ASSUME NEW p \in Verdicts
      PROVE  /\ Keeps(Seeded(r, p), r)
             /\ Keeps(RawApplied(r, p), r)
             /\ Keeps(Sync([r EXCEPT !.payload = p]), r)
  <2>1. Keeps(Seeded(r, p), r)
    <3> DEFINE q == [r EXCEPT !.payload = p, !.state = IF @ = "COLD" THEN "WARM" ELSE @]
    <3>1. q \in Runtime /\ q.subs = r.subs /\ q.attached = r.attached
      OBVIOUS
    <3>2. Seeded(r, p) = Sync(q)
      BY DEF Seeded
    <3> HIDE DEF q
    <3> QED  BY <3>1, <3>2, <1>2
  <2> DEFINE q == [r EXCEPT !.payload = p]
             synced == Sync(q)
  <2>2. q \in Runtime /\ q.subs = r.subs /\ q.attached = r.attached
    OBVIOUS
  <2>3. RawApplied(r, p) =
          [synced EXCEPT !.state = IF @ \in {"DEGRADED", "EVICTING"} THEN @ ELSE "LIVE"]
    BY DEF RawApplied
  <2>4. Sync([r EXCEPT !.payload = p]) = synced
    OBVIOUS
  <2> HIDE DEF q
  <2>5. synced \in Runtime
    BY <2>2, RuntimeOperators
  <2>6. synced.subs = r.subs /\ synced.attached = r.attached
    BY <2>2, <1>2
  <2> HIDE DEF synced
  <2>7. Keeps(RawApplied(r, p), r)
    BY <2>3, <2>5, <2>6
  <2> QED  BY <2>1, <2>4, <2>6, <2>7
<1>5. ASSUME NEW answer \in Verdicts \cup {"none", "error"}
      PROVE  Keeps(Hydrated(r, answer), r)
  <2>1. CASE answer = "error"
    <3>1. Degrade(r) \in Runtime /\ Degrade(r).subs = r.subs /\ Degrade(r).attached = r.attached
      BY DEF Degrade
    <3>2. Hydrated(r, answer) = Sync(Degrade(r))
      BY <2>1 DEF Hydrated
    <3> QED  BY <3>1, <3>2, <1>2
  <2>2. CASE answer # "error"
    <3> DEFINE stored == [r EXCEPT !.payload = IF answer = "none" THEN @ ELSE answer,
                                   !.state = "WARM", !.reasons = FALSE]
    <3>1. stored \in Runtime /\ stored.subs = r.subs /\ stored.attached = r.attached
      BY <2>2
    <3>2. Hydrated(r, answer) = Sync(stored)
      BY <2>2 DEF Hydrated
    <3> HIDE DEF stored
    <3> QED  BY <3>1, <3>2, <1>2
  <2> QED  BY <2>1, <2>2
<1> QED  BY <1>1, <1>3, <1>4, <1>5

\* No flag is raised, no entry of the dictionary replaced and no reference of a
\* current runtime lost.
Kept ==
  /\ \A o \in Objects : heap'[o].attached => heap[o].attached
  /\ \A s \in Symbols : runtimes[s] # NoObject =>
       /\ runtimes'[s] = runtimes[s]
       /\ heap[runtimes[s]].subs \subseteq heap'[runtimes[s]].subs
  /\ \A s \in Symbols : runtimes'[s] # runtimes[s] => ~heap'[runtimes'[s]].attached

LEMMA PutRuntimeKeeps ==
  ASSUME StoreOK, NEW s \in Symbols, NEW r \in Runtime, PutRuntime(s, r), Keeps(r, Fields(s))
  PROVE  /\ Kept
         /\ runtimes'[s] = SetDefault(s) /\ heap'[SetDefault(s)] = r
         /\ SetDefault(s) \in Objects /\ SetDefault(s)[1] = s
<1>1. SetDefault(s) \in Objects /\ SetDefault(s)[1] = s
  BY SetDefaultIsObject DEF PutRuntime
<1>2. heap' = [heap EXCEPT ![SetDefault(s)] = r] /\ runtimes' = [runtimes EXCEPT ![s] = SetDefault(s)]
  BY DEF PutRuntime
<1>3. /\ heap'[SetDefault(s)] = r /\ runtimes'[s] = SetDefault(s)
      /\ \A o \in Objects : o # SetDefault(s) => heap'[o] = heap[o]
      /\ \A u \in Symbols : u # s => runtimes'[u] = runtimes[u]
  BY <1>1, <1>2 DEF StoreOK
<1>4. CASE runtimes[s] # NoObject
  <2>1. SetDefault(s) = runtimes[s] /\ Fields(s) = heap[runtimes[s]]
    BY <1>4 DEF SetDefault, Fields
  <2>2. /\ heap[runtimes[s]].subs \subseteq heap'[runtimes[s]].subs
        /\ heap'[runtimes[s]].attached => heap[runtimes[s]].attached
    BY <1>3, <2>1 DEF Keeps
  <2>3. \A o \in Objects : heap'[o].attached => heap[o].attached
    BY <1>3, <2>1, <2>2
  <2>4. \A u \in Symbols : runtimes[u] # NoObject =>
          heap[runtimes[u]].subs \subseteq heap'[runtimes[u]].subs
    BY <1>3, <2>1, <2>2 DEF StoreOK
  <2>5. runtimes' = runtimes
    BY <1>2, <2>1 DEF StoreOK
  <2> QED  BY <1>1, <1>3, <2>3, <2>4, <2>5 DEF Kept
<1>5. CASE runtimes[s] = NoObject
  <2>1. Fields(s) = ColdRuntime
    BY <1>5 DEF Fields
  <2>2. ~r.attached
    BY <2>1 DEF Keeps, ColdRuntime
  <2>3. \A o \in Objects : heap'[o].attached => heap[o].attached
    BY <1>3, <2>2
  <2>4. \A u \in Symbols : runtimes[u] # NoObject =>
          runtimes'[u] = runtimes[u] /\ heap[runtimes[u]].subs \subseteq heap'[runtimes[u]].subs
    <3> SUFFICES ASSUME NEW u \in Symbols, runtimes[u] # NoObject
                 PROVE  runtimes'[u] = runtimes[u] /\ heap'[runtimes[u]] = heap[runtimes[u]]
      OBVIOUS
    <3>1. u # s /\ runtimes[u] \in Objects /\ runtimes[u][1] = u
      BY <1>5 DEF StoreOK
    <3> QED  BY <3>1, <1>1, <1>3
  <2>5. \A u \in Symbols : runtimes'[u] # runtimes[u] => ~heap'[runtimes'[u]].attached
    BY <1>3, <2>2
  <2> QED  BY <1>1, <1>3, <2>3, <2>4, <2>5 DEF Kept
<1> QED  BY <1>4, <1>5

LEMMA SetMineKeeps ==
  ASSUME StoreOK, NEW t, job[t].obj \in Objects, NEW r, SetMine(t, r), Keeps(r, Mine(t)),
         UNCHANGED runtimes
  PROVE  Kept
<1>1. heap' = [heap EXCEPT ![job[t].obj] = r]
  BY DEF SetMine
<1>2. /\ heap'[job[t].obj] = r
      /\ \A o \in Objects : o # job[t].obj => heap'[o] = heap[o]
  BY <1>1 DEF StoreOK
<1>3. \A o \in Objects : heap[o].subs \subseteq heap'[o].subs /\ (heap'[o].attached => heap[o].attached)
  BY <1>2 DEF Keeps, Mine
<1> QED  BY <1>3 DEF Kept, StoreOK

LEMMA SetCurrentKeeps ==
  ASSUME StoreOK, NEW s \in Symbols, runtimes[s] # NoObject, NEW r,
         heap' = [heap EXCEPT ![runtimes[s]] = r], Keeps(r, heap[runtimes[s]]), UNCHANGED runtimes
  PROVE  Kept /\ heap'[runtimes[s]] = r
<1>1. runtimes[s] \in Objects
  BY DEF StoreOK
<1>2. /\ heap'[runtimes[s]] = r
      /\ \A o \in Objects : o # runtimes[s] => heap'[o] = heap[o]
  BY <1>1 DEF StoreOK
<1>3. \A o \in Objects : heap[o].subs \subseteq heap'[o].subs /\ (heap'[o].attached => heap[o].attached)
  BY <1>2 DEF Keeps
<1> QED  BY <1>2, <1>3 DEF Kept, StoreOK

LEMMA HeapKept ==
  ASSUME StoreOK, UNCHANGED <<heap, runtimes>>
  PROVE  Kept
BY DEF Kept, StoreOK

\* A step that gives no reference back, raises no flag and evicts nothing.
LEMMA StepKeeps ==
  ASSUME IInv, NEW t \in Threads, Step(t), ~AttachFailed(t), ~MarkAttached(t), ~EvictDelete(t)
  PROVE  Kept
<1> USE DEF IInv
<1>1. CASE UNCHANGED <<heap, runtimes>>
  BY <1>1, HeapKept
<1>2. ASSUME HydrateRejected(t)  PROVE Kept
  <2>1. job[t].obj \in Objects /\ Mine(t) \in Runtime
    BY <1>2, WorkingThread DEF HydrateRejected, At, Quiet
  <2> DEFINE q == Degrade(Mine(t))
             r == [q EXCEPT !.payload = IF @ = "none" THEN "DEGRADED" ELSE @]
  <2>2. SetMine(t, r) /\ UNCHANGED runtimes
    BY <1>2 DEF HydrateRejected
  <2>3. q \in Runtime /\ Keeps(q, Mine(t))
    BY <2>1, RuntimeOperators, OperatorsKeep
  <2> HIDE DEF q
  <2>4. Keeps(r, Mine(t))
    BY <2>3 DEF Keeps, Runtime
  <2> HIDE DEF r
  <2> QED  BY <2>1, <2>2, <2>4, SetMineKeeps
<1>3. ASSUME HydrateStart(t)  PROVE Kept
  <2>1. job[t].obj \in Objects /\ Mine(t) \in Runtime
    BY <1>3, WorkingThread DEF HydrateStart, At, Quiet
  <2>2. SetMine(t, [Mine(t) EXCEPT !.state = "HYDRATING"]) /\ UNCHANGED runtimes
    BY <1>3 DEF HydrateStart
  <2>3. Keeps([Mine(t) EXCEPT !.state = "HYDRATING"], Mine(t))
    BY <2>1 DEF Keeps, Runtime
  <2> QED  BY <2>1, <2>2, <2>3, SetMineKeeps
<1>4. ASSUME LoaderSeeds(t)  PROVE Kept
  <2>1. job[t].sym \in Symbols
    BY <1>4, WorkingThread DEF LoaderSeeds, At, Quiet
  <2>2. PICK p \in SeedPayloads : PutRuntime(job[t].sym, Seeded(Fields(job[t].sym), p))
    BY <1>4 DEF LoaderSeeds
  <2>3. /\ Fields(job[t].sym) \in Runtime /\ p \in Verdicts
        /\ Seeded(Fields(job[t].sym), p) \in Runtime
        /\ Keeps(Seeded(Fields(job[t].sym), p), Fields(job[t].sym))
    BY <2>1, FieldsAreRuntime, OperatorsKeep, RuntimeOperators, OutcomeAssumption
  <2> QED  BY <2>1, <2>2, <2>3, PutRuntimeKeeps
<1>5. ASSUME HydrateFinish(t)  PROVE Kept
  <2>1. job[t].obj \in Objects /\ Mine(t) \in Runtime
    BY <1>5, WorkingThread DEF HydrateFinish, At, Quiet
  <2>2. PICK answer \in HydrationResults : SetMine(t, Hydrated(Mine(t), answer))
    BY <1>5 DEF HydrateFinish
  <2>3. Keeps(Hydrated(Mine(t), answer), Mine(t))
    BY <2>1, OperatorsKeep, OutcomeAssumption
  <2>4. UNCHANGED runtimes
    BY <1>5 DEF HydrateFinish
  <2> QED  BY <2>1, <2>2, <2>3, <2>4, SetMineKeeps
<1>6. ASSUME LeaveEvicting(t)  PROVE Kept
  <2>1. job[t].obj \in Objects /\ Mine(t) \in Runtime
    BY <1>6, WorkingThread DEF LeaveEvicting, At, Quiet
  <2> QED  BY <1>6, <2>1, OperatorsKeep, SetMineKeeps DEF LeaveEvicting
<1>7. ASSUME HookFails(t) \/ ReleaseFails(t)  PROVE Kept
  <2>1. job[t].obj \in Objects /\ Mine(t) \in Runtime
    BY <1>7, WorkingThread DEF HookFails, ReleaseFails, At, Quiet
  <2> QED  BY <1>7, <2>1, OperatorsKeep, SetMineKeeps DEF HookFails, ReleaseFails
<1>8. ASSUME Reply(t), ~UNCHANGED heap  PROVE Kept
  <2>1. job[t].obj \in Objects /\ Mine(t) \in Runtime
    BY <1>8, WorkingThread DEF Reply, At, Quiet
  <2> DEFINE r == [Mine(t) EXCEPT !.state = IF @ = "HYDRATING" THEN "WARM" ELSE @]
  <2>2. SetMine(t, r) /\ UNCHANGED runtimes
    BY <1>8 DEF Reply
  <2>3. Keeps(r, Mine(t))
    BY <2>1 DEF Keeps, Runtime
  <2> HIDE DEF r
  <2> QED  BY <2>1, <2>2, <2>3, SetMineKeeps
<1>9. ASSUME PoolEvicts(t)  PROVE Kept
  <2>1. PICK e \in Symbols :
          /\ runtimes[e] # NoObject
          /\ heap' = [heap EXCEPT ![runtimes[e]] = EvictIfUnreferenced(@)]
    BY <1>9 DEF PoolEvicts
  <2>2. Keeps(EvictIfUnreferenced(heap[runtimes[e]]), heap[runtimes[e]])
    BY <2>1, CurrentIsRuntime, OperatorsKeep
  <2>3. UNCHANGED runtimes
    BY <1>9 DEF PoolEvicts
  <2> QED  BY <2>1, <2>2, <2>3, SetCurrentKeeps
<1>10. ASSUME SinkFails(t)  PROVE Kept
  <2>1. job[t].sym \in Symbols
    BY <1>10 DEF SinkFails, Resume, At, CallsOK
  <2>2. CASE runtimes[job[t].sym] = NoObject
    BY <1>10, <2>2, HeapKept DEF SinkFails
  <2>3. CASE runtimes[job[t].sym] # NoObject
    <3>1. Keeps(Degrade(heap[runtimes[job[t].sym]]), heap[runtimes[job[t].sym]])
      BY <2>1, <2>3, CurrentIsRuntime, OperatorsKeep
    <3> QED  BY <1>10, <2>1, <2>3, <3>1, SetCurrentKeeps DEF SinkFails
  <2> QED  BY <2>2, <2>3
<1>11. ASSUME RawApply(t)  PROVE Kept
  <2>1. job[t].sym \in Symbols
    BY <1>11, WorkingThread DEF RawApply, At, Quiet
  <2>2. PICK p \in RawPayloads :
          heap' = IF runtimes[job[t].sym] = NoObject THEN heap
                  ELSE [heap EXCEPT ![runtimes[job[t].sym]] = RawApplied(@, p)]
    BY <1>11 DEF RawApply
  <2>3. UNCHANGED runtimes
    BY <1>11 DEF RawApply
  <2>4. CASE runtimes[job[t].sym] = NoObject
    BY <2>2, <2>3, <2>4, HeapKept
  <2>5. CASE runtimes[job[t].sym] # NoObject
    <3>1. Keeps(RawApplied(heap[runtimes[job[t].sym]], p), heap[runtimes[job[t].sym]])
      BY <2>1, <2>5, CurrentIsRuntime, OperatorsKeep, OutcomeAssumption
    <3> QED  BY <2>1, <2>2, <2>3, <2>5, <3>1, SetCurrentKeeps
  <2> QED  BY <2>4, <2>5
<1>12. ASSUME ClearAttached(t)  PROVE Kept
  <2>1. job[t].obj \in Objects /\ Mine(t) \in Runtime
    BY <1>12, WorkingThread DEF ClearAttached, At, Quiet
  <2>2. SetMine(t, [Mine(t) EXCEPT !.attached = FALSE]) /\ UNCHANGED runtimes
    BY <1>12 DEF ClearAttached
  <2>3. Keeps([Mine(t) EXCEPT !.attached = FALSE], Mine(t))
    BY <2>1 DEF Keeps, Runtime
  <2> QED  BY <2>1, <2>2, <2>3, SetMineKeeps
<1>13. ASSUME Return(t)  PROVE Kept
  <2>1. UNCHANGED runtimes /\ heap' = [o \in Objects |-> IF o \in Garbage(t) THEN ColdRuntime ELSE heap[o]]
    BY <1>13 DEF Return
  <2>2. \A o \in Objects : heap'[o] = heap[o] \/ heap'[o] = ColdRuntime
    BY <2>1
  <2>3. \A o \in Objects : heap'[o].attached => heap[o].attached
    BY <2>2 DEF ColdRuntime
  <2>4. ASSUME NEW s \in Symbols, runtimes[s] # NoObject
        PROVE  heap'[runtimes[s]] = heap[runtimes[s]]
    <3>1. runtimes[s] \in Objects /\ runtimes[runtimes[s][1]] = runtimes[s]
      BY <2>4 DEF StoreOK
    <3>2. runtimes[s] \notin Garbage(t)
      BY <3>1 DEF Garbage
    <3> QED  BY <2>1, <3>1, <3>2
  <2> QED  BY <2>1, <2>3, <2>4 DEF Kept
<1>14. ASSUME \/ EnsureHydrated(t) \/ HydrateJoin(t) \/ HydrateJoined(t) \/ HydrateNotCold(t)
              \/ ServiceEnter(t) \/ LoaderReturns(t) \/ ServiceLeave(t) \/ AttachCheck(t)
              \/ HookAttaches(t) \/ HookSkips(t) \/ PoolUnchanged(t) \/ SinkWrites(t)
              \/ RawRead(t) \/ ReleaseNotAttached(t) \/ HookReleases(t)
              \/ (Reply(t) /\ UNCHANGED heap)
       PROVE  Kept
  BY <1>1, <1>14 DEF EnsureHydrated, HydrateJoin, HydrateJoined, HydrateNotCold, ServiceEnter,
                     LoaderReturns, ServiceLeave, AttachCheck, HookAttaches, HookSkips, Reply,
                     PoolUnchanged, SinkWrites, RawRead, ReleaseNotAttached, HookReleases
<1> QED  BY <1>2, <1>3, <1>4, <1>5, <1>6, <1>7, <1>8, <1>9, <1>10, <1>11, <1>12,
            <1>13, <1>14 DEF Step

LEMMA GraceKeeps ==
  ASSUME IInv, NEW s \in Symbols, GraceElapses(s)
  PROVE  Kept
<1> DEFINE r == [heap[runtimes[s]] EXCEPT !.clock = "elapsed"]
<1>1. runtimes[s] # NoObject /\ heap' = [heap EXCEPT ![runtimes[s]] = r] /\ UNCHANGED runtimes
  BY DEF GraceElapses
<1>2. Keeps(r, heap[runtimes[s]])
  BY <1>1, CurrentIsRuntime DEF IInv, Keeps, Runtime
<1> HIDE DEF r
<1> QED  BY <1>1, <1>2, SetCurrentKeeps DEF IInv

\* The calls that give no reference back.
LEMMA CallKeeps ==
  ASSUME IInv, NEW t \in Threads, NEW s \in Symbols
  PROVE  /\ SeedSnapshot(t, s) \/ Activate(t, s) \/ RawEvent(t, s) \/ EvictCheck(t, s) => Kept
         /\ \A c \in Clients : Retain(t, s, c) => Kept /\ Holds(c, s)'
         /\ \A c \in Clients : Attach(t, s, c) =>
              Kept /\ Holds(c, s)' /\ runtimes'[s] = SetDefault(s)
<1> USE DEF IInv
<1>1. Fields(s) \in Runtime
  BY FieldsAreRuntime
<1>2. ASSUME SeedSnapshot(t, s)  PROVE Kept
  <2>1. PICK p \in SeedPayloads : PutRuntime(s, Seeded(Fields(s), p))
    BY <1>2 DEF SeedSnapshot
  <2>2. p \in Verdicts /\ Seeded(Fields(s), p) \in Runtime /\ Keeps(Seeded(Fields(s), p), Fields(s))
    BY <1>1, OperatorsKeep, RuntimeOperators, OutcomeAssumption
  <2> QED  BY <2>1, <2>2, PutRuntimeKeeps
<1>3. ASSUME Activate(t, s) \/ RawEvent(t, s)  PROVE Kept
  BY <1>1, <1>3, OperatorsKeep, PutRuntimeKeeps DEF Activate, RawEvent
<1>4. ASSUME EvictCheck(t, s)  PROVE Kept
  BY <1>4, HeapKept DEF EvictCheck
<1>5. ASSUME NEW c \in Clients, Retain(t, s, c)  PROVE Kept /\ Holds(c, s)'
  <2>1. /\ runtimes[s] # NoObject /\ UNCHANGED runtimes
        /\ heap' = [heap EXCEPT ![runtimes[s]] = Retained(heap[runtimes[s]], c)]
    BY <1>5 DEF Retain, Retainable
  <2>2. /\ Keeps(Retained(heap[runtimes[s]], c), heap[runtimes[s]])
        /\ c \in Retained(heap[runtimes[s]], c).subs
    BY <2>1, CurrentIsRuntime, OperatorsKeep
  <2>3. Kept /\ heap'[runtimes[s]] = Retained(heap[runtimes[s]], c)
    BY <2>1, <2>2, SetCurrentKeeps
  <2> QED  BY <2>1, <2>2, <2>3 DEF Holds
<1>6. ASSUME NEW c \in Clients, Attach(t, s, c)
      PROVE  Kept /\ Holds(c, s)' /\ runtimes'[s] = SetDefault(s)
  <2> DEFINE r == [Fields(s) EXCEPT !.subs = @ \cup {c}]
  <2>1. r \in Runtime /\ Keeps(r, Fields(s)) /\ c \in r.subs
    BY <1>1 DEF Runtime, Keeps
  <2>2. PutRuntime(s, r)
    BY <1>6 DEF Attach
  <2> HIDE DEF r
  <2>3. /\ Kept /\ runtimes'[s] = SetDefault(s) /\ heap'[SetDefault(s)] = r
        /\ SetDefault(s) \in Objects
    BY <2>1, <2>2, PutRuntimeKeeps
  <2> QED  BY <2>1, <2>3, ObjectAssumption DEF Holds
<1> QED  BY <1>2, <1>3, <1>4, <1>5, <1>6

\* The steps that do: the loss is the caller's alone.
LEMMA DetachLoses ==
  ASSUME IInv, NEW t \in Threads, NEW s \in Symbols, NEW c \in Clients, Detach(t, s, c)
  PROVE  /\ \A o \in Objects : heap'[o].attached => heap[o].attached
         /\ \A u \in Symbols : runtimes[u] # NoObject =>
              /\ runtimes'[u] = runtimes[u]
              /\ \A d \in heap[runtimes[u]].subs : (d # c \/ u # s) => d \in heap'[runtimes[u]].subs
         /\ \A u \in Symbols : runtimes'[u] # runtimes[u] => ~heap'[runtimes'[u]].attached
<1> DEFINE q == [Fields(s) EXCEPT !.subs = @ \ {c}]
           r == EvictIfUnreferenced(q)
<1>1. Fields(s) \in Runtime
  BY FieldsAreRuntime DEF IInv
<1>2. q \in Runtime /\ q.subs = Fields(s).subs \ {c} /\ q.attached = Fields(s).attached
  BY <1>1 DEF Runtime
<1>3. PutRuntime(s, r)
  BY DEF Detach
<1> HIDE DEF q
<1>4. r \in Runtime /\ r.subs = q.subs /\ r.attached = q.attached
  BY <1>2, RuntimeOperators DEF EvictIfUnreferenced, Runtime
<1> HIDE DEF r
<1>5. SetDefault(s) \in Objects /\ SetDefault(s)[1] = s
  BY <1>3, SetDefaultIsObject DEF PutRuntime, IInv
<1>6. /\ heap'[SetDefault(s)] = r /\ runtimes'[s] = SetDefault(s)
      /\ \A o \in Objects : o # SetDefault(s) => heap'[o] = heap[o]
      /\ \A u \in Symbols : u # s => runtimes'[u] = runtimes[u]
  BY <1>3, <1>5 DEF PutRuntime, IInv, StoreOK
<1>7. ASSUME NEW u \in Symbols, u # s, runtimes[u] # NoObject
      PROVE  heap'[runtimes[u]] = heap[runtimes[u]]
  <2>1. runtimes[u] \in Objects /\ runtimes[u][1] = u
    BY <1>7 DEF IInv, StoreOK
  <2> QED  BY <2>1, <1>5, <1>6, <1>7
<1>8. CASE runtimes[s] # NoObject
  <2>1. SetDefault(s) = runtimes[s] /\ Fields(s) = heap[runtimes[s]]
    BY <1>8 DEF SetDefault, Fields
  <2>2. \A o \in Objects : heap'[o].attached => heap[o].attached
    BY <1>2, <1>4, <1>6, <2>1
  <2>3. \A d \in heap[runtimes[s]].subs : d # c => d \in heap'[runtimes[s]].subs
    BY <1>2, <1>4, <1>6, <2>1
  <2> QED  BY <1>6, <1>7, <2>1, <2>2, <2>3
<1>9. CASE runtimes[s] = NoObject
  <2>1. Fields(s) = ColdRuntime
    BY <1>9 DEF Fields
  <2>2. ~r.attached
    BY <1>2, <1>4, <2>1 DEF ColdRuntime
  <2> QED  BY <1>6, <1>7, <1>9, <2>2
<1> QED  BY <1>8, <1>9

LEMMA AttachFailedLoses ==
  ASSUME IInv, NEW t \in Threads, AttachFailed(t)
  PROVE  /\ UNCHANGED runtimes
         /\ \A o \in Objects : heap'[o].attached => heap[o].attached
         /\ \A o \in Objects : \A d \in heap[o].subs :
              (~job[t].fresh \/ d # job[t].sub \/ o # job[t].obj) => d \in heap'[o].subs
<1>1. job[t].obj \in Objects /\ Mine(t) \in Runtime
  BY WorkingThread DEF AttachFailed, At, Quiet, IInv
<1> DEFINE left == [Mine(t) EXCEPT !.subs = IF job[t].fresh THEN @ \ {job[t].sub} ELSE @]
           r == IF job[t].fresh /\ left.subs = {}
                THEN [left EXCEPT !.clock = "running"] ELSE left
<1>2. heap' = [heap EXCEPT ![job[t].obj] = r] /\ UNCHANGED runtimes
  BY DEF AttachFailed, SetMine
<1>3. /\ left \in Runtime /\ left.attached = Mine(t).attached
      /\ left.subs = IF job[t].fresh THEN Mine(t).subs \ {job[t].sub} ELSE Mine(t).subs
  BY <1>1 DEF Runtime
<1> HIDE DEF left
<1>4. r.subs = left.subs /\ r.attached = left.attached
  BY <1>3 DEF Runtime
<1> HIDE DEF r
<1>5. heap'[job[t].obj] = r /\ \A o \in Objects : o # job[t].obj => heap'[o] = heap[o]
  BY <1>1, <1>2 DEF IInv, StoreOK
<1> QED  BY <1>1, <1>2, <1>3, <1>4, <1>5 DEF Mine

\* Raising a flag and deleting an entry lose no reference.
LEMMA MarkRaises ==
  ASSUME IInv, NEW t \in Threads, MarkAttached(t)
  PROVE  /\ UNCHANGED <<runtimes, upstream>>
         /\ \A o \in Objects : o # job[t].obj => heap'[o] = heap[o]
         /\ \A o \in Objects : heap'[o].subs = heap[o].subs
         /\ job[t].obj \in Objects
<1>1. job[t].obj \in Objects /\ Mine(t) \in Runtime
  BY WorkingThread DEF MarkAttached, At, Quiet, IInv
<1> DEFINE r == [Mine(t) EXCEPT !.attached = TRUE,
                                !.state = IF Mine(t).reasons THEN @ ELSE "LIVE"]
<1>2. heap' = [heap EXCEPT ![job[t].obj] = r] /\ UNCHANGED <<runtimes, upstream>>
  BY DEF MarkAttached, SetMine
<1>3. r.subs = Mine(t).subs
  BY <1>1 DEF Runtime
<1> HIDE DEF r
<1>4. heap'[job[t].obj] = r /\ \A o \in Objects : o # job[t].obj => heap'[o] = heap[o]
  BY <1>1, <1>2 DEF IInv, StoreOK
<1> QED  BY <1>1, <1>2, <1>3, <1>4 DEF Mine

LEMMA EvictDeletes ==
  ASSUME IInv, NEW t \in Threads, EvictDelete(t)
  PROVE  /\ UNCHANGED <<heap, upstream>>
         /\ \A s \in Symbols : runtimes'[s] = runtimes[s] \/ runtimes'[s] = NoObject
         /\ \A s \in Symbols : runtimes[s] # NoObject /\ heap[runtimes[s]].subs # {} =>
              runtimes'[s] = runtimes[s]
<1>1. job[t].sym \in Symbols
  BY WorkingThread DEF EvictDelete, At, Quiet
<1>2. /\ UNCHANGED <<heap, upstream>>
      /\ runtimes' = IF StillExpired(t) THEN [runtimes EXCEPT ![job[t].sym] = NoObject] ELSE runtimes
  BY DEF EvictDelete
<1>3. CASE StillExpired(t)
  <2>1. heap[runtimes[job[t].sym]].subs = {}
    BY <1>3 DEF StillExpired, Mine
  <2>2. runtimes' = [runtimes EXCEPT ![job[t].sym] = NoObject]
    BY <1>2, <1>3
  <2>3. \A s \in Symbols : s # job[t].sym => runtimes'[s] = runtimes[s]
    BY <2>2 DEF IInv, StoreOK
  <2>4. runtimes'[job[t].sym] = NoObject
    BY <1>1, <2>2 DEF IInv, StoreOK
  <2> QED  BY <1>2, <2>1, <2>3, <2>4
<1>4. CASE ~StillExpired(t)
  BY <1>2, <1>4
<1> QED  BY <1>3, <1>4

-----------------------------------------------------------------------------
(* Where a step takes a call.                                              *)

SameCall(t) ==
  /\ job'[t].op = job[t].op /\ job'[t].sym = job[t].sym /\ job'[t].sub = job[t].sub
  /\ job'[t].obj = job[t].obj /\ job'[t].first = job[t].first /\ job'[t].fresh = job[t].fresh

OthersStay(t) == \A u \in Threads \ {t} : pc'[u] = pc[u] /\ job'[u] = job[u]

LEMMA GotoPlace ==
  ASSUME CallsOK, NEW t \in Threads, NEW label \in PCs, label # "publish", Goto(t, label)
  PROVE  /\ SameCall(t) /\ OthersStay(t)
         /\ pc'[t] = label /\ Place(t)' = label
BY DEF CallsOK, Goto, SameCall, OthersStay, Place

LEMMA PublishPlace ==
  ASSUME CallsOK, NEW t \in Threads, NEW label \in Continuations, PublishThen(t, label)
  PROVE  /\ SameCall(t) /\ OthersStay(t)
         /\ pc'[t] \in {"publish", label} /\ Place(t)' = label
<1>1. /\ job'[t] = [job[t] EXCEPT !.next = AfterPublish(label)] /\ job[t] \in Job
      /\ pc'[t] = PublishOr(label)
      /\ OthersStay(t)
  BY DEF CallsOK, PublishThen, OthersStay
<1>2. SameCall(t) /\ job'[t].next = AfterPublish(label)
  BY <1>1 DEF SameCall, Job
<1> QED  BY <1>1, <1>2 DEF AfterPublish, PublishOr, Place, Continuations

LEMMA ResumePlace ==
  ASSUME CallsOK, NEW t \in Threads, Resume(t)
  PROVE  /\ SameCall(t) /\ OthersStay(t)
         /\ pc'[t] = Place(t) /\ Place(t)' = Place(t) /\ pc'[t] \in Continuations
         /\ pc[t] = "publish"
<1>1. /\ job'[t] = [job[t] EXCEPT !.next = "idle"] /\ job[t] \in Job
      /\ pc'[t] = job[t].next /\ pc[t] = "publish"
      /\ OthersStay(t)
  BY DEF CallsOK, Resume, OthersStay, At
<1>2. SameCall(t)
  BY <1>1 DEF SameCall, Job
<1>3. job[t].next \in Continuations
  BY <1>1 DEF Job
<1> QED  BY <1>1, <1>2, <1>3 DEF Place, Continuations

LEMMA ReturnPlace ==
  ASSUME CallsOK, NEW t \in Threads, Return(t)
  PROVE  /\ OthersStay(t) /\ pc'[t] = "idle" /\ job'[t] = NoJob /\ UNCHANGED <<runtimes, upstream>>
         /\ pc[t] \in {"returned", "raised"}
BY DEF CallsOK, Return, Enter, OthersStay

\* How a call goes on, short of its return.
GoesOn(t) ==
  /\ SameCall(t) /\ OthersStay(t)
  /\ CallAt(Place(t), job[t]) => CallAt(Place(t)', job[t])
  /\ Dropped(t) \/ AttachFailed(t) => Dropped(t)'
  /\ pc'[t] \in EvictLabels => pc[t] \in EvictLabels
  /\ pc'[t] = "hook" => AttachCheck(t)
  /\ pc'[t] = "mark" => HookAttaches(t)
  /\ pc[t] \notin {"idle", "returned", "raised"}

LEMMA StepGoesOn ==
  ASSUME CallsOK, NEW t \in Threads, Step(t), ~Return(t)
  PROVE  GoesOn(t)
<1> USE DEF At
<1>1. ASSUME NEW label \in PCs, label # "publish", Goto(t, label), pc[t] # "publish",
             pc[t] \notin {"idle", "returned", "raised"},
             ~AttachFailed(t),
             CallAt(pc[t], job[t]) => CallAt(label, job[t]),
             label \in EvictLabels => pc[t] \in EvictLabels,
             label = "hook" => AttachCheck(t), label = "mark" => HookAttaches(t)
      PROVE  GoesOn(t)
  <2>1. SameCall(t) /\ OthersStay(t) /\ pc'[t] = label /\ Place(t)' = label /\ Place(t) = pc[t]
    BY <1>1, GotoPlace DEF Place
  <2> QED  BY <1>1, <2>1 DEF GoesOn, Dropped
<1>2. ASSUME NEW label \in Continuations, PublishThen(t, label), pc[t] # "publish",
             pc[t] \notin {"idle", "returned", "raised"},
             CallAt(pc[t], job[t]) => CallAt(label, job[t]),
             AttachFailed(t) => label = "raised"
      PROVE  GoesOn(t)
  <2>1. SameCall(t) /\ OthersStay(t) /\ pc'[t] \in {"publish", label} /\ Place(t)' = label /\ Place(t) = pc[t]
    BY <1>2, PublishPlace DEF Place
  <2>2. pc'[t] \notin {"hook", "mark"} \cup EvictLabels
    BY <2>1 DEF Continuations, EvictLabels
  <2> QED  BY <1>2, <2>1, <2>2 DEF GoesOn, Dropped
<1> USE DEF PCs, ClimbLabels, OwnerLabels, AttachLabels, EvictLabels, AfterHydration,
            HydrationRaised, Continuations, CallAt
<1>3. ASSUME EnsureHydrated(t)  PROVE GoesOn(t)
  BY <1>3, <1>1 DEF EnsureHydrated, AttachFailed
<1>4. ASSUME HydrateJoin(t)  PROVE GoesOn(t)
  BY <1>4, <1>1 DEF HydrateJoin, AttachFailed
<1>5. ASSUME HydrateJoined(t)  PROVE GoesOn(t)
  BY <1>5, <1>1 DEF HydrateJoined, AttachFailed
<1>6. ASSUME HydrateNotCold(t)  PROVE GoesOn(t)
  BY <1>6, <1>1 DEF HydrateNotCold, AttachFailed
<1>7. ASSUME HydrateStart(t)  PROVE GoesOn(t)
  BY <1>7, <1>1 DEF HydrateStart, AttachFailed
<1>8. ASSUME ServiceEnter(t)  PROVE GoesOn(t)
  BY <1>8, <1>1 DEF ServiceEnter, AttachFailed
<1>9. ASSUME LoaderReturns(t)  PROVE GoesOn(t)
  BY <1>9, <1>1 DEF LoaderReturns, AttachFailed
<1>10. ASSUME ServiceLeave(t)  PROVE GoesOn(t)
  BY <1>10, <1>1 DEF ServiceLeave, AttachFailed
<1>11. ASSUME AttachCheck(t)  PROVE GoesOn(t)
  BY <1>11, <1>1 DEF AttachCheck, AttachFailed
<1>12. ASSUME HookAttaches(t)  PROVE GoesOn(t)
  BY <1>12, <1>1 DEF HookAttaches, AttachFailed
<1>13. ASSUME HookSkips(t)  PROVE GoesOn(t)
  BY <1>13, <1>1 DEF HookSkips, AttachFailed
<1>14. ASSUME HookFails(t)  PROVE GoesOn(t)
  BY <1>14, <1>1 DEF HookFails, AttachFailed
<1>15. ASSUME MarkAttached(t)  PROVE GoesOn(t)
  BY <1>15, <1>1 DEF MarkAttached, AttachFailed
<1>16. ASSUME PoolUnchanged(t)  PROVE GoesOn(t)
  BY <1>16, <1>1 DEF PoolUnchanged, AttachFailed
<1>17. ASSUME RawRead(t)  PROVE GoesOn(t)
  BY <1>17, <1>1 DEF RawRead, AttachFailed
<1>18. ASSUME ReleaseNotAttached(t)  PROVE GoesOn(t)
  BY <1>18, <1>1 DEF ReleaseNotAttached, AttachFailed
<1>19. ASSUME HookReleases(t)  PROVE GoesOn(t)
  BY <1>19, <1>1 DEF HookReleases, AttachFailed
<1>20. ASSUME ReleaseFails(t)  PROVE GoesOn(t)
  BY <1>20, <1>1 DEF ReleaseFails, AttachFailed
<1>21. ASSUME ClearAttached(t)  PROVE GoesOn(t)
  BY <1>21, <1>1 DEF ClearAttached, AttachFailed
<1>22. ASSUME EvictDelete(t)  PROVE GoesOn(t)
  BY <1>22, <1>1 DEF EvictDelete, AttachFailed
<1>23. ASSUME LeaveEvicting(t)  PROVE GoesOn(t)
  BY <1>23, <1>1 DEF LeaveEvicting, AttachFailed
<1>24. ASSUME HydrateRejected(t)  PROVE GoesOn(t)
  BY <1>24, <1>2 DEF HydrateRejected, AttachFailed
<1>25. ASSUME LoaderSeeds(t)  PROVE GoesOn(t)
  BY <1>25, <1>2 DEF LoaderSeeds, AttachFailed
<1>26. ASSUME HydrateFinish(t)  PROVE GoesOn(t)
  BY <1>26, <1>2 DEF HydrateFinish, AttachFailed
<1>27. ASSUME PoolEvicts(t)  PROVE GoesOn(t)
  BY <1>27, <1>2 DEF PoolEvicts, AttachFailed
<1>28. ASSUME RawApply(t)  PROVE GoesOn(t)
  BY <1>28, <1>2 DEF RawApply, AttachFailed
<1>29. ASSUME AttachFailed(t)  PROVE GoesOn(t)
  <2>1. PublishThen(t, "raised") /\ pc[t] = "failed"
    BY <1>29 DEF AttachFailed
  <2> QED  BY <2>1, <1>2
<1>30. ASSUME Reply(t)  PROVE GoesOn(t)
  <2>1. pc[t] = "reply" /\ ~AttachFailed(t)
    BY <1>30 DEF Reply, AttachFailed
  <2>2. CASE job[t].op = "activate"
    <3>1. PublishThen(t, "returned")
      BY <1>30, <2>2 DEF Reply
    <3> QED  BY <2>1, <3>1, <1>2
  <2>3. CASE job[t].op # "activate" /\ PublishThen(t, "poolEvictions")
    BY <2>1, <2>3, <1>2
  <2>4. CASE job[t].op # "activate" /\ Goto(t, "failed")
    BY <2>1, <2>4, <1>1
  <2> QED  BY <1>30, <2>2, <2>3, <2>4 DEF Reply
<1>31. ASSUME SinkWrites(t) \/ SinkFails(t)  PROVE GoesOn(t)
  <2>1. /\ SameCall(t) /\ OthersStay(t) /\ pc[t] = "publish"
        /\ pc'[t] = Place(t) /\ Place(t)' = Place(t) /\ pc'[t] \in Continuations
    BY <1>31, ResumePlace DEF SinkWrites, SinkFails
  <2>2. ~AttachFailed(t) /\ pc'[t] \notin {"hook", "mark"} \cup EvictLabels
    BY <2>1 DEF AttachFailed
  <2> QED  BY <2>1, <2>2 DEF GoesOn, Dropped
<1> QED  BY <1>3, <1>4, <1>5, <1>6, <1>7, <1>8, <1>9, <1>10, <1>11, <1>12, <1>13, <1>14,
            <1>15, <1>16, <1>17, <1>18, <1>19, <1>20, <1>21, <1>22, <1>23, <1>24, <1>25,
            <1>26, <1>27, <1>28, <1>29, <1>30, <1>31 DEF Step

\* A call that begins.
LEMMA EnterPlace ==
  ASSUME CallsOK, NEW t \in Threads, NEW j, NEW label \in PCs, label # "publish", Enter(t, j, label)
  PROVE  OthersStay(t) /\ job'[t] = j /\ pc'[t] = label /\ Place(t)' = label
BY DEF CallsOK, Enter, OthersStay, Place

LEMMA EnterAndPublishPlace ==
  ASSUME CallsOK, NEW t \in Threads, NEW j \in Job, EnterAndPublish(t, j)
  PROVE  /\ OthersStay(t) /\ pc'[t] \in {"publish", "returned"} /\ Place(t)' = "returned"
         /\ job'[t].op = j.op /\ job'[t].sym = j.sym /\ job'[t].sub = j.sub
         /\ job'[t].obj = j.obj /\ job'[t].first = j.first /\ job'[t].fresh = j.fresh
<1>1. /\ job'[t] = [j EXCEPT !.next = AfterPublish("returned")]
      /\ pc'[t] = PublishOr("returned")
      /\ OthersStay(t)
  BY DEF CallsOK, EnterAndPublish, Enter, OthersStay
<1>2. /\ job'[t].op = j.op /\ job'[t].sym = j.sym /\ job'[t].sub = j.sub
      /\ job'[t].obj = j.obj /\ job'[t].first = j.first /\ job'[t].fresh = j.fresh
      /\ job'[t].next = AfterPublish("returned")
  BY <1>1 DEF Job
<1> QED  BY <1>1, <1>2 DEF AfterPublish, PublishOr, Place

-----------------------------------------------------------------------------
(* PathInv is an invariant of the manager's own specification.             *)

Grown == \A s \in Symbols : runtimes[s] # NoObject => runtimes'[s] = runtimes[s]

LEMMA OthersPath ==
  ASSUME IInv, NEW t \in Threads, OthersStay(t), NEW u \in Threads, u # t, PathOf(u),
         Grown \/ pc[u] \notin EvictLabels
  PROVE  PathOf(u)'
<1>1. pc'[u] = pc[u] /\ job'[u] = job[u] /\ Place(u)' = Place(u)
  BY DEF OthersStay, Place
<1>2. pc[u] \in EvictLabels => runtimes'[job[u].sym] = runtimes[job[u].sym]
  <2> SUFFICES ASSUME pc[u] \in EvictLabels  PROVE runtimes'[job[u].sym] = runtimes[job[u].sym]
    OBVIOUS
  <2>1. job[u].sym \in Symbols /\ job[u].obj \in Objects
    BY WorkingThread DEF EvictLabels, Quiet
  <2>2. runtimes[job[u].sym] # NoObject
    BY <2>1, ObjectAssumption DEF PathOf
  <2> QED  BY <2>1, <2>2 DEF Grown
<1> QED  BY <1>1, <1>2 DEF PathOf

LEMMA StepGrows ==
  ASSUME IInv, NEW t \in Threads, Step(t), ~EvictDelete(t)
  PROVE  Grown
<1>1. CASE AttachFailed(t)
  BY <1>1, AttachFailedLoses DEF Grown
<1>2. CASE MarkAttached(t)
  BY <1>2, MarkRaises DEF Grown
<1>3. CASE ~AttachFailed(t) /\ ~MarkAttached(t)
  BY <1>3, StepKeeps DEF Kept, Grown
<1> QED  BY <1>1, <1>2, <1>3

LEMMA StepKeepsPath ==
  ASSUME IInv, PathInv, NEW t \in Threads, Step(t)
  PROVE  PathInv'
<1>1. OthersStay(t)
  BY StepGoesOn, ReturnPlace DEF GoesOn, IInv
<1>2. EvictDelete(t) => \A u \in Threads \ {t} : pc[u] \notin EvictLabels
  <2> SUFFICES ASSUME EvictDelete(t), NEW u \in Threads, pc[u] \in EvictLabels  PROVE u = t
    OBVIOUS
  <2>1. Place(u) = pc[u] /\ Place(t) = "evictDelete" /\ "evictDelete" \in EvictLabels
    BY DEF EvictLabels, Place, EvictDelete, At
  <2> QED  BY <2>1 DEF PathInv, PathOf, CallAt
<1>3. ASSUME NEW u \in Threads, u # t  PROVE PathOf(u)'
  BY <1>1, <1>2, <1>3, OthersPath, StepGrows DEF PathInv
<1>4. PathOf(t)'
  <2>1. CASE Return(t)
    BY <2>1, ReturnPlace
    DEF IInv, PathOf, NoJob, Place, CallAt, ClimbLabels, OwnerLabels, AttachLabels, EvictLabels
  <2>2. CASE ~Return(t)
    <3>1. GoesOn(t) /\ PathOf(t)
      BY <2>2, StepGoesOn DEF IInv, PathInv
    <3>2. SameCall(t) /\ CallAt(Place(t)', job[t]) /\ pc[t] # "idle"
      BY <3>1 DEF GoesOn, PathOf
    <3>3. CallAt(Place(t)', job'[t])
      BY <3>2 DEF SameCall, CallAt
    <3>4. ASSUME pc'[t] \in EvictLabels  PROVE runtimes'[job'[t].sym] = job'[t].obj
      <4>1. pc[t] \in EvictLabels /\ runtimes[job[t].sym] = job[t].obj
        BY <3>1, <3>4 DEF GoesOn, PathOf
      <4>2. job[t].sym \in Symbols /\ job[t].obj \in Objects
        BY <4>1, WorkingThread DEF EvictLabels, Quiet
      <4>3. ~EvictDelete(t)
        <5> SUFFICES ASSUME EvictDelete(t)  PROVE FALSE
          OBVIOUS
        <5>1. Goto(t, "returned")
          BY DEF EvictDelete
        <5>2. pc'[t] = "returned"
          BY <5>1, GotoPlace DEF PCs, IInv
        <5> QED  BY <5>2, <3>4 DEF EvictLabels
      <4>4. runtimes'[job[t].sym] = runtimes[job[t].sym]
        BY <4>1, <4>2, <4>3, StepGrows, ObjectAssumption DEF Grown
      <4> QED  BY <3>2, <4>1, <4>4 DEF SameCall
    <3>5. /\ job'[t].op = "evict" => t = Loop
          /\ job'[t].op \in {"attach", "activate"} =>
               job'[t].obj \in Objects /\ job'[t].obj[1] = job'[t].sym
          /\ job'[t].first => job'[t].fresh
      BY <3>1, <3>2 DEF SameCall, PathOf
    <3> QED  BY <3>3, <3>4, <3>5 DEF PathOf
  <2> QED  BY <2>1, <2>2
<1> QED  BY <1>3, <1>4 DEF PathInv

\* The call a client or the loop begins, and what becomes of the others.
LEMMA CallBegins ==
  ASSUME IInv, NEW t \in Threads, NEW s \in Symbols
  PROVE  /\ \A c \in Clients : Attach(t, s, c) =>
              /\ OthersStay(t) /\ pc'[t] = "ensure" /\ pc[t] = "idle"
              /\ job'[t].op = "attach" /\ job'[t].sym = s /\ job'[t].sub = c
              /\ job'[t].obj = SetDefault(s) /\ job'[t].first = (Fields(s).subs = {})
              /\ job'[t].fresh = (c \notin Fields(s).subs)
         /\ \A c \in Clients : Detach(t, s, c) =>
              /\ OthersStay(t) /\ pc'[t] \in {"publish", "returned"} /\ Place(t)' = "returned"
              /\ pc[t] = "idle"
              /\ job'[t].op = "detach" /\ job'[t].sym = s /\ job'[t].sub = c /\ ~job'[t].first
         /\ \A c \in Clients : Retain(t, s, c) =>
              /\ OthersStay(t) /\ pc'[t] \in {"publish", "returned"} /\ Place(t)' = "returned"
              /\ pc[t] = "idle"
              /\ job'[t].op = "retain" /\ job'[t].sym = s /\ job'[t].sub = c /\ ~job'[t].first
         /\ SeedSnapshot(t, s) =>
              /\ OthersStay(t) /\ pc'[t] \in {"publish", "returned"} /\ Place(t)' = "returned"
              /\ pc[t] = "idle"
              /\ job'[t].op = "seed" /\ job'[t].sym = s /\ ~job'[t].first
         /\ Activate(t, s) =>
              /\ OthersStay(t) /\ pc'[t] = "ensure" /\ pc[t] = "idle"
              /\ job'[t].op = "activate" /\ job'[t].sym = s /\ job'[t].obj = SetDefault(s)
              /\ ~job'[t].first
         /\ RawEvent(t, s) =>
              /\ OthersStay(t) /\ pc'[t] \in {"ensure", "rawRead"} /\ pc[t] = "idle"
              /\ job'[t].op = "raw" /\ job'[t].sym = s /\ ~job'[t].first
         /\ EvictCheck(t, s) =>
              /\ OthersStay(t) /\ pc'[t] = "release" /\ pc[t] = "idle"
              /\ job'[t].op = "evict" /\ job'[t].sym = s /\ job'[t].obj = runtimes[s]
              /\ ~job'[t].first
         /\ Deactivate(t, s) \/ Apply(t, s) =>
              /\ OthersStay(t) /\ pc'[t] \in {"publish", "returned"} /\ Place(t)' = "returned"
              /\ pc[t] = "idle"
              /\ job'[t].op \in {"deactivate", "apply"} /\ ~job'[t].first
<1> USE DEF IInv, MayCall, At
<1>1. ASSUME NEW c \in Clients, Attach(t, s, c)
      PROVE  /\ OthersStay(t) /\ pc'[t] = "ensure" /\ pc[t] = "idle"
             /\ job'[t].op = "attach" /\ job'[t].sym = s /\ job'[t].sub = c
             /\ job'[t].obj = SetDefault(s) /\ job'[t].first = (Fields(s).subs = {})
             /\ job'[t].fresh = (c \notin Fields(s).subs)
  <2> DEFINE j == [NoJob EXCEPT !.op = "attach", !.sym = s, !.sub = c, !.obj = SetDefault(s),
                                !.first = Fields(s).subs = {}, !.fresh = c \notin Fields(s).subs]
  <2>1. Enter(t, j, "ensure") /\ pc[t] = "idle"
    BY <1>1 DEF Attach
  <2>2. /\ j.op = "attach" /\ j.sym = s /\ j.sub = c /\ j.obj = SetDefault(s)
        /\ j.first = (Fields(s).subs = {}) /\ j.fresh = (c \notin Fields(s).subs)
    BY DEF NoJob
  <2> HIDE DEF j
  <2> QED  BY <2>1, <2>2, EnterPlace DEF PCs
<1>2. NoJob \in Job
  BY DEF NoJob, Job, Continuations
<1>3. ASSUME NEW c \in Clients, Detach(t, s, c)
      PROVE  /\ OthersStay(t) /\ pc'[t] \in {"publish", "returned"} /\ Place(t)' = "returned"
             /\ pc[t] = "idle"
             /\ job'[t].op = "detach" /\ job'[t].sym = s /\ job'[t].sub = c /\ ~job'[t].first
  <2> DEFINE j == [NoJob EXCEPT !.op = "detach", !.sym = s, !.sub = c]
  <2>1. EnterAndPublish(t, j) /\ pc[t] = "idle"
    BY <1>3 DEF Detach
  <2>2. j \in Job /\ j.op = "detach" /\ j.sym = s /\ j.sub = c /\ ~j.first
    BY DEF Job, NoJob, Ops, Continuations
  <2> HIDE DEF j
  <2> QED  BY <2>1, <2>2, EnterAndPublishPlace
<1>4. ASSUME NEW c \in Clients, Retain(t, s, c)
      PROVE  /\ OthersStay(t) /\ pc'[t] \in {"publish", "returned"} /\ Place(t)' = "returned"
             /\ pc[t] = "idle"
             /\ job'[t].op = "retain" /\ job'[t].sym = s /\ job'[t].sub = c /\ ~job'[t].first
  <2> DEFINE j == [NoJob EXCEPT !.op = "retain", !.sym = s, !.sub = c]
  <2>1. EnterAndPublish(t, j) /\ pc[t] = "idle"
    BY <1>4 DEF Retain
  <2>2. j \in Job /\ j.op = "retain" /\ j.sym = s /\ j.sub = c /\ ~j.first
    BY DEF Job, NoJob, Ops, Continuations
  <2> HIDE DEF j
  <2> QED  BY <2>1, <2>2, EnterAndPublishPlace
<1>5. ASSUME NEW op \in {"seed", "deactivate", "apply"},
             EnterAndPublish(t, [NoJob EXCEPT !.op = op, !.sym = s])
      PROVE  /\ OthersStay(t) /\ pc'[t] \in {"publish", "returned"} /\ Place(t)' = "returned"
             /\ job'[t].op = op /\ job'[t].sym = s /\ ~job'[t].first
  <2> DEFINE j == [NoJob EXCEPT !.op = op, !.sym = s]
  <2>1. j \in Job /\ j.op = op /\ j.sym = s /\ ~j.first
    BY DEF Job, NoJob, Ops, Continuations
  <2>2. EnterAndPublish(t, j)
    BY <1>5
  <2> HIDE DEF j
  <2> QED  BY <2>1, <2>2, EnterAndPublishPlace
<1>6. ASSUME Activate(t, s)
      PROVE  /\ OthersStay(t) /\ pc'[t] = "ensure" /\ pc[t] = "idle"
             /\ job'[t].op = "activate" /\ job'[t].sym = s /\ job'[t].obj = SetDefault(s)
             /\ ~job'[t].first
  <2> DEFINE j == [NoJob EXCEPT !.op = "activate", !.sym = s, !.obj = SetDefault(s)]
  <2>1. Enter(t, j, "ensure") /\ pc[t] = "idle"
    BY <1>6 DEF Activate
  <2>2. j.op = "activate" /\ j.sym = s /\ j.obj = SetDefault(s) /\ ~j.first
    BY DEF NoJob
  <2> HIDE DEF j
  <2> QED  BY <2>1, <2>2, EnterPlace DEF PCs
<1>7. ASSUME RawEvent(t, s)
      PROVE  /\ OthersStay(t) /\ pc'[t] \in {"ensure", "rawRead"} /\ pc[t] = "idle"
             /\ job'[t].op = "raw" /\ job'[t].sym = s /\ ~job'[t].first
  <2> DEFINE j == [NoJob EXCEPT !.op = "raw", !.sym = s, !.obj = SetDefault(s)]
  <2>1. /\ Enter(t, j, IF Fields(s).payload = "none" THEN "ensure" ELSE "rawRead")
        /\ pc[t] = "idle"
    BY <1>7 DEF RawEvent
  <2>2. j.op = "raw" /\ j.sym = s /\ ~j.first
    BY DEF NoJob
  <2> HIDE DEF j
  <2>3. PICK label \in {"ensure", "rawRead"} : Enter(t, j, label)
    BY <2>1
  <2> QED  BY <2>1, <2>2, <2>3, EnterPlace DEF PCs
<1>8. ASSUME EvictCheck(t, s)
      PROVE  /\ OthersStay(t) /\ pc'[t] = "release" /\ pc[t] = "idle"
             /\ job'[t].op = "evict" /\ job'[t].sym = s /\ job'[t].obj = runtimes[s]
             /\ ~job'[t].first
  <2> DEFINE j == [NoJob EXCEPT !.op = "evict", !.sym = s, !.obj = runtimes[s]]
  <2>1. Enter(t, j, "release") /\ pc[t] = "idle"
    BY <1>8 DEF EvictCheck
  <2>2. j.op = "evict" /\ j.sym = s /\ j.obj = runtimes[s] /\ ~j.first
    BY DEF NoJob
  <2> HIDE DEF j
  <2> QED  BY <2>1, <2>2, EnterPlace DEF PCs
<1>9. pc[t] = "idle" \/ ~(SeedSnapshot(t, s) \/ Deactivate(t, s) \/ Apply(t, s))
  BY DEF SeedSnapshot, Deactivate, Apply
<1>10. /\ SeedSnapshot(t, s) => EnterAndPublish(t, [NoJob EXCEPT !.op = "seed", !.sym = s])
       /\ Deactivate(t, s) => EnterAndPublish(t, [NoJob EXCEPT !.op = "deactivate", !.sym = s])
       /\ Apply(t, s) => EnterAndPublish(t, [NoJob EXCEPT !.op = "apply", !.sym = s])
  BY DEF SeedSnapshot, Deactivate, Apply
<1>11. SeedSnapshot(t, s) =>
         /\ OthersStay(t) /\ pc'[t] \in {"publish", "returned"} /\ Place(t)' = "returned"
         /\ pc[t] = "idle"
         /\ job'[t].op = "seed" /\ job'[t].sym = s /\ ~job'[t].first
  BY <1>5, <1>9, <1>10
<1>12. Deactivate(t, s) \/ Apply(t, s) =>
         /\ OthersStay(t) /\ pc'[t] \in {"publish", "returned"} /\ Place(t)' = "returned"
         /\ pc[t] = "idle"
         /\ job'[t].op \in {"deactivate", "apply"} /\ ~job'[t].first
  BY <1>5, <1>9, <1>10
<1> QED  BY <1>1, <1>3, <1>4, <1>6, <1>7, <1>8, <1>11, <1>12

LEMMA BeginKeepsPath ==
  ASSUME IInv, PathInv, NEW t \in Threads, Begin(t)
  PROVE  PathInv'
<1>1. PICK s \in Symbols :
        \/ t # Loop /\ Attach(t, s, t)
        \/ t # Loop /\ Retain(t, s, t)
        \/ \E c \in Clients : t \in {c, Loop} /\ Detach(t, s, c)
        \/ Activate(t, s)
        \/ Deactivate(t, s)
        \/ SeedSnapshot(t, s)
        \/ Apply(t, s)
        \/ t = Loop /\ RawEvent(t, s)
        \/ t = Loop /\ EvictCheck(t, s)
  BY DEF Begin
<1>2. Grown
  <2>1. ASSUME NEW c \in Clients, Detach(t, s, c)  PROVE Grown
    BY <2>1, DetachLoses DEF Grown
  <2>2. CASE Deactivate(t, s) \/ Apply(t, s)
    BY <2>2 DEF Grown, Deactivate, Apply
  <2>3. ASSUME Kept  PROVE Grown
    BY <2>3 DEF Kept, Grown
  <2>4. t # Loop => t \in Clients
    BY DEF Threads
  <2> QED  BY <1>1, <2>1, <2>2, <2>3, <2>4, CallKeeps
<1>3. OthersStay(t)
  BY <1>1, CallBegins DEF Threads
<1>4. ASSUME NEW u \in Threads, u # t  PROVE PathOf(u)'
  BY <1>2, <1>3, <1>4, OthersPath DEF PathInv
<1>5. PathOf(t)'
  <2> USE DEF PathOf, CallAt, ClimbLabels, OwnerLabels, AttachLabels, EvictLabels
  <2>1. CASE t # Loop /\ Attach(t, s, t)
    <3>1. t \in Clients
      BY <2>1 DEF Threads
    <3>2. /\ pc'[t] = "ensure" /\ job'[t].op = "attach" /\ job'[t].sym = s
          /\ job'[t].obj = SetDefault(s) /\ job'[t].first = (Fields(s).subs = {})
          /\ job'[t].fresh = (t \notin Fields(s).subs)
      BY <2>1, <3>1, CallBegins
    <3>3. SetDefault(s) \in Objects /\ SetDefault(s)[1] = s
      BY <2>1, SetDefaultIsObject DEF IInv, Attach, PutRuntime
    <3>4. job'[t].first => job'[t].fresh
      BY <3>2
    <3>5. Place(t)' = "ensure"
      BY <3>2 DEF Place
    <3> QED  BY <3>2, <3>3, <3>4, <3>5
  <2>2. ASSUME NEW c \in Clients, Detach(t, s, c) \/ Retain(t, s, c)  PROVE PathOf(t)'
    <3>1. /\ pc'[t] \in {"publish", "returned"} /\ Place(t)' = "returned"
          /\ job'[t].op \in {"detach", "retain"} /\ ~job'[t].first
      BY <2>2, CallBegins
    <3> QED  BY <3>1
  <2>3. CASE Activate(t, s)
    <3>1. /\ pc'[t] = "ensure" /\ job'[t].op = "activate" /\ job'[t].sym = s
          /\ job'[t].obj = SetDefault(s) /\ ~job'[t].first
      BY <2>3, CallBegins
    <3>2. SetDefault(s) \in Objects /\ SetDefault(s)[1] = s
      BY <2>3, SetDefaultIsObject DEF IInv, Activate, PutRuntime
    <3>3. Place(t)' = "ensure"
      BY <3>1 DEF Place
    <3> QED  BY <3>1, <3>2, <3>3
  <2>4. CASE Deactivate(t, s) \/ SeedSnapshot(t, s) \/ Apply(t, s)
    <3>1. /\ pc'[t] \in {"publish", "returned"} /\ Place(t)' = "returned"
          /\ job'[t].op \in {"deactivate", "seed", "apply"} /\ ~job'[t].first
      BY <2>4, CallBegins
    <3> QED  BY <3>1
  <2>5. CASE t = Loop /\ RawEvent(t, s)
    <3>1. pc'[t] \in {"ensure", "rawRead"} /\ job'[t].op = "raw" /\ ~job'[t].first
      BY <2>5, CallBegins
    <3>2. Place(t)' = pc'[t]
      BY <3>1 DEF Place
    <3> QED  BY <3>1, <3>2
  <2>6. CASE t = Loop /\ EvictCheck(t, s)
    <3>1. /\ pc'[t] = "release" /\ job'[t].op = "evict" /\ job'[t].sym = s
          /\ job'[t].obj = runtimes[s] /\ ~job'[t].first
      BY <2>6, CallBegins
    <3>2. Place(t)' = pc'[t] /\ UNCHANGED runtimes
      BY <2>6, <3>1 DEF Place, EvictCheck
    <3> QED  BY <2>6, <3>1, <3>2
  <2>7. t # Loop => t \in Clients
    BY DEF Threads
  <2> QED  BY <1>1, <2>1, <2>2, <2>3, <2>4, <2>5, <2>6, <2>7
<1> QED  BY <1>4, <1>5 DEF PathInv

LEMMA InitPath == Init => PathInv
<1> SUFFICES ASSUME Init  PROVE PathInv
  OBVIOUS
<1>1. ASSUME NEW t \in Threads  PROVE PathOf(t)
  <2>1. pc[t] = "idle" /\ job[t] = NoJob
    BY DEF Init
  <2> QED  BY <2>1 DEF PathOf, CallAt, NoJob, Place, ClimbLabels, OwnerLabels, AttachLabels, EvictLabels
<1> QED  BY <1>1 DEF PathInv

LEMMA NextKeepsPath ==
  ASSUME IInv, PathInv, [Next]_vars
  PROVE  PathInv'
<1>1. CASE UNCHANGED vars
  BY <1>1 DEF vars, PathInv, PathOf, Place
<1>2. ASSUME NEW s \in Symbols, GraceElapses(s)  PROVE PathInv'
  BY <1>2 DEF GraceElapses, PathInv, PathOf, Place
<1> QED  BY <1>1, <1>2, StepKeepsPath, BeginKeepsPath DEF Next

-----------------------------------------------------------------------------
(* The gateway: its types, and the calls its requests have under way.      *)

LEMMA ThreadFacts ==
  /\ Loop \in Threads /\ Clients \subseteq Threads /\ StartupSymbols \subseteq Symbols
  /\ \A c \in Clients : c # Loop
BY ThreadAssumption, StartupAssumption DEF Threads

LEMMA RequestTypes ==
  ASSUME SessionTypes, NEW c \in Clients
  PROVE  /\ request[c].kind \in Kinds
         /\ \A kind \in Kinds :
              request' = [request EXCEPT ![c].kind = kind] =>
                /\ request' \in [Clients -> Requests]
                /\ request'[c].kind = kind /\ request'[c].sym = request[c].sym
                /\ \A d \in Clients : d # c => request'[d] = request[d]
         /\ \A kind \in Kinds, s \in Symbols :
              request' = [request EXCEPT ![c] = [kind |-> kind, sym |-> s]] =>
                /\ request' \in [Clients -> Requests]
                /\ request'[c].kind = kind /\ request'[c].sym = s
                /\ \A d \in Clients : d # c => request'[d] = request[d]
         /\ Done(c) =>
              /\ request' \in [Clients -> Requests]
              /\ request'[c] = NoRequest /\ request'[c].kind = "none"
              /\ \A d \in Clients : d # c => request'[d] = request[d]
<1> USE DEF SessionTypes
<1>1. request[c] \in Requests
  OBVIOUS
<1>2. request[c].kind \in Kinds
  BY <1>1 DEF Requests
<1>3. ASSUME NEW kind \in Kinds, request' = [request EXCEPT ![c].kind = kind]
      PROVE  /\ request' \in [Clients -> Requests]
             /\ request'[c].kind = kind /\ request'[c].sym = request[c].sym
             /\ \A d \in Clients : d # c => request'[d] = request[d]
  <2>1. request'[c] = [request[c] EXCEPT !.kind = kind]
    BY <1>3
  <2>2. request'[c] \in Requests /\ request'[c].kind = kind /\ request'[c].sym = request[c].sym
    BY <1>1, <2>1 DEF Requests
  <2>3. \A d \in Clients : d # c => request'[d] = request[d]
    BY <1>3
  <2>4. request' = [d \in Clients |-> request'[d]]
    BY <1>3
  <2>5. \A d \in Clients : request'[d] \in Requests
    BY <2>2, <2>3
  <2> QED  BY <2>2, <2>3, <2>4, <2>5
<1>4. ASSUME NEW kind \in Kinds, NEW s \in Symbols,
             request' = [request EXCEPT ![c] = [kind |-> kind, sym |-> s]]
      PROVE  /\ request' \in [Clients -> Requests]
             /\ request'[c].kind = kind /\ request'[c].sym = s
             /\ \A d \in Clients : d # c => request'[d] = request[d]
  <2>1. [kind |-> kind, sym |-> s] \in Requests
    BY DEF Requests
  <2> QED  BY <1>4, <2>1
<1>5. ASSUME Done(c)
      PROVE  /\ request' \in [Clients -> Requests]
             /\ request'[c] = NoRequest /\ request'[c].kind = "none"
             /\ \A d \in Clients : d # c => request'[d] = request[d]
  <2>1. NoRequest \in Requests /\ NoRequest.kind = "none"
    BY DEF NoRequest, Requests, Kinds
  <2> QED  BY <1>5, <2>1 DEF Done
<1> QED  BY <1>2, <1>3, <1>4, <1>5

\* Nothing about this client changes.
ClientStays(c) ==
  /\ pc'[c] = pc[c] /\ job'[c] = job[c]
  /\ session'[c] = session[c] /\ attached'[c] = attached[c]
  /\ request'[c] = request[c] /\ detaching'[c] = detaching[c]

LEMMA ClientStaysServed ==
  ASSUME NEW c \in Clients, LifeOf(c), ServeOf(c), ClientStays(c), Started => Started'
  PROVE  LifeOf(c)' /\ ServeOf(c)'
BY DEF LifeOf, ServeOf, ClientStays

\* Start-up: it is over before any session is there, and never begins again.
Startup(s) == StartupSeed(s) \/ StartupActivate(s) \/ StartupSkip(s) \/ StartupReseed(s)

LEMMA StartupKeeps ==
  ASSUME IInv, SessionInv, NEW s \in StartupSymbols, Startup(s)
  PROVE  /\ SessionInv' /\ ~Started
         /\ \A c \in Clients : ClientStays(c)
         /\ UNCHANGED <<session, subscribed, attached, request, detaching>>
<1>1. ~Started
  BY DEF Startup, StartupSeed, StartupActivate, StartupSkip, StartupReseed, Started
<1>2. UNCHANGED <<session, subscribed, attached, request, detaching>>
  BY DEF Startup, StartupSeed, StartupActivate, StartupSkip, StartupReseed
<1>3. OthersStay(Loop) \/ UNCHANGED vars
  BY ThreadFacts, CallBegins
  DEF Startup, StartupSeed, StartupActivate, StartupSkip, StartupReseed
<1>4. \A c \in Clients : ClientStays(c)
  BY <1>2, <1>3, ThreadFacts DEF ClientStays, OthersStay, vars
<1>5. \A c \in Clients : LifeOf(c)' /\ ServeOf(c)'
  BY <1>1, <1>4, ClientStaysServed DEF SessionInv
<1>6. SessionTypes'
  BY <1>2 DEF SessionInv, SessionTypes, Startup, StartupSeed, StartupActivate, StartupSkip, StartupReseed
<1>7. LoopInv'
  <2>1. CASE StartupSeed(s)
    <3>1. SeedSnapshot(Loop, s)
      BY <2>1 DEF StartupSeed
    <3>2. job'[Loop].op = "seed"
      BY <3>1, ThreadFacts, CallBegins
    <3> QED  BY <3>2 DEF LoopInv
  <2>2. CASE StartupActivate(s)
    <3>1. Activate(Loop, s) /\ starting' = [starting EXCEPT ![s] = "reseed"]
      BY <2>2 DEF StartupActivate
    <3>2. job'[Loop].op = "activate"
      BY <3>1, ThreadFacts, CallBegins
    <3>3. starting'[s] = "reseed"
      BY <3>1 DEF SessionInv, SessionTypes
    <3> QED  BY <3>2, <3>3 DEF LoopInv
  <2>3. CASE StartupSkip(s)
    BY <2>3 DEF StartupSkip, LoopFree, LoopInv, vars
  <2>4. CASE StartupReseed(s)
    <3>1. CASE SeedSnapshot(Loop, s)
      <4>1. job'[Loop].op = "seed"
        BY <3>1, ThreadFacts, CallBegins
      <4> QED  BY <4>1 DEF LoopInv
    <3>2. CASE UNCHANGED vars
      BY <2>4, <3>2 DEF StartupReseed, LoopFree, LoopInv, vars
    <3> QED  BY <2>4, <3>1, <3>2 DEF StartupReseed
  <2> QED  BY <2>1, <2>2, <2>3, <2>4 DEF Startup
<1> QED  BY <1>1, <1>2, <1>4, <1>5, <1>6, <1>7 DEF SessionInv

\* What the event loop does to one session, or to none.
LEMMA ConnectKeeps ==
  ASSUME SessionInv, NEW c \in Clients, Connect(c) \/ Disconnect(c)
  PROVE  SessionInv' /\ \A d \in Clients \ {c} : ClientStays(d)
<1>1. /\ session[c] \in {"absent", "open"} /\ UNCHANGED <<vars, starting, subscribed, attached, request>>
      /\ \A d \in Clients : d # c => session'[d] = session[d] /\ detaching'[d] = detaching[d]
  BY DEF Connect, Disconnect, SessionInv, SessionTypes
<1>2. \A d \in Clients \ {c} : ClientStays(d)
  BY <1>1 DEF ClientStays, vars
<1>3. Started => Started'
  BY <1>1 DEF Started
<1>4. ASSUME NEW d \in Clients  PROVE LifeOf(d)' /\ ServeOf(d)'
  <2>1. CASE d # c
    BY <1>2, <1>3, <2>1, ClientStaysServed DEF SessionInv
  <2>2. CASE d = c
    <3>1. LifeOf(c) /\ ServeOf(c)
      BY DEF SessionInv
    <3>2. ServeOf(c)'
      BY <1>1, <3>1 DEF ServeOf, vars
    <3>3. CASE Connect(c)
      <4>1. session'[c] = "open" /\ detaching' = detaching /\ session[c] = "absent" /\ Started
        BY <3>3 DEF Connect, SessionInv, SessionTypes
      <4>2. detaching[c] = {}
        BY <3>1, <4>1 DEF LifeOf
      <4> QED  BY <1>1, <1>3, <2>2, <3>1, <3>2, <4>1, <4>2 DEF LifeOf
    <3>4. CASE Disconnect(c)
      <4>1. session'[c] = "gone" /\ session[c] = "open"
        BY <3>4 DEF Disconnect, SessionInv, SessionTypes
      <4> QED  BY <1>1, <1>3, <2>2, <3>1, <3>2, <4>1 DEF LifeOf
    <3> QED  BY <3>3, <3>4
  <2> QED  BY <2>1, <2>2
<1>5. SessionTypes'
  BY <1>1 DEF SessionInv, SessionTypes, Connect, Disconnect
<1>6. LoopInv'
  BY <1>1 DEF SessionInv, LoopInv, vars
<1> QED  BY <1>2, <1>4, <1>5, <1>6 DEF SessionInv

\* A call of the loop, or the steps and the return of one.
LEMMA LoopCallKeeps ==
  ASSUME IInv, SessionInv, UNCHANGED <<starting, session, subscribed, attached, request>>,
         OthersStay(Loop),
         \A d \in Clients : detaching'[d] \subseteq detaching[d],
         detaching' \in [Clients -> SUBSET Symbols],
         \/ pc'[Loop] = "idle"
         \/ job'[Loop].op \in {"detach", "raw", "evict"}
         \/ pc[Loop] # "idle" /\ job'[Loop].op = job[Loop].op
  PROVE  SessionInv'
<1>1. ASSUME NEW d \in Clients  PROVE LifeOf(d)' /\ ServeOf(d)'
  <2>1. pc'[d] = pc[d] /\ job'[d] = job[d] /\ LifeOf(d) /\ ServeOf(d)
    BY ThreadFacts DEF OthersStay, SessionInv
  <2>2. Started' <=> Started
    BY DEF Started
  <2> QED  BY <2>1, <2>2 DEF LifeOf, ServeOf
<1>2. LoopInv'
  BY DEF SessionInv, LoopInv
<1> QED  BY <1>1, <1>2 DEF SessionInv, SessionTypes

\* What the worker thread of one client does.
LEMMA ClientCallKeeps ==
  ASSUME IInv, SessionInv, NEW c \in Clients, UNCHANGED <<starting, session, detaching>>,
         subscribed' \in [Clients -> SUBSET Symbols], attached' \in [Clients -> SUBSET Symbols],
         request' \in [Clients -> Requests],
         OthersStay(c) \/ UNCHANGED vars,
         \A d \in Clients \ {c} : attached'[d] = attached[d] /\ request'[d] = request[d],
         session[c] = "absent" => request'[c].kind = "none" /\ attached'[c] = {},
         request'[c].kind # "none" => request'[c].sym \in Symbols,
         ServeOf(c)'
  PROVE  SessionInv' /\ \A d \in Clients \ {c} : ClientStays(d)
<1>1. \A d \in Clients \ {c} : ClientStays(d)
  BY ThreadFacts DEF ClientStays, OthersStay, vars
<1>2. Started' <=> Started
  BY DEF Started
<1>3. \A d \in Clients \ {c} : LifeOf(d)' /\ ServeOf(d)'
  BY <1>1, <1>2, ClientStaysServed DEF SessionInv
<1>4. LifeOf(c)'
  BY <1>2 DEF SessionInv, LifeOf
<1>5. LoopInv'
  BY ThreadFacts DEF SessionInv, LoopInv, OthersStay, vars
<1> QED  BY <1>1, <1>3, <1>4, <1>5 DEF SessionInv, SessionTypes

\* A request that calls nothing yet, or ends without a call.
QuietStep(c) ==
  \/ \E s \in Symbols, kind \in {"subscribe", "unsubscribe"} : Receive(c, s, kind)
  \/ SubscribeRoute(c) \/ SubscribeNotRetained(c) \/ UnsubscribeOther(c)

LEMMA QuietStepKeeps ==
  ASSUME IInv, SessionInv, NEW c \in Clients, QuietStep(c)
  PROVE  /\ SessionInv' /\ \A d \in Clients \ {c} : ClientStays(d)
         /\ pc[c] = "idle" /\ UNCHANGED <<vars, session, attached, detaching>>
         /\ \/ session[c] = "open" /\ request'[c].kind \in {"subscribe", "unsubscribe"}
            \/ request'[c].kind = "none"
            \/ request[c].kind = "subscribe"
<1> USE DEF Serving, FastPath
<1>1. /\ pc[c] = "idle" /\ UNCHANGED <<vars, starting, session, attached, detaching>>
      /\ subscribed' \in [Clients -> SUBSET Symbols]
  <2>1. CASE SubscribeNotRetained(c)
    <3>1. request[c].kind \in {"fast", "seeded"} /\ LifeOf(c)
      BY <2>1 DEF SubscribeNotRetained, SessionInv
    <3>2. request[c].sym \in Symbols
      BY <3>1 DEF LifeOf
    <3> QED  BY <2>1, <3>2 DEF SubscribeNotRetained, SessionInv, SessionTypes
  <2>2. CASE ~SubscribeNotRetained(c)
    BY <2>2 DEF QuietStep, Receive, SubscribeRoute, UnsubscribeOther, SessionInv, SessionTypes
  <2> QED  BY <2>1, <2>2
<1>2. LifeOf(c) /\ SessionTypes /\ attached \in [Clients -> SUBSET Symbols]
  BY DEF SessionInv, SessionTypes
<1>3. ServeOf(c)'
  BY <1>1 DEF ServeOf, vars
<1> DEFINE Asked ==
      /\ request' \in [Clients -> Requests]
      /\ \A d \in Clients \ {c} : request'[d] = request[d]
      /\ session[c] = "absent" => request'[c].kind = "none"
      /\ request'[c].kind # "none" => request'[c].sym \in Symbols
      /\ \/ session[c] = "open" /\ request'[c].kind \in {"subscribe", "unsubscribe"}
         \/ request'[c].kind = "none"
         \/ request[c].kind = "subscribe"
<1>4. Asked
  <2>1. ASSUME NEW s \in Symbols, NEW kind \in {"subscribe", "unsubscribe"}, Receive(c, s, kind)
        PROVE  Asked
    <3>1. session[c] = "open" /\ request' = [request EXCEPT ![c] = [kind |-> kind, sym |-> s]]
      BY <2>1 DEF Receive
    <3>2. kind \in Kinds
      BY DEF Kinds
    <3> QED  BY <1>2, <3>1, <3>2, RequestTypes
  <2>2. CASE SubscribeRoute(c)
    <3>1. PICK kind \in {"fast", "attach"} : request' = [request EXCEPT ![c].kind = kind]
      BY <2>2 DEF SubscribeRoute, Become
    <3>2. kind \in Kinds /\ request[c].kind = "subscribe"
      BY <2>2 DEF Kinds, SubscribeRoute
    <3> QED  BY <1>2, <3>1, <3>2, RequestTypes DEF LifeOf
  <2>3. CASE SubscribeNotRetained(c) \/ UnsubscribeOther(c)
    <3>1. Done(c)
      BY <2>3 DEF SubscribeNotRetained, UnsubscribeOther
    <3> QED  BY <1>2, <3>1, RequestTypes
  <2> QED  BY <2>1, <2>2, <2>3 DEF QuietStep
<1> QED  BY <1>1, <1>2, <1>3, <1>4, ClientCallKeeps DEF LifeOf

\* A request that calls the manager.
LEMMA ClientCalls ==
  ASSUME IInv, SessionInv, NEW c \in Clients
  PROVE  /\ SubscribeSeed(c) =>
              /\ SessionInv' /\ \A d \in Clients \ {c} : ClientStays(d)
              /\ request[c].sym \in Symbols /\ SeedSnapshot(c, request[c].sym)
              /\ request[c].kind = "fast"
              /\ UNCHANGED <<session, attached, detaching>>
         /\ SubscribeRetain(c) =>
              /\ SessionInv' /\ \A d \in Clients \ {c} : ClientStays(d)
              /\ request[c].sym \in Symbols /\ Retain(c, request[c].sym, c)
              /\ request[c].kind \in {"fast", "seeded"}
              /\ UNCHANGED <<session, attached, detaching>>
         /\ SubscribeAttach(c) =>
              /\ SessionInv' /\ \A d \in Clients \ {c} : ClientStays(d)
              /\ request[c].sym \in Symbols /\ Attach(c, request[c].sym, c)
              /\ request[c].kind = "attach"
              /\ UNCHANGED <<session, attached, detaching>>
         /\ UnsubscribeAttached(c) =>
              /\ SessionInv' /\ \A d \in Clients \ {c} : ClientStays(d)
              /\ request[c].sym \in Symbols /\ Detach(c, request[c].sym, c)
              /\ request'[c].kind = "unsubscribe"
              /\ attached' = [attached EXCEPT ![c] = @ \ {request[c].sym}]
              /\ UNCHANGED <<session, detaching>>
<1> USE DEF Serving, FastPath, Become
<1>1. SessionTypes /\ LifeOf(c) /\ c \in Threads /\ attached \in [Clients -> SUBSET Symbols]
      /\ subscribed \in [Clients -> SUBSET Symbols]
  BY ThreadFacts DEF SessionInv, SessionTypes
<1>2. ASSUME NEW kind \in {"seeding", "retaining", "attaching"}, request[c].kind # "none",
             request' = [request EXCEPT ![c].kind = kind], OthersStay(c),
             job'[c].op = OpOf(kind), job'[c].sym = request[c].sym,
             job'[c].op # "seed" => job'[c].sub = c,
             UNCHANGED <<starting, session, subscribed, attached, detaching>>
      PROVE  SessionInv' /\ \A d \in Clients \ {c} : ClientStays(d)
  <2>1. kind \in Kinds
    BY DEF Kinds
  <2>2. /\ request' \in [Clients -> Requests]
        /\ request'[c].kind = kind /\ request'[c].sym = request[c].sym
        /\ \A d \in Clients : d # c => request'[d] = request[d]
    BY <1>1, <1>2, <2>1, RequestTypes
  <2>3. ServeOf(c)'
    BY <1>2, <2>2 DEF ServeOf
  <2> QED  BY <1>1, <1>2, <2>2, <2>3, ClientCallKeeps DEF LifeOf
<1>3. ASSUME SubscribeSeed(c)
      PROVE  /\ SessionInv' /\ \A d \in Clients \ {c} : ClientStays(d)
             /\ request[c].sym \in Symbols /\ SeedSnapshot(c, request[c].sym)
             /\ request[c].kind = "fast"
             /\ UNCHANGED <<session, attached, detaching>>
  <2>1. /\ SeedSnapshot(c, request[c].sym) /\ request[c].kind = "fast"
        /\ request' = [request EXCEPT ![c].kind = "seeding"]
        /\ UNCHANGED <<starting, session, subscribed, attached, detaching>>
    BY <1>3 DEF SubscribeSeed
  <2>2. request[c].sym \in Symbols
    BY <1>1, <2>1 DEF LifeOf
  <2>3. OthersStay(c) /\ job'[c].op = "seed" /\ job'[c].sym = request[c].sym
    BY <1>1, <2>1, <2>2, CallBegins
  <2>4. OpOf("seeding") = "seed"
    BY DEF OpOf
  <2> QED  BY <1>2, <2>1, <2>2, <2>3, <2>4
<1>4. ASSUME SubscribeRetain(c)
      PROVE  /\ SessionInv' /\ \A d \in Clients \ {c} : ClientStays(d)
             /\ request[c].sym \in Symbols /\ Retain(c, request[c].sym, c)
             /\ request[c].kind \in {"fast", "seeded"}
             /\ UNCHANGED <<session, attached, detaching>>
  <2>1. /\ Retain(c, request[c].sym, c) /\ request[c].kind \in {"fast", "seeded"}
        /\ request' = [request EXCEPT ![c].kind = "retaining"]
        /\ UNCHANGED <<starting, session, subscribed, attached, detaching>>
    BY <1>4 DEF SubscribeRetain
  <2>2. request[c].sym \in Symbols
    BY <1>1, <2>1 DEF LifeOf
  <2>3. /\ OthersStay(c) /\ job'[c].op = "retain" /\ job'[c].sym = request[c].sym
        /\ job'[c].sub = c
    BY <1>1, <2>1, <2>2, CallBegins
  <2>4. OpOf("retaining") = "retain"
    BY DEF OpOf
  <2> QED  BY <1>2, <2>1, <2>2, <2>3, <2>4
<1>5. ASSUME SubscribeAttach(c)
      PROVE  /\ SessionInv' /\ \A d \in Clients \ {c} : ClientStays(d)
             /\ request[c].sym \in Symbols /\ Attach(c, request[c].sym, c)
             /\ request[c].kind = "attach"
             /\ UNCHANGED <<session, attached, detaching>>
  <2>1. /\ Attach(c, request[c].sym, c) /\ request[c].kind = "attach"
        /\ request' = [request EXCEPT ![c].kind = "attaching"]
        /\ UNCHANGED <<starting, session, subscribed, attached, detaching>>
    BY <1>5 DEF SubscribeAttach
  <2>2. request[c].sym \in Symbols
    BY <1>1, <2>1 DEF LifeOf
  <2>3. /\ OthersStay(c) /\ job'[c].op = "attach" /\ job'[c].sym = request[c].sym
        /\ job'[c].sub = c
    BY <1>1, <2>1, <2>2, CallBegins
  <2>4. OpOf("attaching") = "attach"
    BY DEF OpOf
  <2> QED  BY <1>2, <2>1, <2>2, <2>3, <2>4
<1>6. ASSUME UnsubscribeAttached(c)
      PROVE  /\ SessionInv' /\ \A d \in Clients \ {c} : ClientStays(d)
             /\ request[c].sym \in Symbols /\ Detach(c, request[c].sym, c)
             /\ request'[c].kind = "unsubscribe"
             /\ attached' = [attached EXCEPT ![c] = @ \ {request[c].sym}]
             /\ UNCHANGED <<session, detaching>>
  <2>1. /\ Detach(c, request[c].sym, c) /\ request[c].kind = "unsubscribe"
        /\ subscribed' = [subscribed EXCEPT ![c] = @ \ {request[c].sym}]
        /\ attached' = [attached EXCEPT ![c] = @ \ {request[c].sym}]
        /\ UNCHANGED <<starting, session, request, detaching>>
    BY <1>6 DEF UnsubscribeAttached
  <2>2. request[c].sym \in Symbols
    BY <1>1, <2>1 DEF LifeOf
  <2>3. /\ OthersStay(c) /\ job'[c].op = "detach" /\ job'[c].sym = request[c].sym
        /\ job'[c].sub = c
    BY <1>1, <2>1, <2>2, CallBegins
  <2>4. ServeOf(c)'
    BY <2>1, <2>3 DEF ServeOf, OpOf
  <2>5. /\ subscribed' \in [Clients -> SUBSET Symbols] /\ attached' \in [Clients -> SUBSET Symbols]
        /\ \A d \in Clients \ {c} : attached'[d] = attached[d]
    BY <1>1, <2>1
  <2>6. request' \in [Clients -> Requests] /\ session[c] # "absent"
    BY <1>1, <2>1 DEF SessionTypes, LifeOf
  <2>7. SessionInv' /\ \A d \in Clients \ {c} : ClientStays(d)
    BY <2>1, <2>2, <2>3, <2>4, <2>5, <2>6, ClientCallKeeps
  <2> QED  BY <2>1, <2>2, <2>7
<1> QED  BY <1>3, <1>4, <1>5, <1>6

\* A request whose call returns.
Returns(c) == SeedReturns(c) \/ SubscribeReturns(c) \/ SubscribeRaises(c) \/ UnsubscribeReturns(c)

LEMMA ClientReturns ==
  ASSUME IInv, SessionInv, NEW c \in Clients, Returns(c)
  PROVE  /\ SessionInv' /\ \A d \in Clients \ {c} : ClientStays(d)
         /\ Return(c) /\ UNCHANGED <<session, detaching>>
         /\ request'[c].kind = "none" \/ request[c].kind = "seeding"
         /\ \/ attached' = attached
            \/ /\ attached' = [attached EXCEPT ![c] = @ \cup {request[c].sym}]
               /\ pc[c] = "returned" /\ request[c].kind \in {"attaching", "retaining"}
               /\ request[c].sym \in Symbols
<1>1. SessionTypes /\ LifeOf(c) /\ c \in Threads /\ attached \in [Clients -> SUBSET Symbols]
      /\ subscribed \in [Clients -> SUBSET Symbols]
  BY ThreadFacts DEF SessionInv, SessionTypes
<1>2. /\ Return(c) /\ UNCHANGED <<starting, session, detaching>>
      /\ \/ request' = [request EXCEPT ![c].kind = "seeded"] /\ request[c].kind = "seeding"
         \/ Done(c)
  BY DEF Returns, SeedReturns, SubscribeReturns, SubscribeRaises, UnsubscribeReturns, Become
<1>3. OthersStay(c) /\ pc'[c] = "idle"
  BY <1>1, <1>2, ReturnPlace DEF IInv
<1>4. ServeOf(c)'
  BY <1>3 DEF ServeOf
<1>5. /\ request' \in [Clients -> Requests]
      /\ \A d \in Clients \ {c} : request'[d] = request[d]
      /\ session[c] = "absent" => request'[c].kind = "none"
      /\ request'[c].kind # "none" => request'[c].sym \in Symbols
      /\ request'[c].kind = "none" \/ request[c].kind = "seeding"
  <2>1. CASE Done(c)
    BY <1>1, <2>1, RequestTypes
  <2>2. CASE request' = [request EXCEPT ![c].kind = "seeded"] /\ request[c].kind = "seeding"
    <3>1. "seeded" \in Kinds
      BY DEF Kinds
    <3> QED  BY <1>1, <2>2, <3>1, RequestTypes DEF LifeOf
  <2> QED  BY <1>2, <2>1, <2>2
<1>6. CASE SubscribeReturns(c)
  <2>1. /\ pc[c] = "returned" /\ request[c].kind \in {"attaching", "retaining"}
        /\ attached' = [attached EXCEPT ![c] = @ \cup {request[c].sym}]
        /\ subscribed' = [subscribed EXCEPT ![c] = @ \cup {request[c].sym}]
    BY <1>6 DEF SubscribeReturns
  <2>2. request[c].sym \in Symbols /\ session[c] # "absent"
    BY <1>1, <2>1 DEF LifeOf
  <2>3. /\ subscribed' \in [Clients -> SUBSET Symbols] /\ attached' \in [Clients -> SUBSET Symbols]
        /\ \A d \in Clients \ {c} : attached'[d] = attached[d]
    BY <1>1, <2>1, <2>2
  <2>4. SessionInv' /\ \A d \in Clients \ {c} : ClientStays(d)
    BY <1>2, <1>3, <1>4, <1>5, <2>2, <2>3, ClientCallKeeps
  <2> QED  BY <1>2, <1>5, <2>1, <2>2, <2>4
<1>7. CASE ~SubscribeReturns(c)
  <2>1. UNCHANGED <<attached, subscribed>>
    BY <1>7 DEF Returns, SeedReturns, SubscribeRaises, UnsubscribeReturns
  <2>2. session[c] = "absent" => attached'[c] = {}
    BY <1>1, <2>1 DEF LifeOf
  <2>3. SessionInv' /\ \A d \in Clients \ {c} : ClientStays(d)
    BY <1>1, <1>2, <1>3, <1>4, <1>5, <2>1, <2>2, ClientCallKeeps
  <2> QED  BY <1>2, <1>5, <2>1, <2>3
<1> QED  BY <1>6, <1>7

\* A step of the manager on a worker thread.
LEMMA ClientWorks ==
  ASSUME IInv, SessionInv, NEW c \in Clients, ManagerStep(c)
  PROVE  /\ SessionInv' /\ \A d \in Clients \ {c} : ClientStays(d)
         /\ Step(c) /\ ~Return(c) /\ GoesOn(c) /\ UNCHANGED sessionVars
<1>1. SessionTypes /\ LifeOf(c) /\ ServeOf(c) /\ c \in Threads
  BY ThreadFacts DEF SessionInv
<1>2. Step(c) /\ ~Return(c) /\ UNCHANGED sessionVars
  BY DEF ManagerStep, Return
<1>3. GoesOn(c)
  BY <1>1, <1>2, StepGoesOn DEF IInv
<1>4. ServeOf(c)'
  BY <1>1, <1>2, <1>3 DEF ServeOf, GoesOn, SameCall, sessionVars
<1>5. SessionInv' /\ \A d \in Clients \ {c} : ClientStays(d)
  <2>1. UNCHANGED <<starting, session, subscribed, attached, request, detaching>>
    BY <1>2 DEF sessionVars
  <2>2. OthersStay(c)
    BY <1>3 DEF GoesOn
  <2> QED  BY <1>1, <1>4, <2>1, <2>2, ClientCallKeeps DEF SessionTypes, LifeOf
<1> QED  BY <1>2, <1>3, <1>5

\* What the event loop does after start-up.
LEMMA LoopWorks ==
  ASSUME IInv, SessionInv
  PROVE  /\ \A c \in Clients, s \in Symbols : DisconnectDetach(c, s) =>
              /\ SessionInv' /\ Detach(Loop, s, c) /\ s \in detaching[c]
              /\ detaching' = [detaching EXCEPT ![c] = @ \ {s}]
              /\ UNCHANGED <<starting, session, subscribed, attached, request>>
              /\ OthersStay(Loop)
         /\ \A s \in Symbols : LoopCall(s) =>
              /\ SessionInv' /\ (RawEvent(Loop, s) \/ EvictCheck(Loop, s))
              /\ UNCHANGED sessionVars /\ OthersStay(Loop)
         /\ LoopReturns => SessionInv' /\ Return(Loop) /\ UNCHANGED sessionVars /\ OthersStay(Loop)
         /\ ManagerStep(Loop) =>
              /\ SessionInv' /\ Step(Loop) /\ ~Return(Loop) /\ GoesOn(Loop)
              /\ UNCHANGED sessionVars /\ OthersStay(Loop)
<1>1. Loop \in Threads /\ SessionTypes /\ detaching \in [Clients -> SUBSET Symbols]
  BY ThreadFacts DEF SessionInv, SessionTypes
<1>2. UNCHANGED sessionVars => UNCHANGED <<starting, session, subscribed, attached, request, detaching>>
  BY DEF sessionVars
<1>3. ASSUME NEW c \in Clients, NEW s \in Symbols, DisconnectDetach(c, s)
      PROVE  /\ SessionInv' /\ Detach(Loop, s, c) /\ s \in detaching[c]
             /\ detaching' = [detaching EXCEPT ![c] = @ \ {s}]
             /\ UNCHANGED <<starting, session, subscribed, attached, request>>
             /\ OthersStay(Loop)
  <2>1. /\ Detach(Loop, s, c) /\ s \in detaching[c]
        /\ detaching' = [detaching EXCEPT ![c] = @ \ {s}]
        /\ UNCHANGED <<starting, session, subscribed, attached, request>>
    BY <1>3 DEF DisconnectDetach
  <2>2. OthersStay(Loop) /\ job'[Loop].op = "detach"
    BY <1>1, <2>1, CallBegins
  <2>3. /\ detaching' \in [Clients -> SUBSET Symbols]
        /\ \A d \in Clients : detaching'[d] \subseteq detaching[d]
    BY <1>1, <2>1
  <2> QED  BY <2>1, <2>2, <2>3, LoopCallKeeps
<1>4. ASSUME NEW s \in Symbols, LoopCall(s)
      PROVE  /\ SessionInv' /\ (RawEvent(Loop, s) \/ EvictCheck(Loop, s))
             /\ UNCHANGED sessionVars /\ OthersStay(Loop)
  <2>1. (RawEvent(Loop, s) \/ EvictCheck(Loop, s)) /\ UNCHANGED sessionVars
    BY <1>4 DEF LoopCall
  <2>2. OthersStay(Loop) /\ job'[Loop].op \in {"raw", "evict"}
    BY <1>1, <2>1, CallBegins
  <2> QED  BY <1>1, <1>2, <2>1, <2>2, LoopCallKeeps
<1>5. ASSUME LoopReturns
      PROVE  SessionInv' /\ Return(Loop) /\ UNCHANGED sessionVars /\ OthersStay(Loop)
  <2>1. Return(Loop) /\ UNCHANGED sessionVars
    BY <1>5 DEF LoopReturns
  <2>2. OthersStay(Loop) /\ pc'[Loop] = "idle"
    BY <1>1, <2>1, ReturnPlace DEF IInv
  <2> QED  BY <1>1, <1>2, <2>1, <2>2, LoopCallKeeps
<1>6. ASSUME ManagerStep(Loop)
      PROVE  /\ SessionInv' /\ Step(Loop) /\ ~Return(Loop) /\ GoesOn(Loop)
             /\ UNCHANGED sessionVars /\ OthersStay(Loop)
  <2>1. Step(Loop) /\ ~Return(Loop) /\ UNCHANGED sessionVars
    BY <1>6 DEF ManagerStep, Return
  <2>2. GoesOn(Loop)
    BY <1>1, <2>1, StepGoesOn DEF IInv
  <2>3. OthersStay(Loop) /\ pc[Loop] # "idle" /\ job'[Loop].op = job[Loop].op
    BY <2>2 DEF GoesOn, SameCall
  <2> QED  BY <1>1, <1>2, <2>1, <2>2, <2>3, LoopCallKeeps
<1> QED  BY <1>3, <1>4, <1>5, <1>6

LEMMA GraceOnly ==
  ASSUME SessionInv, UNCHANGED <<pc, job, sessionVars>>
  PROVE  SessionInv' /\ \A c \in Clients : ClientStays(c)
<1>1. UNCHANGED <<starting, session, subscribed, attached, request, detaching>>
  BY DEF sessionVars
<1> QED  BY <1>1 DEF SessionInv, SessionTypes, LifeOf, ServeOf, LoopInv, Started, ClientStays

\* The steps of the gateway, by who takes them.
LEMMA SessionSteps ==
  ASSUME [SessionNext]_allVars
  PROVE  \/ UNCHANGED allVars
         \/ \E s \in StartupSymbols : Startup(s)
         \/ \E c \in Clients :
              \/ Connect(c) \/ Disconnect(c) \/ QuietStep(c)
              \/ SubscribeSeed(c) \/ SubscribeRetain(c) \/ SubscribeAttach(c)
              \/ UnsubscribeAttached(c) \/ Returns(c) \/ ManagerStep(c)
         \/ \E c \in Clients, s \in Symbols : DisconnectDetach(c, s)
         \/ \E s \in Symbols : LoopCall(s)
         \/ LoopReturns
         \/ ManagerStep(Loop)
         \/ \E s \in Symbols : GraceElapses(s) /\ UNCHANGED sessionVars
BY DEF SessionNext, ClientStep, LoopStep, Startup, QuietStep, Returns

LEMMA SessionNextKeeps ==
  ASSUME IInv, SessionInv, [SessionNext]_allVars
  PROVE  SessionInv'
<1>1. CASE UNCHANGED allVars \/ \E s \in Symbols : GraceElapses(s) /\ UNCHANGED sessionVars
  BY <1>1, GraceOnly DEF allVars, vars, GraceElapses
<1>2. ASSUME NEW c \in Clients,
             \/ Connect(c) \/ Disconnect(c) \/ QuietStep(c)
             \/ SubscribeSeed(c) \/ SubscribeRetain(c) \/ SubscribeAttach(c)
             \/ UnsubscribeAttached(c) \/ Returns(c) \/ ManagerStep(c)
      PROVE  SessionInv'
  BY <1>2, ConnectKeeps, QuietStepKeeps, ClientCalls, ClientReturns, ClientWorks
<1>3. CASE \E s \in StartupSymbols : Startup(s)
  BY <1>3, StartupKeeps
<1>4. CASE \/ \E c \in Clients, s \in Symbols : DisconnectDetach(c, s)
           \/ \E s \in Symbols : LoopCall(s)
           \/ LoopReturns
           \/ ManagerStep(Loop)
  BY <1>4, LoopWorks
<1> QED  BY <1>1, <1>2, <1>3, <1>4, SessionSteps

\* The gateway makes no call and takes no step that the manager's specification
\* does not allow.
LEMMA SessionNextIsNext ==
  ASSUME IInv, SessionInv, [SessionNext]_allVars
  PROVE  [Next]_vars
<1>0. Loop \in Threads /\ Clients \subseteq Threads /\ StartupSymbols \subseteq Symbols
      /\ \A c \in Clients : c # Loop
  BY ThreadFacts
<1>1. CASE UNCHANGED allVars
  BY <1>1 DEF allVars
<1>2. ASSUME NEW s \in StartupSymbols, Startup(s)  PROVE [Next]_vars
  <2>1. s \in Symbols
    BY <1>0
  <2>2. SeedSnapshot(Loop, s) \/ Activate(Loop, s) \/ UNCHANGED vars
    BY <1>2 DEF Startup, StartupSeed, StartupActivate, StartupSkip, StartupReseed
  <2> QED  BY <1>0, <2>1, <2>2 DEF Next, Begin
<1>3. ASSUME NEW c \in Clients,
             \/ Connect(c) \/ Disconnect(c) \/ QuietStep(c)
             \/ SubscribeSeed(c) \/ SubscribeRetain(c) \/ SubscribeAttach(c)
             \/ UnsubscribeAttached(c) \/ Returns(c) \/ ManagerStep(c)
      PROVE  [Next]_vars
  <2>1. CASE Connect(c) \/ Disconnect(c) \/ QuietStep(c)
    BY <2>1, QuietStepKeeps DEF Connect, Disconnect
  <2>2. CASE SubscribeSeed(c) \/ SubscribeRetain(c) \/ SubscribeAttach(c) \/ UnsubscribeAttached(c)
    <3>1. PICK s \in Symbols :
            SeedSnapshot(c, s) \/ Retain(c, s, c) \/ Attach(c, s, c) \/ Detach(c, s, c)
      BY <2>2, ClientCalls
    <3>2. Begin(c)
      BY <1>0, <3>1 DEF Begin
    <3> QED  BY <1>0, <3>2 DEF Next
  <2>3. CASE Returns(c) \/ ManagerStep(c)
    <3>1. Step(c)
      BY <2>3, ClientReturns, ClientWorks DEF Step
    <3> QED  BY <1>0, <3>1 DEF Next
  <2> QED  BY <1>3, <2>1, <2>2, <2>3
<1>4. ASSUME NEW c \in Clients, NEW s \in Symbols, DisconnectDetach(c, s)  PROVE [Next]_vars
  <2>1. Begin(Loop)
    BY <1>4 DEF DisconnectDetach, Begin
  <2> QED  BY <1>0, <2>1 DEF Next
<1>5. ASSUME NEW s \in Symbols, LoopCall(s)  PROVE [Next]_vars
  <2>1. Begin(Loop)
    BY <1>5 DEF LoopCall, Begin
  <2> QED  BY <1>0, <2>1 DEF Next
<1>6. CASE LoopReturns \/ ManagerStep(Loop)
  <2>1. Step(Loop)
    BY <1>6 DEF LoopReturns, ManagerStep, Step
  <2> QED  BY <1>0, <2>1 DEF Next
<1>7. CASE \E s \in Symbols : GraceElapses(s) /\ UNCHANGED sessionVars
  BY <1>7 DEF Next
<1> QED  BY <1>1, <1>2, <1>3, <1>4, <1>5, <1>6, <1>7, SessionSteps

LEMMA InitSession == SessionInit => SessionInv
<1> SUFFICES ASSUME SessionInit  PROVE SessionInv
  OBVIOUS
<1>1. NoRequest \in Requests /\ NoRequest.kind = "none"
  BY DEF NoRequest, Requests, Kinds
<1>2. SessionTypes
  BY <1>1 DEF SessionInit, SessionTypes
<1>3. ASSUME NEW c \in Clients  PROVE LifeOf(c) /\ ServeOf(c)
  <2>1. /\ pc[c] = "idle" /\ request[c] = NoRequest /\ session[c] = "absent"
        /\ attached[c] = {} /\ detaching[c] = {}
    BY ThreadFacts DEF SessionInit, Init
  <2> QED  BY <1>1, <2>1 DEF LifeOf, ServeOf
<1>4. LoopInv
  BY ThreadFacts DEF SessionInit, Init, LoopInv
<1> QED  BY <1>2, <1>3, <1>4 DEF SessionInv

LEMMA SpecSessionInv == SessionSpec => [](IInv /\ PathInv /\ SessionInv)
<1>1. SessionInit => IInv /\ PathInv /\ SessionInv
  BY InitIInv, InitPath, InitSession DEF SessionInit
<1>2. IInv /\ PathInv /\ SessionInv /\ [SessionNext]_allVars => (IInv /\ PathInv /\ SessionInv)'
  BY SessionNextKeeps, SessionNextIsNext, NextKeepsIInv, NextKeepsPath
<1> QED  BY <1>1, <1>2, PTL DEF SessionSpec

\* Whatever requests, start-up and disconnects the gateway makes of them, and in
\* whichever order its threads run, the manager's calls are the manager's: all
\* that SymbolRuntime promises holds behind the gateway.
THEOREM SessionsCallManager == SessionSpec => Spec
<1>1. SessionInit => Init
  BY DEF SessionInit
<1>2. IInv /\ SessionInv /\ [SessionNext]_allVars => [Next]_vars
  BY SessionNextIsNext
<1> QED  BY <1>1, <1>2, SpecSessionInv, PTL DEF SessionSpec, Spec

\* Every variable keeps its shape, the sessions' and the manager's.
THEOREM SessionTypeCorrect == SessionSpec => []SessionTypeOK
<1>1. SessionInv /\ TypeOK => SessionTypeOK
  BY DEF SessionInv, SessionTypes, SessionTypeOK
<1> QED  BY <1>1, SpecSessionInv, SessionsCallManager, TypeCorrect, PTL

-----------------------------------------------------------------------------
(* References.  Only a client's own detach and its own failed attach take  *)
(* a reference of it away, and no runtime that is referenced is deleted.   *)

HoldStays(c, s) == Holds(c, s) => Holds(c, s)' /\ runtimes'[s] = runtimes[s]
HoldsStay(c) == \A s \in Symbols : HoldStays(c, s)

LEMMA KeptHolds ==
  ASSUME Kept, NEW c \in Clients
  PROVE  HoldsStay(c)
BY DEF Kept, HoldsStay, HoldStays, Holds

LEMMA DetachHolds ==
  ASSUME IInv, NEW t \in Threads, NEW s \in Symbols, NEW c \in Clients, Detach(t, s, c)
  PROVE  /\ \A d \in Clients : d # c => HoldsStay(d)
         /\ \A u \in Symbols : u # s => HoldStays(c, u)
BY DetachLoses DEF HoldsStay, HoldStays, Holds

LEMMA StepHolds ==
  ASSUME IInv, PathInv, NEW t \in Threads, Step(t)
  PROVE  /\ ~AttachFailed(t) => \A d \in Clients : HoldsStay(d)
         /\ AttachFailed(t) =>
              /\ job[t].op = "attach"
              /\ \A d \in Clients : d # job[t].sub \/ ~job[t].fresh => HoldsStay(d)
              /\ \A d \in Clients, s \in Symbols : s # job[t].sym => HoldStays(d, s)
<1>1. CASE AttachFailed(t)
  <2>1. pc[t] = "failed"
    BY <1>1 DEF AttachFailed, At
  <2>2. Place(t) = "failed"
    BY <2>1 DEF Place
  <2>3. job[t].op = "attach" /\ job[t].obj \in Objects /\ job[t].obj[1] = job[t].sym
    BY <2>1, <2>2 DEF PathInv, PathOf, CallAt
  <2>4. /\ UNCHANGED runtimes
        /\ \A o \in Objects : \A d \in heap[o].subs :
             (~job[t].fresh \/ d # job[t].sub \/ o # job[t].obj) => d \in heap'[o].subs
    BY <1>1, AttachFailedLoses
  <2>5. \A s \in Symbols : runtimes[s] # NoObject => runtimes[s] \in Objects /\ runtimes[s][1] = s
    BY DEF IInv, StoreOK
  <2>6. \A d \in Clients : d # job[t].sub \/ ~job[t].fresh => HoldsStay(d)
    BY <2>4, <2>5 DEF HoldsStay, HoldStays, Holds
  <2>7. \A d \in Clients, s \in Symbols : s # job[t].sym => HoldStays(d, s)
    BY <2>3, <2>4, <2>5 DEF HoldStays, Holds
  <2> QED  BY <1>1, <2>3, <2>6, <2>7
<1>2. CASE MarkAttached(t)
  <2>1. ~AttachFailed(t)
    BY <1>2 DEF AttachFailed, MarkAttached, At
  <2>2. UNCHANGED runtimes /\ \A o \in Objects : heap'[o].subs = heap[o].subs
    BY <1>2, MarkRaises
  <2>3. \A s \in Symbols : runtimes[s] # NoObject => runtimes[s] \in Objects
    BY DEF IInv, StoreOK
  <2> QED  BY <2>1, <2>2, <2>3 DEF HoldsStay, HoldStays, Holds
<1>3. CASE EvictDelete(t)
  <2>1. ~AttachFailed(t)
    BY <1>3 DEF AttachFailed, EvictDelete, At
  <2>2. /\ heap' = heap
        /\ \A s \in Symbols : runtimes[s] # NoObject /\ heap[runtimes[s]].subs # {} =>
             runtimes'[s] = runtimes[s]
    BY <1>3, EvictDeletes
  <2>3. ASSUME NEW d \in Clients, NEW s \in Symbols, Holds(d, s)
        PROVE  Holds(d, s)' /\ runtimes'[s] = runtimes[s]
    <3>1. runtimes[s] # NoObject /\ d \in heap[runtimes[s]].subs
      BY <2>3 DEF Holds
    <3>2. runtimes'[s] = runtimes[s]
      BY <2>2, <3>1
    <3> QED  BY <2>2, <3>1, <3>2 DEF Holds
  <2> QED  BY <2>1, <2>3 DEF HoldsStay, HoldStays
<1>4. CASE ~AttachFailed(t) /\ ~MarkAttached(t) /\ ~EvictDelete(t)
  BY <1>4, StepKeeps, KeptHolds
<1> QED  BY <1>1, <1>2, <1>3, <1>4

LEMMA ReturnHolds ==
  ASSUME IInv, PathInv, NEW t \in Threads, Return(t)
  PROVE  Kept
<1>1. ~AttachFailed(t) /\ ~MarkAttached(t) /\ ~EvictDelete(t) /\ Step(t)
  BY DEF AttachFailed, MarkAttached, EvictDelete, Return, Step, At
<1> QED  BY <1>1, StepKeeps

\* The primed invariant, part by part, of a call whose symbol is s.
LEMMA HoldIntro ==
  ASSUME NEW c \in Clients, NEW s \in Symbols, job'[c].sym = s,
         \A r \in attached'[c] : session'[c] = "open" => Holds(c, r)',
         \A r \in detaching'[c] : request'[c].kind \notin {"none", "unsubscribe"} => Holds(c, r)',
         pc'[c] # "idle" /\ job'[c].op = "retain" /\ session'[c] = "open" => Holds(c, s)',
         Attaching(c)' /\ ~Dropped(c)' /\ (job'[c].fresh \/ session'[c] = "open") =>
           Holds(c, s)' /\ runtimes'[s] = job'[c].obj,
         Attaching(c)' /\ job'[c].fresh =>
           s \notin detaching'[c] /\ (session'[c] = "open" => s \notin attached'[c])
  PROVE  HoldOf(c)'
BY DEF HoldOf, Holds

\* A client that nothing happens to holds what it held.
LEMMA ClientStaysHolding ==
  ASSUME IInv, SessionInv, NEW c \in Clients, HoldOf(c), ClientStays(c), HoldsStay(c)
  PROVE  HoldOf(c)'
<1>1. attached[c] \subseteq Symbols /\ detaching[c] \subseteq Symbols
  BY DEF SessionInv, SessionTypes
<1>2. pc[c] # "idle" => job[c].sym \in Symbols
  BY ThreadFacts DEF IInv, CallsOK
<1>3. \A s \in attached[c] \cup detaching[c] : HoldStays(c, s)
  BY <1>1 DEF HoldsStay
<1>4. /\ pc'[c] = pc[c] /\ job'[c] = job[c] /\ session'[c] = session[c]
      /\ attached'[c] = attached[c] /\ request'[c] = request[c] /\ detaching'[c] = detaching[c]
      /\ Dropped(c)' = Dropped(c) /\ Attaching(c)' = Attaching(c)
  BY DEF ClientStays, Dropped, Place, Attaching
<1>5. /\ \A r \in attached'[c] : session'[c] = "open" => Holds(c, r)'
      /\ \A r \in detaching'[c] : request'[c].kind \notin {"none", "unsubscribe"} => Holds(c, r)'
  BY <1>3, <1>4 DEF HoldOf, HoldStays
<1>6. Attaching(c)' /\ job'[c].fresh =>
        /\ job'[c].sym \notin detaching'[c]
        /\ session'[c] = "open" => job'[c].sym \notin attached'[c]
  BY <1>4 DEF HoldOf
<1>7. CASE pc[c] = "idle"
  BY <1>4, <1>5, <1>7 DEF HoldOf, Attaching
<1>8. CASE pc[c] # "idle"
  <2>1. PICK s \in Symbols : s = job[c].sym
    BY <1>2, <1>8
  <2>2. HoldStays(c, s) /\ job'[c].sym = s
    BY <1>4, <2>1 DEF HoldsStay
  <2>3. pc'[c] # "idle" /\ job'[c].op = "retain" /\ session'[c] = "open" => Holds(c, s)'
    BY <1>4, <2>1, <2>2 DEF HoldOf, HoldStays
  <2>4. Attaching(c)' /\ ~Dropped(c)' /\ (job'[c].fresh \/ session'[c] = "open") =>
          Holds(c, s)' /\ runtimes'[s] = job'[c].obj
    BY <1>4, <2>1, <2>2 DEF HoldOf, HoldStays
  <2> QED  BY <1>5, <1>6, <2>2, <2>3, <2>4, HoldIntro
<1> QED  BY <1>7, <1>8

\* What the step of one client leaves of the others, when it takes nothing of
\* theirs away.
LEMMA OthersHold ==
  ASSUME IInv, SessionInv, HoldInv, NEW c,
         \A d \in Clients \ {c} : ClientStays(d) /\ HoldsStay(d)
  PROVE  \A d \in Clients \ {c} : HoldOf(d)'
BY ClientStaysHolding DEF HoldInv

LEMMA IdleHolds ==
  ASSUME NEW c \in Clients, pc'[c] = "idle",
         \A r \in attached'[c] : session'[c] = "open" => Holds(c, r)',
         \A r \in detaching'[c] : request'[c].kind \notin {"none", "unsubscribe"} => Holds(c, r)'
  PROVE  HoldOf(c)'
BY DEF HoldOf, Attaching

\* A client connects, or is disconnected while its request runs on.
LEMMA ConnectHolds ==
  ASSUME IInv, SessionInv, HoldInv, NEW c \in Clients, Connect(c) \/ Disconnect(c)
  PROVE  HoldInv'
<1>1. UNCHANGED <<runtimes, heap, pc, job>> /\ UNCHANGED <<attached, request>>
  BY DEF Connect, Disconnect, vars
<1>2. \A d \in Clients \ {c} : ClientStays(d) /\ HoldsStay(d)
  BY <1>1, ConnectKeeps DEF HoldsStay, HoldStays, Holds
<1>3. HoldOf(c) /\ LifeOf(c) /\ ServeOf(c) /\ SessionTypes
  BY DEF HoldInv, SessionInv
<1>4. \A r : Holds(c, r)' <=> Holds(c, r)
  BY <1>1 DEF Holds
<1>5. CASE Connect(c)
  <2>1. session[c] = "absent" /\ detaching' = detaching
    BY <1>5 DEF Connect
  <2>2. attached'[c] = {} /\ detaching'[c] = {} /\ pc'[c] = "idle"
    BY <1>1, <1>3, <2>1 DEF LifeOf, ServeOf
  <2>3. HoldOf(c)'
    BY <2>2, IdleHolds
  <2> QED  BY <1>2, <2>3, OthersHold DEF HoldInv
<1>6. CASE Disconnect(c)
  <2>1. session[c] = "open" /\ session'[c] = "gone" /\ detaching'[c] = attached[c]
    BY <1>3, <1>6 DEF Disconnect, SessionTypes
  <2>2. /\ \A r \in attached'[c] : session'[c] = "open" => Holds(c, r)'
        /\ \A r \in detaching'[c] : request'[c].kind \notin {"none", "unsubscribe"} => Holds(c, r)'
    BY <1>3, <1>4, <2>1 DEF HoldOf
  <2>3. CASE pc[c] = "idle"
    <3>1. HoldOf(c)'
      BY <1>1, <2>2, <2>3, IdleHolds
    <3> QED  BY <1>2, <3>1, OthersHold DEF HoldInv
  <2>4. CASE pc[c] # "idle"
    <3>1. PICK s \in Symbols : s = job[c].sym
      BY <2>4, ThreadFacts DEF IInv, CallsOK
    <3>2. /\ Attaching(c)' = Attaching(c) /\ Dropped(c)' = Dropped(c)
          /\ job'[c] = job[c] /\ runtimes' = runtimes
      BY <1>1 DEF Attaching, Dropped, Place
    <3>3. Attaching(c)' /\ ~Dropped(c)' /\ (job'[c].fresh \/ session'[c] = "open") =>
            Holds(c, s)' /\ runtimes'[s] = job'[c].obj
      BY <1>3, <1>4, <2>1, <3>1, <3>2 DEF HoldOf
    <3>4. Attaching(c)' /\ job'[c].fresh =>
            s \notin detaching'[c] /\ (session'[c] = "open" => s \notin attached'[c])
      BY <1>3, <2>1, <3>1, <3>2 DEF HoldOf
    <3>5. job'[c].sym = s
      BY <3>1, <3>2
    <3>6. HoldOf(c)'
      BY <2>1, <2>2, <3>3, <3>4, <3>5, HoldIntro
    <3> QED  BY <1>2, <3>6, OthersHold DEF HoldInv
  <2> QED  BY <2>3, <2>4
<1> QED  BY <1>5, <1>6

LEMMA QuietHolds ==
  ASSUME IInv, SessionInv, HoldInv, NEW c \in Clients, QuietStep(c)
  PROVE  HoldInv'
<1>1. /\ \A d \in Clients \ {c} : ClientStays(d)
      /\ pc[c] = "idle" /\ UNCHANGED <<vars, session, attached, detaching>>
      /\ \/ session[c] = "open" /\ request'[c].kind \in {"subscribe", "unsubscribe"}
         \/ request'[c].kind = "none"
         \/ request[c].kind = "subscribe"
  BY QuietStepKeeps
<1>2. UNCHANGED <<runtimes, heap, pc, job>>
  BY <1>1 DEF vars
<1>3. \A d \in Clients : HoldsStay(d)
  BY <1>2 DEF HoldsStay, HoldStays, Holds
<1>4. HoldOf(c) /\ LifeOf(c)
  BY DEF HoldInv, SessionInv
<1>5. \A r : Holds(c, r)' <=> Holds(c, r)
  BY <1>2 DEF Holds
<1>6. \A r \in attached'[c] : session'[c] = "open" => Holds(c, r)'
  BY <1>1, <1>4, <1>5 DEF HoldOf
<1>7. \A r \in detaching'[c] : request'[c].kind \notin {"none", "unsubscribe"} => Holds(c, r)'
  BY <1>1, <1>4, <1>5 DEF HoldOf, LifeOf
<1>8. HoldOf(c)'
  BY <1>1, <1>2, <1>6, <1>7, IdleHolds
<1> QED  BY <1>1, <1>3, <1>8, OthersHold DEF HoldInv

\* A request that seeds, retains or attaches.
LEMMA SubscribeHolds ==
  ASSUME IInv, SessionInv, HoldInv, NEW c \in Clients,
         SubscribeSeed(c) \/ SubscribeRetain(c) \/ SubscribeAttach(c)
  PROVE  HoldInv'
<1>1. PICK s \in Symbols :
        /\ s = request[c].sym
        /\ SubscribeSeed(c) => SeedSnapshot(c, s)
        /\ SubscribeRetain(c) => Retain(c, s, c)
        /\ SubscribeAttach(c) => Attach(c, s, c)
  BY ClientCalls
<1>2. /\ \A d \in Clients \ {c} : ClientStays(d)
      /\ request[c].kind \in {"fast", "seeded", "attach"}
      /\ UNCHANGED <<session, attached, detaching>>
  BY ClientCalls
<1>3. c \in Threads
  BY ThreadFacts
<1>4. Kept
  BY <1>1, <1>3, CallKeeps
<1>5. \A d \in Clients : HoldsStay(d)
  BY <1>4, KeptHolds
<1>6. HoldOf(c) /\ attached[c] \subseteq Symbols /\ detaching[c] \subseteq Symbols
  BY DEF HoldInv, SessionInv, SessionTypes
<1>7. \A r \in attached'[c] : session'[c] = "open" => Holds(c, r)'
  BY <1>2, <1>5, <1>6 DEF HoldOf, HoldsStay, HoldStays
<1>8. \A r \in detaching'[c] : request'[c].kind \notin {"none", "unsubscribe"} => Holds(c, r)'
  BY <1>2, <1>5, <1>6 DEF HoldOf, HoldsStay, HoldStays
<1>9. job'[c].sym = s
  BY <1>1, <1>3, CallBegins
<1>10. CASE SubscribeSeed(c) \/ SubscribeRetain(c)
  <2>1. job'[c].op \in {"seed", "retain"} /\ (job'[c].op = "retain" => Holds(c, s)')
    BY <1>1, <1>3, <1>10, CallBegins, CallKeeps
  <2>2. ~Attaching(c)'
    BY <2>1 DEF Attaching
  <2>3. HoldOf(c)'
    BY <1>7, <1>8, <1>9, <2>1, <2>2, HoldIntro
  <2> QED  BY <1>2, <1>5, <2>3, OthersHold DEF HoldInv
<1>11. CASE SubscribeAttach(c)
  <2>1. /\ job'[c].op = "attach" /\ job'[c].obj = SetDefault(s)
        /\ job'[c].fresh = (c \notin Fields(s).subs)
    BY <1>1, <1>3, <1>11, CallBegins
  <2>2. Holds(c, s)' /\ runtimes'[s] = SetDefault(s)
    BY <1>1, <1>3, <1>11, CallKeeps
  <2>3. request[c].kind = "attach"
    BY <1>11, ClientCalls
  <2>4. Holds(c, s) => ~job'[c].fresh
    BY <2>1 DEF Holds, Fields
  <2>5. job'[c].fresh =>
          s \notin detaching'[c] /\ (session'[c] = "open" => s \notin attached'[c])
    BY <1>2, <1>6, <2>3, <2>4 DEF HoldOf
  <2>6. HoldOf(c)'
    BY <1>7, <1>8, <1>9, <2>1, <2>2, <2>5, HoldIntro
  <2> QED  BY <1>2, <1>5, <2>6, OthersHold DEF HoldInv
<1> QED  BY <1>10, <1>11

\* An unsubscribe gives back one reference, and the session forgets it first.
LEMMA UnsubscribeHolds ==
  ASSUME IInv, SessionInv, HoldInv, NEW c \in Clients, UnsubscribeAttached(c)
  PROVE  HoldInv'
<1>1. PICK s \in Symbols :
        s = request[c].sym /\ Detach(c, s, c) /\ attached' = [attached EXCEPT ![c] = @ \ {s}]
  BY ClientCalls
<1>2. /\ \A d \in Clients \ {c} : ClientStays(d)
      /\ request'[c].kind = "unsubscribe" /\ UNCHANGED <<session, detaching>>
  BY ClientCalls
<1>3. c \in Threads
  BY ThreadFacts
<1>4. /\ \A d \in Clients \ {c} : HoldsStay(d)
      /\ \A u \in Symbols : u # s => HoldStays(c, u)
  BY <1>1, <1>3, DetachHolds
<1>5. /\ HoldOf(c) /\ attached \in [Clients -> SUBSET Symbols]
  BY DEF HoldInv, SessionInv, SessionTypes
<1>6. \A r \in attached'[c] : r \in attached[c] /\ r # s /\ r \in Symbols
  BY <1>1, <1>5
<1>7. \A r \in attached'[c] : session'[c] = "open" => Holds(c, r)'
  BY <1>2, <1>4, <1>5, <1>6 DEF HoldOf, HoldStays
<1>8. job'[c].sym = s /\ job'[c].op = "detach"
  BY <1>1, <1>3, CallBegins
<1>9. HoldOf(c)'
  BY <1>2, <1>7, <1>8, HoldIntro DEF Attaching
<1> QED  BY <1>2, <1>4, <1>9, OthersHold DEF HoldInv

\* The manager's answer: only a call that kept its reference is recorded.
LEMMA ReturnsHold ==
  ASSUME IInv, PathInv, SessionInv, HoldInv, NEW c \in Clients, Returns(c)
  PROVE  HoldInv'
<1>1. /\ \A d \in Clients \ {c} : ClientStays(d)
      /\ Return(c) /\ UNCHANGED <<session, detaching>>
      /\ request'[c].kind = "none" \/ request[c].kind = "seeding"
  BY ClientReturns
<1>2. c \in Threads
  BY ThreadFacts
<1>3. \A d \in Clients : HoldsStay(d)
  BY <1>1, <1>2, ReturnHolds, KeptHolds
<1>4. pc'[c] = "idle" /\ pc[c] \in {"returned", "raised"}
  BY <1>1, <1>2, ReturnPlace DEF IInv
<1>5. /\ HoldOf(c) /\ ServeOf(c) /\ attached \in [Clients -> SUBSET Symbols]
      /\ attached[c] \subseteq Symbols /\ detaching[c] \subseteq Symbols
  BY DEF HoldInv, SessionInv, SessionTypes
<1>6. \A r \in detaching'[c] : request'[c].kind \notin {"none", "unsubscribe"} => Holds(c, r)'
  BY <1>1, <1>3, <1>5 DEF HoldOf, HoldsStay, HoldStays
<1>7. \A r \in attached[c] : session'[c] = "open" => Holds(c, r)'
  BY <1>1, <1>3, <1>5 DEF HoldOf, HoldsStay, HoldStays
<1>8. \A r \in attached'[c] : session'[c] = "open" => Holds(c, r)'
  <2>1. CASE attached' = attached
    BY <1>7, <2>1
  <2>2. CASE attached' # attached
    <3>1. /\ attached' = [attached EXCEPT ![c] = @ \cup {request[c].sym}]
          /\ pc[c] = "returned" /\ request[c].kind \in {"attaching", "retaining"}
          /\ request[c].sym \in Symbols
      BY <2>2, ClientReturns
    <3>2. PICK s \in Symbols : s = request[c].sym
      BY <3>1
    <3>3. attached'[c] = attached[c] \cup {s}
      BY <1>5, <3>1, <3>2
    <3>4. /\ job[c].sym = s /\ ~Dropped(c)
          /\ job[c].op = "attach" \/ job[c].op = "retain"
      BY <1>5, <3>1, <3>2 DEF ServeOf, OpOf, Dropped, Place
    <3>5. session[c] = "open" => Holds(c, s)
      BY <1>5, <3>1, <3>4 DEF HoldOf, Attaching
    <3>6. session'[c] = "open" => Holds(c, s)'
      BY <1>1, <1>3, <3>5 DEF HoldsStay, HoldStays
    <3> QED  BY <1>7, <3>3, <3>6
  <2> QED  BY <2>1, <2>2
<1>9. HoldOf(c)'
  BY <1>4, <1>6, <1>8, IdleHolds
<1> QED  BY <1>1, <1>3, <1>9, OthersHold DEF HoldInv

\* A step of the manager on a worker thread: an attach that fails gives back
\* only the reference it took, which nobody counts on.
LEMMA WorkHolds ==
  ASSUME IInv, PathInv, SessionInv, HoldInv, NEW c \in Clients, ManagerStep(c)
  PROVE  HoldInv'
<1>1. /\ \A d \in Clients \ {c} : ClientStays(d)
      /\ Step(c) /\ ~Return(c) /\ GoesOn(c)
      /\ UNCHANGED <<session, attached, detaching, request>>
  BY ClientWorks DEF sessionVars
<1>2. c \in Threads /\ HoldOf(c) /\ ServeOf(c)
      /\ attached[c] \subseteq Symbols /\ detaching[c] \subseteq Symbols
  BY ThreadFacts DEF HoldInv, SessionInv, SessionTypes
<1>3. /\ pc[c] # "idle" /\ job'[c].op = job[c].op /\ job'[c].sym = job[c].sym
      /\ job'[c].obj = job[c].obj /\ job'[c].fresh = job[c].fresh
      /\ Dropped(c) \/ AttachFailed(c) => Dropped(c)'
  BY <1>1 DEF GoesOn, SameCall
<1>4. PICK s \in Symbols : s = job[c].sym
  BY <1>2, <1>3 DEF IInv, CallsOK
<1>5. /\ ~AttachFailed(c) => \A d \in Clients : HoldsStay(d)
      /\ AttachFailed(c) =>
           /\ job[c].op = "attach"
           /\ \A d \in Clients : d # job[c].sub \/ ~job[c].fresh => HoldsStay(d)
           /\ \A d \in Clients, r \in Symbols : r # s => HoldStays(d, r)
  BY <1>1, <1>2, <1>4, StepHolds
<1>6. \A d \in Clients \ {c} : HoldsStay(d)
  BY <1>2, <1>3, <1>5 DEF ServeOf
<1>7. Attaching(c)' => Attaching(c)
  BY <1>3 DEF Attaching
<1>8. AttachFailed(c) /\ job[c].fresh => Attaching(c)
  BY <1>3, <1>5 DEF Attaching
<1>9. ASSUME NEW r \in Symbols,
             \/ r \in attached[c] /\ session[c] = "open"
             \/ r \in detaching[c]
      PROVE  HoldStays(c, r)
  <2>1. CASE ~AttachFailed(c) \/ ~job[c].fresh \/ r # s
    BY <1>2, <1>5, <2>1 DEF HoldsStay
  <2>2. CASE AttachFailed(c) /\ job[c].fresh /\ r = s
    BY <1>2, <1>4, <1>8, <1>9, <2>2 DEF HoldOf
  <2> QED  BY <2>1, <2>2
<1>10. \A r \in attached'[c] : session'[c] = "open" => Holds(c, r)'
  BY <1>1, <1>2, <1>9 DEF HoldOf, HoldStays
<1>11. \A r \in detaching'[c] : request'[c].kind \notin {"none", "unsubscribe"} => Holds(c, r)'
  BY <1>1, <1>2, <1>9 DEF HoldOf, HoldStays
<1>12. pc'[c] # "idle" /\ job'[c].op = "retain" /\ session'[c] = "open" => Holds(c, s)'
  BY <1>1, <1>2, <1>3, <1>4, <1>5 DEF HoldOf, HoldsStay, HoldStays
<1>13. Attaching(c)' /\ ~Dropped(c)' /\ (job'[c].fresh \/ session'[c] = "open") =>
         Holds(c, s)' /\ runtimes'[s] = job'[c].obj
  BY <1>1, <1>2, <1>3, <1>4, <1>5, <1>7 DEF HoldOf, HoldsStay, HoldStays
<1>14. Attaching(c)' /\ job'[c].fresh =>
         s \notin detaching'[c] /\ (session'[c] = "open" => s \notin attached'[c])
  BY <1>1, <1>2, <1>3, <1>4, <1>7 DEF HoldOf
<1>15. job'[c].sym = s
  BY <1>3, <1>4
<1>16. HoldOf(c)'
  BY <1>10, <1>11, <1>12, <1>13, <1>14, <1>15, HoldIntro
<1> QED  BY <1>1, <1>6, <1>16, OthersHold DEF HoldInv

\* The event loop detaches, one after the other, what a gone session had.
LEMMA DisconnectHolds ==
  ASSUME IInv, SessionInv, HoldInv, NEW c \in Clients, NEW u \in Symbols, DisconnectDetach(c, u)
  PROVE  HoldInv'
<1>1. /\ Detach(Loop, u, c) /\ u \in detaching[c]
      /\ detaching' = [detaching EXCEPT ![c] = @ \ {u}]
      /\ UNCHANGED <<session, attached, request>>
      /\ OthersStay(Loop)
  BY LoopWorks
<1>2. /\ Loop \in Threads /\ \A d \in Clients : d # Loop /\ d \in Threads
  BY ThreadFacts
<1>3. /\ \A d \in Clients \ {c} : HoldsStay(d)
      /\ \A r \in Symbols : r # u => HoldStays(c, r)
  BY <1>1, <1>2, DetachHolds
<1>4. /\ HoldOf(c) /\ LifeOf(c) /\ detaching \in [Clients -> SUBSET Symbols]
      /\ attached[c] \subseteq Symbols /\ detaching[c] \subseteq Symbols
  BY DEF HoldInv, SessionInv, SessionTypes
<1>5. /\ detaching'[c] = detaching[c] \ {u}
      /\ \A d \in Clients \ {c} : detaching'[d] = detaching[d]
  BY <1>1, <1>4
<1>6. \A d \in Clients : pc'[d] = pc[d] /\ job'[d] = job[d]
  BY <1>1, <1>2 DEF OthersStay
<1>7. \A d \in Clients \ {c} : ClientStays(d)
  BY <1>1, <1>5, <1>6 DEF ClientStays
<1>8. session[c] = "gone" /\ session'[c] = "gone"
  BY <1>1, <1>4 DEF LifeOf
<1>9. \A r \in detaching'[c] : r \in detaching[c] /\ r \in Symbols /\ r # u
  BY <1>4, <1>5
<1>10. \A r \in detaching'[c] : request'[c].kind \notin {"none", "unsubscribe"} => Holds(c, r)'
  BY <1>1, <1>3, <1>4, <1>9 DEF HoldOf, HoldStays
<1>11. HoldOf(c)'
  <2>1. CASE pc[c] = "idle"
    BY <1>6, <1>8, <1>10, <2>1, IdleHolds
  <2>2. CASE pc[c] # "idle"
    <3>1. PICK s \in Symbols : s = job[c].sym
      BY <1>2, <2>2 DEF IInv, CallsOK
    <3>2. /\ Attaching(c)' = Attaching(c) /\ Dropped(c)' = Dropped(c) /\ job'[c] = job[c]
      BY <1>6 DEF Attaching, Dropped, Place
    <3>3. Attaching(c) /\ job[c].fresh => s # u
      BY <1>1, <1>4, <3>1 DEF HoldOf
    <3>4. Attaching(c)' /\ ~Dropped(c)' /\ (job'[c].fresh \/ session'[c] = "open") =>
            Holds(c, s)' /\ runtimes'[s] = job'[c].obj
      BY <1>3, <1>4, <1>8, <3>1, <3>2, <3>3 DEF HoldOf, HoldStays
    <3>5. Attaching(c)' /\ job'[c].fresh =>
            s \notin detaching'[c] /\ (session'[c] = "open" => s \notin attached'[c])
      BY <1>4, <1>8, <1>9, <3>1, <3>2 DEF HoldOf
    <3>6. job'[c].sym = s
      BY <3>1, <3>2
    <3> QED  BY <1>8, <1>10, <3>4, <3>5, <3>6, HoldIntro
  <2> QED  BY <2>1, <2>2
<1> QED  BY <1>3, <1>7, <1>11, OthersHold DEF HoldInv

\* Start-up, raw events, evictions and time take no reference away.
LEMMA LoopHolds ==
  ASSUME IInv, PathInv, SessionInv, HoldInv,
         \/ UNCHANGED allVars
         \/ \E s \in StartupSymbols : Startup(s)
         \/ \E s \in Symbols : LoopCall(s)
         \/ LoopReturns
         \/ ManagerStep(Loop)
         \/ \E s \in Symbols : GraceElapses(s) /\ UNCHANGED sessionVars
  PROVE  HoldInv' /\ \A c \in Clients : ClientStays(c)
<1>1. Loop \in Threads /\ (\A c \in Clients : c # Loop /\ c \in Threads)
      /\ StartupSymbols \subseteq Symbols
  BY ThreadFacts
<1>2. SUFFICES \A c \in Clients : ClientStays(c) /\ HoldsStay(c)
  BY ClientStaysHolding DEF HoldInv
<1>3. CASE UNCHANGED allVars
  BY <1>3 DEF allVars, vars, sessionVars, ClientStays, HoldsStay, HoldStays, Holds
<1>4. ASSUME NEW s \in StartupSymbols, Startup(s)
      PROVE  \A c \in Clients : ClientStays(c) /\ HoldsStay(c)
  <2>1. SeedSnapshot(Loop, s) \/ Activate(Loop, s) \/ UNCHANGED <<heap, runtimes>>
    BY <1>4 DEF Startup, StartupSeed, StartupActivate, StartupSkip, StartupReseed, vars
  <2>2. Kept
    BY <1>1, <2>1, CallKeeps, HeapKept DEF IInv
  <2> QED  BY <1>4, <2>2, StartupKeeps, KeptHolds
<1>5. ASSUME OthersStay(Loop), UNCHANGED sessionVars, \A c \in Clients : HoldsStay(c)
      PROVE  \A c \in Clients : ClientStays(c) /\ HoldsStay(c)
  BY <1>1, <1>5 DEF OthersStay, ClientStays, sessionVars
<1>6. ASSUME NEW s \in Symbols, LoopCall(s)
      PROVE  \A c \in Clients : ClientStays(c) /\ HoldsStay(c)
  <2>1. OthersStay(Loop) /\ UNCHANGED sessionVars /\ (RawEvent(Loop, s) \/ EvictCheck(Loop, s))
    BY <1>6, LoopWorks
  <2>2. Kept
    BY <1>1, <2>1, CallKeeps
  <2> QED  BY <1>5, <2>1, <2>2, KeptHolds
<1>7. CASE LoopReturns
  <2>1. OthersStay(Loop) /\ UNCHANGED sessionVars /\ Return(Loop)
    BY <1>7, LoopWorks
  <2>2. Kept
    BY <1>1, <2>1, ReturnHolds
  <2> QED  BY <1>5, <2>1, <2>2, KeptHolds
<1>8. CASE ManagerStep(Loop)
  <2>1. OthersStay(Loop) /\ UNCHANGED sessionVars /\ Step(Loop) /\ GoesOn(Loop)
    BY <1>8, LoopWorks
  <2>2. job[Loop].op # "attach"
    BY <2>1 DEF SessionInv, LoopInv, GoesOn
  <2>3. \A c \in Clients : HoldsStay(c)
    BY <1>1, <2>1, <2>2, StepHolds
  <2> QED  BY <1>5, <2>1, <2>3
<1>9. ASSUME NEW s \in Symbols, GraceElapses(s), UNCHANGED sessionVars
      PROVE  \A c \in Clients : ClientStays(c) /\ HoldsStay(c)
  <2>1. Kept
    BY <1>9, GraceKeeps
  <2>2. UNCHANGED <<pc, job>>
    BY <1>9 DEF GraceElapses
  <2> QED  BY <1>9, <2>1, <2>2, GraceOnly, KeptHolds
<1> QED  BY <1>3, <1>4, <1>6, <1>7, <1>8, <1>9

LEMMA SessionNextHolds ==
  ASSUME IInv, PathInv, SessionInv, HoldInv, [SessionNext]_allVars
  PROVE  HoldInv'
<1>1. ASSUME NEW c \in Clients,
             \/ Connect(c) \/ Disconnect(c) \/ QuietStep(c)
             \/ SubscribeSeed(c) \/ SubscribeRetain(c) \/ SubscribeAttach(c)
             \/ UnsubscribeAttached(c) \/ Returns(c) \/ ManagerStep(c)
      PROVE  HoldInv'
  BY <1>1, ConnectHolds, QuietHolds, SubscribeHolds, UnsubscribeHolds, ReturnsHold, WorkHolds
<1> QED  BY <1>1, LoopHolds, DisconnectHolds, SessionSteps

LEMMA SpecHoldInv == SessionSpec => [](IInv /\ PathInv /\ SessionInv /\ HoldInv)
<1>1. SessionInit => HoldInv
  BY ThreadFacts DEF SessionInit, Init, HoldInv, HoldOf, Attaching
<1>2. IInv /\ PathInv /\ SessionInv /\ HoldInv /\ [SessionNext]_allVars => HoldInv'
  BY SessionNextHolds
<1> QED  BY <1>1, <1>2, SpecSessionInv, PTL DEF SessionSpec

\* What a registered session believes it has attached is a reference the current
\* runtime of the symbol counts.
THEOREM AttachedIsReferencedHolds == SessionSpec => []AttachedIsReferenced
<1>1. HoldInv => AttachedIsReferenced
  BY DEF HoldInv, HoldOf, AttachedIsReferenced
<1> QED  BY <1>1, SpecHoldInv, PTL

-----------------------------------------------------------------------------
(* At most one attach of a symbol is the first, and no two threads are     *)
(* between the check of the flag and its rise.                             *)

LEMMA FirstsStay ==
  ASSUME OneFirst,
         \A d \in Clients : Firsts(d)' => Firsts(d) /\ job'[d].sym = job[d].sym
  PROVE  OneFirst'
BY DEF OneFirst

\* The first attach of a symbol finds no reference, an attach under way has one.
LEMMA AttachIsFirst ==
  ASSUME IInv, PathInv, SessionInv, HoldInv, OneFirst, NEW c \in Clients, SubscribeAttach(c)
  PROVE  OneFirst'
<1>1. PICK s \in Symbols : s = request[c].sym /\ Attach(c, s, c)
  BY ClientCalls
<1>2. /\ \A d \in Clients \ {c} : ClientStays(d)
      /\ c \in Threads
  BY ClientCalls, ThreadFacts
<1>3. job'[c].sym = s /\ job'[c].first = (Fields(s).subs = {})
  BY <1>1, <1>2, CallBegins
<1>4. \A d \in Clients : Holds(d, s) => ~job'[c].first
  BY <1>3 DEF Holds, Fields
<1>5. ASSUME NEW d \in Clients, Firsts(d), job[d].sym = s  PROVE Holds(d, s)
  <2>1. job[d].fresh
    BY <1>5, ThreadFacts DEF Firsts, PathInv, PathOf
  <2> QED  BY <1>5, <2>1 DEF Firsts, HoldInv, HoldOf
<1>6. \A d \in Clients \ {c} : Firsts(d)' = Firsts(d) /\ job'[d] = job[d]
  BY <1>2 DEF ClientStays, Firsts, Attaching, Dropped, Place
<1>7. ASSUME NEW d \in Clients, NEW e \in Clients, Firsts(d)', Firsts(e)',
             job'[d].sym = job'[e].sym
      PROVE  d = e
  <2>1. CASE d # c /\ e # c
    BY <1>6, <1>7, <2>1 DEF OneFirst
  <2>2. ASSUME NEW f \in Clients \ {c}, Firsts(c)', Firsts(f)', job'[f].sym = s  PROVE FALSE
    <3>1. Firsts(f) /\ job[f].sym = s
      BY <1>6, <2>2
    <3>2. job'[c].first
      BY <2>2 DEF Firsts
    <3> QED  BY <1>4, <1>5, <3>1, <3>2
  <2> QED  BY <1>3, <1>7, <2>1, <2>2
<1> QED  BY <1>7 DEF OneFirst

LEMMA SessionNextFirst ==
  ASSUME IInv, PathInv, SessionInv, HoldInv, OneFirst, [SessionNext]_allVars
  PROVE  OneFirst'
<1>0. \A c \in Clients : c \in Threads /\ c # Loop
  BY ThreadFacts
<1>1. ASSUME NEW c \in Clients, ClientStays(c)
      PROVE  Firsts(c)' => Firsts(c) /\ job'[c].sym = job[c].sym
  BY <1>1 DEF ClientStays, Firsts, Attaching, Dropped, Place
<1>2. ASSUME NEW c \in Clients,
             \/ Connect(c) \/ Disconnect(c) \/ QuietStep(c)
             \/ SubscribeSeed(c) \/ SubscribeRetain(c)
             \/ UnsubscribeAttached(c) \/ Returns(c) \/ ManagerStep(c)
      PROVE  OneFirst'
  <2>1. \A d \in Clients \ {c} : ClientStays(d)
    BY <1>2, ConnectKeeps, QuietStepKeeps, ClientCalls, ClientReturns, ClientWorks
  <2>2. Firsts(c)' => Firsts(c) /\ job'[c].sym = job[c].sym
    <3>1. CASE Connect(c) \/ Disconnect(c) \/ QuietStep(c)
      <4>1. UNCHANGED <<pc, job>>
        BY <3>1, QuietStepKeeps DEF Connect, Disconnect, vars
      <4> QED  BY <4>1 DEF Firsts, Attaching, Dropped, Place
    <3>2. CASE SubscribeSeed(c) \/ SubscribeRetain(c) \/ UnsubscribeAttached(c)
      <4>1. PICK s \in Symbols : SeedSnapshot(c, s) \/ Retain(c, s, c) \/ Detach(c, s, c)
        BY <3>2, ClientCalls
      <4>2. job'[c].op # "attach"
        BY <1>0, <4>1, CallBegins
      <4> QED  BY <4>2 DEF Firsts, Attaching
    <3>3. CASE Returns(c)
      <4>1. pc'[c] = "idle"
        BY <1>0, <3>3, ClientReturns, ReturnPlace DEF IInv
      <4> QED  BY <4>1 DEF Firsts, Attaching
    <3>4. CASE ManagerStep(c)
      <4>1. GoesOn(c)
        BY <3>4, ClientWorks
      <4> QED  BY <4>1 DEF GoesOn, SameCall, Firsts, Attaching
    <3> QED  BY <1>2, <3>1, <3>2, <3>3, <3>4
  <2> QED  BY <1>1, <2>1, <2>2, FirstsStay
<1>3. ASSUME NEW c \in Clients, NEW s \in Symbols, DisconnectDetach(c, s)
      PROVE  OneFirst'
  <2>1. \A d \in Clients : pc'[d] = pc[d] /\ job'[d] = job[d]
    BY <1>0, <1>3, LoopWorks DEF OthersStay
  <2> QED  BY <2>1, FirstsStay DEF Firsts, Attaching, Dropped, Place
<1>4. ASSUME \/ UNCHANGED allVars
             \/ \E s \in StartupSymbols : Startup(s)
             \/ \E s \in Symbols : LoopCall(s)
             \/ LoopReturns
             \/ ManagerStep(Loop)
             \/ \E s \in Symbols : GraceElapses(s) /\ UNCHANGED sessionVars
      PROVE  OneFirst'
  BY <1>1, <1>4, LoopHolds, FirstsStay
<1> QED  BY <1>2, <1>3, <1>4, AttachIsFirst, SessionSteps

LEMMA OneAttacher ==
  ASSUME PathInv, SessionInv, OneFirst, NEW t \in Threads, NEW u \in Threads,
         pc[t] \in AttachLabels, pc[u] \in AttachLabels, job[t].sym = job[u].sym
  PROVE  t = u
<1>1. ASSUME NEW v \in Threads, pc[v] \in AttachLabels
      PROVE  /\ pc[v] # "idle" /\ ~Dropped(v)
             /\ job[v].op \in {"attach", "activate"} /\ (job[v].op = "attach" => job[v].first)
  <2>1. Place(v) = pc[v] /\ pc[v] # "idle" /\ pc[v] # "raised"
    BY <1>1 DEF Place, AttachLabels
  <2>2. CallAt(pc[v], job[v])
    BY <2>1 DEF PathInv, PathOf
  <2> QED  BY <1>1, <2>1, <2>2 DEF CallAt, Dropped
<1>2. ASSUME NEW c \in Clients, pc[c] \in AttachLabels  PROVE Firsts(c) /\ Started
  <2>1. /\ c \in Threads /\ ServeOf(c) /\ LifeOf(c)
    BY ThreadFacts DEF SessionInv
  <2>2. /\ pc[c] # "idle" /\ ~Dropped(c)
        /\ job[c].op \in {"attach", "activate"} /\ (job[c].op = "attach" => job[c].first)
    BY <1>1, <1>2, <2>1
  <2>3. job[c].op = "attach" /\ Started
    BY <2>1, <2>2 DEF ServeOf, LifeOf, OpOf
  <2> QED  BY <2>2, <2>3 DEF Firsts, Attaching
<1>3. ASSUME pc[Loop] \in AttachLabels  PROVE ~Started
  <2>1. pc[Loop] # "idle" /\ job[Loop].op \in {"attach", "activate"}
    BY <1>1, <1>3, ThreadFacts
  <2> QED  BY <2>1 DEF SessionInv, LoopInv, Started
<1> QED  BY <1>2, <1>3 DEF Threads, OneFirst

-----------------------------------------------------------------------------
(* Flags.                                                                  *)

\* No flag is raised, by a write or by a new entry of the dictionary.
Lowered ==
  /\ \A o \in Objects : heap'[o].attached => heap[o].attached
  /\ \A s \in Symbols :
       runtimes'[s] # runtimes[s] => runtimes'[s] = NoObject \/ ~heap'[runtimes'[s]].attached

LEMMA KeptLowers == Kept => Lowered
BY DEF Kept, Lowered

LEMMA BeginLowers ==
  ASSUME IInv, NEW t \in Threads, Begin(t)
  PROVE  /\ Lowered /\ UNCHANGED upstream /\ OthersStay(t)
         /\ pc[t] = "idle" /\ pc'[t] \notin {"hook", "mark", "clear"}
<1>1. PICK s \in Symbols :
        \/ t # Loop /\ Attach(t, s, t)
        \/ t # Loop /\ Retain(t, s, t)
        \/ \E c \in Clients : t \in {c, Loop} /\ Detach(t, s, c)
        \/ Activate(t, s)
        \/ Deactivate(t, s)
        \/ SeedSnapshot(t, s)
        \/ Apply(t, s)
        \/ t = Loop /\ RawEvent(t, s)
        \/ t = Loop /\ EvictCheck(t, s)
  BY DEF Begin
<1>2. t # Loop => t \in Clients
  BY DEF Threads
<1>3. OthersStay(t) /\ pc[t] = "idle" /\ pc'[t] \notin {"hook", "mark", "clear"}
  BY <1>1, <1>2, CallBegins
<1>4. UNCHANGED upstream
  BY <1>1 DEF Attach, Retain, Detach, Activate, Deactivate, SeedSnapshot, Apply, RawEvent,
              EvictCheck, Hydration
<1>5. CASE \/ \E c \in Clients : Attach(t, s, c) \/ Retain(t, s, c)
           \/ Activate(t, s) \/ SeedSnapshot(t, s) \/ RawEvent(t, s) \/ EvictCheck(t, s)
  BY <1>3, <1>4, <1>5, CallKeeps, KeptLowers
<1>6. ASSUME NEW c \in Clients, Detach(t, s, c)  PROVE Lowered
  BY <1>6, DetachLoses DEF Lowered
<1>7. CASE Deactivate(t, s) \/ Apply(t, s)
  <2>1. runtimes[s] # NoObject /\ UNCHANGED runtimes
    BY <1>7 DEF Deactivate, Apply
  <2>2. heap[runtimes[s]] \in Runtime
    BY <2>1, CurrentIsRuntime DEF IInv
  <2>3. PICK r : /\ heap' = [heap EXCEPT ![runtimes[s]] = r]
                 /\ r.attached = heap[runtimes[s]].attached
    <3>1. CASE Deactivate(t, s)
      <4>1. heap' = [heap EXCEPT ![runtimes[s]] = EvictIfUnreferenced(heap[runtimes[s]])]
        BY <3>1 DEF Deactivate
      <4>2. EvictIfUnreferenced(heap[runtimes[s]]).attached = heap[runtimes[s]].attached
        BY <2>2 DEF EvictIfUnreferenced, Runtime
      <4> QED  BY <4>1, <4>2
    <3>2. CASE Apply(t, s)
      <4>1. PICK p \in RawPayloads :
              heap' = [heap EXCEPT ![runtimes[s]] = Sync([heap[runtimes[s]] EXCEPT !.payload = p])]
        BY <3>2 DEF Apply
      <4> DEFINE q == [heap[runtimes[s]] EXCEPT !.payload = p]
      <4>2. q.attached = heap[runtimes[s]].attached /\ q \in Runtime
        BY <2>2, OutcomeAssumption DEF Runtime
      <4> HIDE DEF q
      <4>3. Sync(q).attached = q.attached
        BY <4>2 DEF Sync, Degrade, Runtime
      <4>4. heap' = [heap EXCEPT ![runtimes[s]] = Sync(q)]
        BY <4>1 DEF q
      <4> QED  BY <4>2, <4>3, <4>4
    <3> QED  BY <1>7, <3>1, <3>2
  <2>4. runtimes[s] \in Objects
    BY <2>1 DEF IInv, StoreOK
  <2>5. /\ heap'[runtimes[s]] = r
        /\ \A o \in Objects : o # runtimes[s] => heap'[o] = heap[o]
    BY <2>3, <2>4 DEF IInv, StoreOK
  <2>6. Lowered
    BY <2>1, <2>3, <2>4, <2>5 DEF Lowered
  <2> QED  BY <1>3, <1>4, <2>6
<1> QED  BY <1>1, <1>2, <1>3, <1>4, <1>5, <1>6, <1>7

LEMMA StepLowers ==
  ASSUME IInv, NEW t \in Threads, Step(t), ~MarkAttached(t)
  PROVE  Lowered
<1>1. CASE AttachFailed(t)
  BY <1>1, AttachFailedLoses DEF Lowered
<1>2. CASE EvictDelete(t)
  BY <1>2, EvictDeletes DEF Lowered
<1>3. CASE ~AttachFailed(t) /\ ~EvictDelete(t)
  BY <1>3, StepKeeps, KeptLowers
<1> QED  BY <1>1, <1>2, <1>3

\* Only the hooks subscribe and unsubscribe.
LEMMA OnlyHooks ==
  ASSUME NEW t, Step(t), ~HookAttaches(t), ~HookReleases(t)
  PROVE  UNCHANGED upstream
BY DEF Step, EnsureHydrated, HydrateJoin, HydrateJoined, HydrateNotCold, HydrateRejected,
       HydrateStart, ServiceEnter, LoaderSeeds, LoaderReturns, ServiceLeave, HydrateFinish,
       LeaveEvicting, AttachCheck, HookSkips, HookFails, MarkAttached, Reply, PoolEvicts,
       PoolUnchanged, AttachFailed, SinkWrites, SinkFails, RawRead, RawApply,
       ReleaseNotAttached, ReleaseFails, ClearAttached, EvictDelete, Return

\* Where a call at one of the attach labels is.
LEMMA Attacher ==
  ASSUME IInv, PathInv, NEW t \in Threads, pc[t] \in AttachLabels
  PROVE  /\ job[t].obj \in Objects /\ job[t].sym \in Symbols /\ job[t].obj[1] = job[t].sym
         /\ job[t].op \in {"attach", "activate"}
<1>1. Place(t) = pc[t] /\ pc[t] # "idle"
  BY DEF Place, AttachLabels
<1>2. job[t].op \in {"attach", "activate"}
  BY <1>1 DEF PathInv, PathOf, CallAt
<1> QED  BY <1>1, <1>2 DEF PathInv, PathOf, IInv, CallsOK

\* A step that raises no flag and ends no subscription.
LEMMA LoweredKeepsFlags ==
  ASSUME IInv, PathInv, FlagInv, NEW t \in Threads, OthersStay(t), Lowered,
         upstream \subseteq upstream',
         pc[t] = "clear" => ~heap'[job[t].obj].attached,
         MarkOf(t)'
  PROVE  FlagInv'
<1>1. ASSUME NEW s \in Symbols, runtimes'[s] # NoObject, heap'[runtimes'[s]].attached
      PROVE  s \in upstream' \/ \E u \in Threads : At(u, "clear")' /\ job'[u].obj = runtimes'[s]
  <2>1. runtimes'[s] = runtimes[s]
    BY <1>1 DEF Lowered
  <2>2. runtimes[s] \in Objects
    BY <1>1, <2>1 DEF IInv, StoreOK
  <2>3. heap[runtimes[s]].attached
    BY <1>1, <2>1, <2>2 DEF Lowered
  <2>4. s \in upstream \/ \E u \in Threads : At(u, "clear") /\ job[u].obj = runtimes[s]
    BY <1>1, <2>1, <2>3 DEF FlagInv, FlagIsBacked
  <2>5. CASE s \in upstream
    BY <2>5
  <2>6. ASSUME NEW u \in Threads, At(u, "clear"), job[u].obj = runtimes[s]
        PROVE  At(u, "clear")' /\ job'[u].obj = runtimes'[s]
    <3>1. u # t
      BY <1>1, <2>1, <2>6 DEF At
    <3>2. pc'[u] = pc[u] /\ job'[u] = job[u]
      BY <3>1 DEF OthersStay
    <3> QED  BY <2>1, <2>6, <3>2 DEF At
  <2> QED  BY <2>4, <2>5, <2>6
<1>2. ASSUME NEW u \in Threads, u # t  PROVE MarkOf(u)'
  <2>1. pc'[u] = pc[u] /\ job'[u] = job[u] /\ MarkOf(u)
    BY <1>2 DEF OthersStay, FlagInv
  <2>2. pc[u] \in {"hook", "mark"} => job[u].obj \in Objects
    BY Attacher DEF AttachLabels
  <2> QED  BY <2>1, <2>2 DEF MarkOf, Lowered
<1>3. FlagIsBacked'
  BY <1>1 DEF FlagIsBacked
<1> QED  BY <1>2, <1>3 DEF FlagInv

\* Raising the flag: the hook has subscribed, and nobody else attaches.
LEMMA MarkKeepsFlags ==
  ASSUME IInv, PathInv, SessionInv, OneFirst, FlagInv, NEW t \in Threads, MarkAttached(t)
  PROVE  FlagInv'
<1>1. pc[t] = "mark" /\ pc[t] \in AttachLabels
  BY DEF MarkAttached, At, AttachLabels
<1>2. job[t].obj \in Objects /\ job[t].obj[1] = job[t].sym /\ job[t].sym \in upstream
  BY <1>1, Attacher DEF FlagInv, MarkOf
<1>3. /\ UNCHANGED <<runtimes, upstream>>
      /\ \A o \in Objects : o # job[t].obj => heap'[o] = heap[o]
  BY MarkRaises
<1>4. OthersStay(t) /\ pc'[t] = "reply"
  <2>1. Goto(t, "reply") /\ "reply" \in PCs
    BY DEF MarkAttached, PCs
  <2> QED  BY <2>1, GotoPlace DEF IInv
<1>5. \A s \in Symbols : runtimes[s] # NoObject => runtimes[s] \in Objects /\ runtimes[s][1] = s
  BY DEF IInv, StoreOK
<1>6. ASSUME NEW s \in Symbols, runtimes'[s] # NoObject, heap'[runtimes'[s]].attached
      PROVE  s \in upstream' \/ \E u \in Threads : At(u, "clear")' /\ job'[u].obj = runtimes'[s]
  <2>1. CASE runtimes[s] = job[t].obj
    BY <1>2, <1>3, <1>5, <1>6, <2>1
  <2>2. CASE runtimes[s] # job[t].obj
    <3>1. heap[runtimes[s]].attached
      BY <1>3, <1>5, <1>6, <2>2
    <3>2. s \in upstream \/ \E u \in Threads : At(u, "clear") /\ job[u].obj = runtimes[s]
      BY <1>3, <1>6, <3>1 DEF FlagInv, FlagIsBacked
    <3> QED  BY <1>1, <1>3, <1>4, <3>2 DEF OthersStay, At
  <2> QED  BY <2>1, <2>2
<1>7. ASSUME NEW u \in Threads  PROVE MarkOf(u)'
  <2>1. CASE u = t
    BY <1>4, <2>1 DEF MarkOf
  <2>2. CASE u # t
    <3>1. pc'[u] = pc[u] /\ job'[u] = job[u] /\ MarkOf(u)
      BY <1>4, <2>2 DEF OthersStay, FlagInv
    <3>2. ASSUME pc[u] \in {"hook", "mark"}  PROVE job[u].obj \in Objects /\ job[u].obj # job[t].obj
      <4>1. pc[u] \in AttachLabels
        BY <3>2 DEF AttachLabels
      <4>2. job[u].obj \in Objects /\ job[u].obj[1] = job[u].sym
        BY <4>1, Attacher
      <4>3. job[u].sym # job[t].sym
        BY <1>1, <2>2, <4>1, OneAttacher
      <4> QED  BY <1>2, <4>2, <4>3
    <3> QED  BY <1>3, <3>1, <3>2 DEF MarkOf
  <2> QED  BY <2>1, <2>2
<1>8. FlagIsBacked'
  BY <1>6 DEF FlagIsBacked
<1> QED  BY <1>7, <1>8 DEF FlagInv

\* Releasing: the loop is about to clear the flag, and nobody is about to raise
\* that of the same runtime, whose flag is up.
LEMMA ReleaseKeepsFlags ==
  ASSUME IInv, PathInv, SessionInv, HoldInv, FlagInv, NEW t \in Threads, HookReleases(t)
  PROVE  FlagInv'
<1>1. /\ pc[t] = "release" /\ Mine(t).attached
      /\ upstream' = upstream \ {job[t].sym}
      /\ Goto(t, "clear") /\ UNCHANGED <<runtimes, heap>>
  BY DEF HookReleases, At
<1>2. OthersStay(t) /\ pc'[t] = "clear" /\ job'[t] = job[t]
  <2>1. "clear" \in PCs
    BY DEF PCs
  <2> QED  BY <1>1, <2>1, GotoPlace DEF IInv, Goto
<1>3. t = Loop /\ runtimes[job[t].sym] = job[t].obj
  <2>1. Place(t) = "release" /\ "release" \in EvictLabels
    BY <1>1 DEF Place, EvictLabels
  <2> QED  BY <1>1, <2>1 DEF PathInv, PathOf, CallAt
<1>4. ASSUME NEW s \in Symbols, runtimes'[s] # NoObject, heap'[runtimes'[s]].attached
      PROVE  s \in upstream' \/ \E u \in Threads : At(u, "clear")' /\ job'[u].obj = runtimes'[s]
  <2>1. CASE s = job[t].sym
    BY <1>1, <1>2, <1>3, <2>1 DEF At
  <2>2. CASE s # job[t].sym
    <3>1. s \in upstream \/ \E u \in Threads : At(u, "clear") /\ job[u].obj = runtimes[s]
      BY <1>1, <1>4 DEF FlagInv, FlagIsBacked
    <3> QED  BY <1>1, <1>2, <2>2, <3>1 DEF OthersStay, At
  <2> QED  BY <2>1, <2>2
<1>5. ASSUME NEW u \in Threads  PROVE MarkOf(u)'
  <2>1. CASE u = t
    BY <1>2, <2>1 DEF MarkOf
  <2>2. CASE u # t
    <3>1. pc'[u] = pc[u] /\ job'[u] = job[u] /\ MarkOf(u) /\ u \in Clients
      BY <1>2, <1>3, <2>2 DEF OthersStay, FlagInv, Threads
    <3>2. ASSUME pc[u] = "mark"  PROVE job[u].sym # job[t].sym
      <4>1. /\ pc[u] \in AttachLabels /\ Place(u) = "mark" /\ pc[u] # "idle" /\ ~Dropped(u)
        BY <3>2 DEF AttachLabels, Place, Dropped
      <4>2. ServeOf(u) /\ HoldOf(u) /\ job[u].op \in {"attach", "activate"}
        BY <3>1, <4>1, Attacher DEF SessionInv, HoldInv
      <4>3. job[u].op = "attach"
        BY <4>1, <4>2 DEF ServeOf, OpOf
      <4>4. job[u].fresh
        BY <4>1, <4>3 DEF PathInv, PathOf, CallAt, AttachLabels
      <4>5. runtimes[job[u].sym] = job[u].obj
        BY <4>1, <4>2, <4>3, <4>4 DEF HoldOf, Attaching
      <4>6. ~heap[job[u].obj].attached
        BY <3>1, <3>2 DEF MarkOf
      <4> QED  BY <1>1, <1>3, <4>5, <4>6 DEF Mine
    <3> QED  BY <1>1, <3>1, <3>2 DEF MarkOf
  <2> QED  BY <2>1, <2>2
<1>6. FlagIsBacked'
  BY <1>4 DEF FlagIsBacked
<1> QED  BY <1>5, <1>6 DEF FlagInv

LEMMA StepKeepsFlags ==
  ASSUME IInv, PathInv, FlagInv, NEW t \in Threads, Step(t), ~MarkAttached(t), ~HookReleases(t)
  PROVE  FlagInv'
<1>1. Lowered
  BY StepLowers
<1>2. upstream \subseteq upstream'
  BY OnlyHooks DEF HookAttaches
<1>3. CASE Return(t)
  <2>1. OthersStay(t) /\ pc'[t] = "idle" /\ pc[t] # "clear"
    BY <1>3, ReturnPlace DEF IInv
  <2>2. MarkOf(t)'
    BY <2>1 DEF MarkOf
  <2> QED  BY <1>1, <1>2, <2>1, <2>2, LoweredKeepsFlags
<1>4. CASE ~Return(t)
  <2>1. GoesOn(t)
    BY <1>4, StepGoesOn DEF IInv
  <2>2. OthersStay(t) /\ job'[t].obj = job[t].obj /\ job'[t].sym = job[t].sym
    BY <2>1 DEF GoesOn, SameCall
  <2>3. pc[t] = "clear" => ~heap'[job[t].obj].attached
    <3> SUFFICES ASSUME pc[t] = "clear"  PROVE ~heap'[job[t].obj].attached
      OBVIOUS
    <3>1. ClearAttached(t)
      BY DEF Step, EnsureHydrated, HydrateJoin, HydrateJoined, HydrateNotCold, HydrateRejected,
             HydrateStart, ServiceEnter, LoaderSeeds, LoaderReturns, ServiceLeave, HydrateFinish,
             LeaveEvicting, AttachCheck, HookAttaches, HookSkips, HookFails, MarkAttached, Reply,
             PoolEvicts, PoolUnchanged, AttachFailed, SinkWrites, SinkFails, Resume, RawRead,
             RawApply, ReleaseNotAttached, HookReleases, ReleaseFails, EvictDelete, Return, At
    <3>2. job[t].obj \in Objects /\ heap[job[t].obj] \in Runtime
      BY WorkingThread DEF IInv, StoreOK, Quiet
    <3>3. heap' = [heap EXCEPT ![job[t].obj] = [Mine(t) EXCEPT !.attached = FALSE]]
      BY <3>1 DEF ClearAttached, SetMine
    <3>4. heap'[job[t].obj] = [Mine(t) EXCEPT !.attached = FALSE]
      BY <3>2, <3>3 DEF IInv, StoreOK
    <3> QED  BY <3>2, <3>4 DEF Mine, Runtime
  <2>4. MarkOf(t)'
    <3>1. CASE pc'[t] = "hook"
      <4>1. AttachCheck(t) /\ pc[t] = "attachCheck"
        BY <2>1, <3>1 DEF GoesOn, AttachCheck, At
      <4>2. UNCHANGED heap /\ ~Mine(t).attached
        <5>1. UNCHANGED heap /\ pc' = [pc EXCEPT ![t] = IF Mine(t).attached THEN "reply" ELSE "hook"]
          BY <4>1 DEF AttachCheck, Goto
        <5>2. pc \in [Threads -> PCs]
          BY DEF IInv, CallsOK
        <5> QED  BY <3>1, <5>1, <5>2
      <4> QED  BY <2>2, <3>1, <4>2 DEF MarkOf, Mine
    <3>2. CASE pc'[t] = "mark"
      <4>1. HookAttaches(t)
        BY <2>1, <3>2 DEF GoesOn
      <4>2. pc[t] = "hook" /\ UNCHANGED heap /\ upstream' = upstream \cup {job[t].sym}
        BY <4>1 DEF HookAttaches, At
      <4>3. ~heap[job[t].obj].attached
        BY <4>2 DEF FlagInv, MarkOf
      <4> QED  BY <2>2, <4>2, <4>3 DEF MarkOf
    <3>3. CASE pc'[t] \notin {"hook", "mark"}
      BY <3>3 DEF MarkOf
    <3> QED  BY <3>1, <3>2, <3>3
  <2> QED  BY <1>1, <1>2, <2>2, <2>3, <2>4, LoweredKeepsFlags
<1> QED  BY <1>3, <1>4

LEMMA NextKeepsFlags ==
  ASSUME IInv, PathInv, SessionInv, HoldInv, OneFirst, FlagInv, [Next]_vars
  PROVE  FlagInv'
<1>1. ASSUME NEW t \in Threads, Begin(t)  PROVE FlagInv'
  <2>1. /\ Lowered /\ UNCHANGED upstream /\ OthersStay(t)
        /\ pc[t] = "idle" /\ pc'[t] \notin {"hook", "mark", "clear"}
    BY <1>1, BeginLowers
  <2>2. MarkOf(t)'
    BY <2>1 DEF MarkOf
  <2> QED  BY <2>1, <2>2, LoweredKeepsFlags
<1>2. ASSUME NEW t \in Threads, Step(t)  PROVE FlagInv'
  BY <1>2, MarkKeepsFlags, ReleaseKeepsFlags, StepKeepsFlags
<1>3. CASE UNCHANGED vars
  BY <1>3 DEF vars, FlagInv, FlagIsBacked, MarkOf, At
<1>4. ASSUME NEW s \in Symbols, GraceElapses(s)  PROVE FlagInv'
  <2>1. Lowered
    BY <1>4, GraceKeeps, KeptLowers
  <2>2. UNCHANGED <<pc, job, upstream, runtimes>>
    BY <1>4 DEF GraceElapses
  <2>3. \A o \in Objects : heap'[o].attached => heap[o].attached
    BY <2>1 DEF Lowered
  <2>4. \A t \in Threads : MarkOf(t)'
    <3> SUFFICES ASSUME NEW t \in Threads  PROVE MarkOf(t)'
      OBVIOUS
    <3>1. pc[t] \in {"hook", "mark"} => job[t].obj \in Objects
      BY Attacher DEF AttachLabels
    <3> QED  BY <2>2, <2>3, <3>1 DEF FlagInv, MarkOf
  <2>5. FlagIsBacked'
    <3>1. \A r \in Symbols : runtimes[r] # NoObject => runtimes[r] \in Objects
      BY DEF IInv, StoreOK
    <3> QED  BY <2>2, <2>3, <3>1 DEF FlagInv, FlagIsBacked, At
  <2> QED  BY <2>4, <2>5 DEF FlagInv
<1> QED  BY <1>1, <1>2, <1>3, <1>4 DEF Next

LEMMA SpecFlagInv == SessionSpec => [](OneFirst /\ FlagInv)
<1>1. SessionInit => OneFirst /\ FlagInv
  BY ThreadFacts
  DEF SessionInit, Init, OneFirst, Firsts, Attaching, FlagInv, FlagIsBacked, MarkOf
<1>2. IInv /\ PathInv /\ SessionInv /\ HoldInv /\ OneFirst /\ [SessionNext]_allVars => OneFirst'
  BY SessionNextFirst
<1>3. IInv /\ PathInv /\ SessionInv /\ HoldInv /\ OneFirst /\ FlagInv /\ [SessionNext]_allVars
        => FlagInv'
  BY SessionNextIsNext, NextKeepsFlags
<1> QED  BY <1>1, <1>2, <1>3, SpecHoldInv, PTL DEF SessionSpec

\* The realtime flag of a current runtime is backed by a subscription, but for
\* the moment between the release and the write that clears the flag.
THEOREM FlagIsBackedHolds == SessionSpec => []FlagIsBacked
<1>1. FlagInv => FlagIsBacked
  BY DEF FlagInv
<1> QED  BY <1>1, SpecFlagInv, PTL
=============================================================================
