------------------------ MODULE SymbolRuntimeProofs ------------------------
(***************************************************************************)
(* Theorems about SymbolRuntime for every number of symbols, clients and   *)
(* slots, every capacity and every choice of calls and outcomes: its state *)
(* is well typed, its hydrations are the slots of HydrationSlots, an      *)
(* eviction moves on, and a snapshot is not taken away.                    *)
(***************************************************************************)
EXTENDS SymbolRuntime, FiniteSetTheorems, TLAPS

-----------------------------------------------------------------------------
(* The inductive invariant for types: TypeOK in three parts, and what a    *)
(* call's locals hold at each place it can stand in.                       *)

StoreOK ==
  /\ runtimes \in [Symbols -> Objects \cup {NoObject}]
  /\ \A s \in Symbols : runtimes[s] # NoObject => runtimes[s][1] = s
  /\ heap \in [Objects -> Runtime]

HydrationOK ==
  /\ hydrating \subseteq Symbols
  /\ activeHydrations \in Nat
  /\ loaders \subseteq Symbols
  /\ upstream \subseteq Symbols

\* Places where a thread needs no runtime object any more.
Quiet == {"idle", "returned", "raised"}

CallsOK ==
  /\ pc \in [Threads -> PCs]
  /\ job \in [Threads -> Job]
  /\ \A t \in Threads :
       /\ pc[t] # "idle" => job[t].sym \in Symbols
       /\ \/ pc[t] \in Quiet
          \/ pc[t] = "publish" /\ job[t].next \in Quiet
          \/ job[t].obj \in Objects

IInv == StoreOK /\ HydrationOK /\ CallsOK

-----------------------------------------------------------------------------
(* The operators on runtimes stay within Runtime.                          *)

LEMMA RuntimeOperators ==
  ASSUME NEW r \in Runtime
  PROVE  /\ Degrade(r) \in Runtime
         /\ Sync(r) \in Runtime
         /\ EvictIfUnreferenced(r) \in Runtime
         /\ Unevict(r) \in Runtime
         /\ \A p \in Verdicts : Seeded(r, p) \in Runtime /\ RawApplied(r, p) \in Runtime
         /\ \A c \in Clients : Retained(r, c) \in Runtime
         /\ \A answer \in Verdicts \cup {"none", "error"} : Hydrated(r, answer) \in Runtime
<1> USE DEF Runtime, States, Verdicts
<1>1. \A q \in Runtime : Degrade(q) \in Runtime
  BY DEF Degrade
<1>2. \A q \in Runtime : Sync(q) \in Runtime
  BY <1>1 DEF Sync
<1>3. EvictIfUnreferenced(r) \in Runtime /\ Unevict(r) \in Runtime
  BY DEF EvictIfUnreferenced, Unevict
<1>4. ASSUME NEW p \in Verdicts  PROVE Seeded(r, p) \in Runtime
  <2>1. [r EXCEPT !.payload = p, !.state = IF @ = "COLD" THEN "WARM" ELSE @] \in Runtime
    OBVIOUS
  <2> QED  BY ZenonT(40), <2>1, <1>2 DEF Seeded
<1>5. ASSUME NEW c \in Clients  PROVE Retained(r, c) \in Runtime
  BY DEF Retained
<1>6. ASSUME NEW answer \in Verdicts \cup {"none", "error"}
      PROVE  Hydrated(r, answer) \in Runtime
  <2>1. CASE answer = "error"
    BY <2>1, <1>1, <1>2 DEF Hydrated
  <2>2. CASE answer # "error"
    <3> DEFINE stored == [r EXCEPT !.payload = IF answer = "none" THEN @ ELSE answer,
                                   !.state = "WARM", !.reasons = FALSE]
    <3>1. stored \in Runtime
      BY <2>2
    <3>2. Hydrated(r, answer) = Sync(stored)
      BY <2>2 DEF Hydrated
    <3> HIDE DEF stored
    <3> QED  BY <3>1, <3>2, <1>2
  <2> QED  BY <2>1, <2>2
<1>7. ASSUME NEW p \in Verdicts  PROVE RawApplied(r, p) \in Runtime
  <2> DEFINE synced == Sync([r EXCEPT !.payload = p])
  <2>1. synced \in Runtime
    <3>1. [r EXCEPT !.payload = p] \in Runtime
      OBVIOUS
    <3> QED  BY <3>1, <1>2
  <2> HIDE DEF synced
  <2>2. [synced EXCEPT !.state = IF @ \in {"DEGRADED", "EVICTING"} THEN @ ELSE "LIVE"] \in Runtime
    BY <2>1
  <2> QED  BY <2>2 DEF RawApplied, synced
<1> QED  BY <1>1, <1>2, <1>3, <1>4, <1>5, <1>6, <1>7

-----------------------------------------------------------------------------
(* The dictionary and the heap stay well typed under the ways the actions  *)
(* write them.                                                             *)

LEMMA ColdIsRuntime == ColdRuntime \in Runtime
BY DEF ColdRuntime, Runtime, States

\* setdefault answers an object of the symbol, and its fields.
LEMMA SetDefaultIsObject ==
  ASSUME StoreOK, NEW s \in Symbols, CanSetDefault(s)
  PROVE  SetDefault(s) \in Objects /\ SetDefault(s)[1] = s
<1>1. CASE runtimes[s] # NoObject
  BY <1>1 DEF SetDefault, StoreOK
<1>2. CASE runtimes[s] = NoObject
  <2>1. (CHOOSE k \in FreeSlots(s) : TRUE) \in FreeSlots(s)
    BY <1>2 DEF CanSetDefault
  <2> DEFINE slot == CHOOSE k \in FreeSlots(s) : TRUE
  <2>2. slot \in Slots
    BY <2>1 DEF FreeSlots
  <2>3. SetDefault(s) = <<s, slot>>
    BY <1>2 DEF SetDefault
  <2> HIDE DEF slot
  <2> QED  BY <2>2, <2>3 DEF Objects
<1> QED  BY <1>1, <1>2

LEMMA FieldsAreRuntime ==
  ASSUME StoreOK, NEW s \in Symbols
  PROVE  Fields(s) \in Runtime
BY ColdIsRuntime, ObjectAssumption DEF Fields, StoreOK

LEMMA PutRuntimeStores ==
  ASSUME StoreOK, NEW s \in Symbols, NEW r \in Runtime, PutRuntime(s, r)
  PROVE  StoreOK'
<1>1. SetDefault(s) \in Objects /\ SetDefault(s)[1] = s
  BY SetDefaultIsObject DEF PutRuntime
<1> QED  BY <1>1 DEF StoreOK, PutRuntime

LEMMA SetMineStores ==
  ASSUME StoreOK, NEW t, NEW r \in Runtime, SetMine(t, r), UNCHANGED runtimes
  PROVE  StoreOK'
BY DEF StoreOK, SetMine

LEMMA SetCurrentStores ==
  ASSUME StoreOK, NEW s \in Symbols, runtimes[s] # NoObject, NEW r \in Runtime,
         heap' = [heap EXCEPT ![runtimes[s]] = r], UNCHANGED runtimes
  PROVE  StoreOK'
BY DEF StoreOK

LEMMA CurrentIsRuntime ==
  ASSUME StoreOK, NEW s \in Symbols, runtimes[s] # NoObject
  PROVE  heap[runtimes[s]] \in Runtime
BY DEF StoreOK

-----------------------------------------------------------------------------
(* Program counters and locals stay well typed under the ways the actions  *)
(* move a thread.                                                          *)

LEMMA GotoKeepsCalls ==
  ASSUME CallsOK, NEW t \in Threads, NEW label \in PCs, Goto(t, label),
         label \notin {"idle", "publish"}, pc[t] # "idle",
         label \in Quiet \/ job[t].obj \in Objects
  PROVE  CallsOK'
BY DEF CallsOK, Goto, Quiet

LEMMA PublishKeepsCalls ==
  ASSUME CallsOK, NEW t \in Threads, NEW label \in Continuations, PublishThen(t, label),
         label # "idle", pc[t] # "idle",
         label \in Quiet \/ job[t].obj \in Objects
  PROVE  CallsOK'
<1>1. job' \in [Threads -> Job]
  BY DEF CallsOK, PublishThen, AfterPublish, Job, Continuations
<1>2. pc' \in [Threads -> PCs]
  BY DEF CallsOK, PublishThen, PublishOr, PCs, Continuations
<1>3. ASSUME NEW u \in Threads
      PROVE  /\ pc'[u] # "idle" => job'[u].sym \in Symbols
             /\ \/ pc'[u] \in Quiet
                \/ pc'[u] = "publish" /\ job'[u].next \in Quiet
                \/ job'[u].obj \in Objects
  <2>1. CASE u # t
    BY <2>1 DEF CallsOK, PublishThen
  <2>2. CASE u = t
    <3>1. job'[u].sym = job[u].sym /\ job'[u].obj = job[u].obj /\ job'[u].next = AfterPublish(label)
      BY <2>2 DEF CallsOK, PublishThen, Job
    <3>2. pc'[u] = PublishOr(label)
      BY <2>2 DEF CallsOK, PublishThen
    <3> QED  BY <2>2, <3>1, <3>2 DEF CallsOK, AfterPublish, PublishOr, Quiet
  <2> QED  BY <2>1, <2>2
<1> QED  BY <1>1, <1>2, <1>3 DEF CallsOK

LEMMA EnterKeepsCalls ==
  ASSUME CallsOK, NEW t \in Threads, NEW j \in Job, NEW label \in PCs, Enter(t, j, label),
         label = "idle" \/ j.sym \in Symbols,
         \/ label \in Quiet
         \/ label = "publish" /\ j.next \in Quiet
         \/ j.obj \in Objects
  PROVE  CallsOK'
BY DEF CallsOK, Enter

LEMMA EnterAndPublishKeepsCalls ==
  ASSUME CallsOK, NEW t \in Threads, NEW j \in Job, EnterAndPublish(t, j), j.sym \in Symbols
  PROVE  CallsOK'
<1> DEFINE k == [j EXCEPT !.next = AfterPublish("returned")]
<1>1. k \in Job /\ k.sym \in Symbols /\ k.next = AfterPublish("returned")
  BY DEF Job, AfterPublish, Continuations
<1>2. Enter(t, k, PublishOr("returned"))
  BY DEF EnterAndPublish
<1> HIDE DEF k
<1>3. PublishOr("returned") \in PCs /\ PublishOr("returned") \in {"publish", "returned"}
  BY DEF PublishOr, PCs
<1>4. AfterPublish("returned") \in Quiet
  BY DEF AfterPublish, Quiet
<1> QED  BY <1>1, <1>2, <1>3, <1>4, EnterKeepsCalls DEF Quiet

LEMMA ResumeKeepsCalls ==
  ASSUME CallsOK, NEW t \in Threads, Resume(t)
  PROVE  CallsOK'
<1>1. job' \in [Threads -> Job]
  BY DEF CallsOK, Resume, Job, Continuations
<1>2. pc' \in [Threads -> PCs]
  BY DEF CallsOK, Resume, PCs, Continuations, Job
<1>3. ASSUME NEW u \in Threads
      PROVE  /\ pc'[u] # "idle" => job'[u].sym \in Symbols
             /\ \/ pc'[u] \in Quiet
                \/ pc'[u] = "publish" /\ job'[u].next \in Quiet
                \/ job'[u].obj \in Objects
  <2>1. CASE u # t
    BY <2>1 DEF CallsOK, Resume
  <2>2. CASE u = t
    <3>1. job'[u].sym = job[u].sym /\ job'[u].obj = job[u].obj
      BY <2>2 DEF CallsOK, Resume, Job
    <3>2. pc'[u] = job[u].next /\ pc[u] = "publish"
      BY <2>2 DEF CallsOK, Resume, At
    <3> QED  BY <2>2, <3>1, <3>2 DEF CallsOK, Quiet
  <2> QED  BY <2>1, <2>2
<1> QED  BY <1>1, <1>2, <1>3 DEF CallsOK

-----------------------------------------------------------------------------
(* Every step keeps the invariant.                                         *)

LEMMA BeginKeepsIInv ==
  ASSUME IInv, NEW t \in Threads, Begin(t)
  PROVE  IInv'
<1>1. PICK s \in Symbols :
        \/ t # Loop /\ Attach(t, s, t)
        \/ t # Loop /\ Retain(t, s, t)
        \/ \E c \in Clients : t \in {c, Loop} /\ Detach(t, s, c)
        \/ Activate(t, s)
        \/ Deactivate(t, s)
        \/ SeedSnapshot(t, s)
        \/ Apply(t, s)
        \/ t = Loop /\ RawEvent(t, s)
        \/ t = Loop /\ EvictCheck(t, s)
  BY DEF Begin
<1> USE DEF IInv
<1>2. NoJob \in Job
  BY DEF NoJob, Job, Continuations
<1>3. Fields(s) \in Runtime
  BY FieldsAreRuntime
<1>4. ASSUME t # Loop, Attach(t, s, t)  PROVE IInv'
  <2> DEFINE r == [Fields(s) EXCEPT !.subs = @ \cup {t}]
             j == [NoJob EXCEPT !.op = "attach", !.sym = s, !.sub = t, !.obj = SetDefault(s),
                                !.first = Fields(s).subs = {}, !.fresh = t \notin Fields(s).subs]
  <2>1. r \in Runtime
    BY <1>3, <1>4 DEF Runtime, Threads
  <2>2. PutRuntime(s, r) /\ Enter(t, j, "ensure") /\ UNCHANGED <<Hydration, upstream>>
    BY <1>4 DEF Attach
  <2>3. SetDefault(s) \in Objects
    BY <2>2, SetDefaultIsObject DEF PutRuntime
  <2>4. j \in Job /\ j.sym = s /\ j.obj = SetDefault(s)
    BY <1>4, <2>3 DEF Job, NoJob, Ops, Continuations, Threads
  <2> HIDE DEF r, j
  <2>5. StoreOK'
    BY <2>1, <2>2, PutRuntimeStores
  <2>6. CallsOK'
    BY <2>2, <2>3, <2>4, EnterKeepsCalls DEF PCs
  <2> QED  BY <2>2, <2>5, <2>6 DEF HydrationOK, Hydration
<1>5. ASSUME t # Loop, Retain(t, s, t)  PROVE IInv'
  <2> DEFINE j == [NoJob EXCEPT !.op = "retain", !.sym = s, !.sub = t]
  <2>1. t \in Clients
    BY <1>5 DEF Threads
  <2>2. runtimes[s] # NoObject
    BY <1>5 DEF Retain, Retainable
  <2>3. Retained(heap[runtimes[s]], t) \in Runtime
    BY <2>1, <2>2, CurrentIsRuntime, RuntimeOperators
  <2>4. StoreOK'
    BY <1>5, <2>2, <2>3, SetCurrentStores DEF Retain
  <2>5. j \in Job /\ j.sym \in Symbols
    BY <2>1 DEF Job, NoJob, Ops, Continuations
  <2>6. EnterAndPublish(t, j) /\ UNCHANGED <<runtimes, Hydration, upstream>>
    BY <1>5 DEF Retain
  <2> HIDE DEF j
  <2>7. CallsOK'
    BY <2>5, <2>6, EnterAndPublishKeepsCalls
  <2> QED  BY <2>4, <2>6, <2>7 DEF HydrationOK, Hydration
<1>6. ASSUME NEW c \in Clients, Detach(t, s, c)  PROVE IInv'
  <2> DEFINE r == [Fields(s) EXCEPT !.subs = @ \ {c}]
             j == [NoJob EXCEPT !.op = "detach", !.sym = s, !.sub = c]
  <2>1. r \in Runtime
    BY <1>3 DEF Runtime
  <2>2. j \in Job /\ j.sym \in Symbols
    BY DEF Job, NoJob, Ops, Continuations
  <2>3. /\ PutRuntime(s, EvictIfUnreferenced(r))
        /\ EnterAndPublish(t, j)
        /\ UNCHANGED <<Hydration, upstream>>
    BY <1>6 DEF Detach
  <2> HIDE DEF r, j
  <2>4. EvictIfUnreferenced(r) \in Runtime
    BY <2>1, RuntimeOperators
  <2>5. StoreOK'
    BY <2>3, <2>4, PutRuntimeStores
  <2>6. CallsOK'
    BY <2>2, <2>3, EnterAndPublishKeepsCalls
  <2> QED  BY <2>3, <2>5, <2>6 DEF HydrationOK, Hydration
<1>7. ASSUME Activate(t, s)  PROVE IInv'
  <2> DEFINE j == [NoJob EXCEPT !.op = "activate", !.sym = s, !.obj = SetDefault(s)]
  <2>1. PutRuntime(s, Fields(s)) /\ Enter(t, j, "ensure") /\ UNCHANGED <<Hydration, upstream>>
    BY <1>7 DEF Activate
  <2>2. SetDefault(s) \in Objects
    BY <2>1, SetDefaultIsObject DEF PutRuntime
  <2>3. j \in Job /\ j.sym = s /\ j.obj = SetDefault(s)
    BY <2>2 DEF Job, NoJob, Ops, Continuations
  <2> HIDE DEF j
  <2>4. StoreOK'
    BY <1>3, <2>1, PutRuntimeStores
  <2>5. CallsOK'
    BY <2>1, <2>2, <2>3, EnterKeepsCalls DEF PCs
  <2> QED  BY <2>1, <2>4, <2>5 DEF HydrationOK, Hydration
<1>8. ASSUME Deactivate(t, s)  PROVE IInv'
  <2> DEFINE j == [NoJob EXCEPT !.op = "deactivate", !.sym = s]
  <2>1. EvictIfUnreferenced(heap[runtimes[s]]) \in Runtime
    BY <1>8, CurrentIsRuntime, RuntimeOperators DEF Deactivate
  <2>2. StoreOK'
    BY <1>8, <2>1, SetCurrentStores DEF Deactivate
  <2>3. j \in Job /\ j.sym \in Symbols
    BY DEF Job, NoJob, Ops, Continuations
  <2>4. EnterAndPublish(t, j) /\ UNCHANGED <<runtimes, Hydration, upstream>>
    BY <1>8 DEF Deactivate
  <2> HIDE DEF j
  <2>5. CallsOK'
    BY <2>3, <2>4, EnterAndPublishKeepsCalls
  <2> QED  BY <2>2, <2>4, <2>5 DEF HydrationOK, Hydration
<1>9. ASSUME SeedSnapshot(t, s)  PROVE IInv'
  <2> DEFINE j == [NoJob EXCEPT !.op = "seed", !.sym = s]
  <2>1. PICK p \in SeedPayloads : PutRuntime(s, Seeded(Fields(s), p))
    BY <1>9 DEF SeedSnapshot
  <2>2. Seeded(Fields(s), p) \in Runtime
    BY <1>3, RuntimeOperators, OutcomeAssumption
  <2>3. StoreOK'
    BY <2>1, <2>2, PutRuntimeStores
  <2>4. j \in Job /\ j.sym \in Symbols
    BY DEF Job, NoJob, Ops, Continuations
  <2>5. EnterAndPublish(t, j) /\ UNCHANGED <<Hydration, upstream>>
    BY <1>9 DEF SeedSnapshot
  <2> HIDE DEF j
  <2>6. CallsOK'
    BY <2>4, <2>5, EnterAndPublishKeepsCalls
  <2> QED  BY <2>3, <2>5, <2>6 DEF HydrationOK, Hydration
<1>10. ASSUME Apply(t, s)  PROVE IInv'
  <2> DEFINE j == [NoJob EXCEPT !.op = "apply", !.sym = s]
  <2>1. PICK p \in RawPayloads :
          heap' = [heap EXCEPT ![runtimes[s]] = Sync([@ EXCEPT !.payload = p])]
    BY <1>10 DEF Apply
  <2> DEFINE r == [heap[runtimes[s]] EXCEPT !.payload = p]
  <2>2. heap[runtimes[s]] \in Runtime
    BY <1>10, CurrentIsRuntime DEF Apply
  <2>3. r \in Runtime
    BY <2>2, OutcomeAssumption DEF Runtime
  <2>4. heap' = [heap EXCEPT ![runtimes[s]] = Sync(r)]
    BY <2>1
  <2> HIDE DEF r
  <2>5. Sync(r) \in Runtime
    BY <2>3, RuntimeOperators
  <2>6. StoreOK'
    BY <1>10, <2>4, <2>5, SetCurrentStores DEF Apply
  <2>7. j \in Job /\ j.sym \in Symbols
    BY DEF Job, NoJob, Ops, Continuations
  <2>8. EnterAndPublish(t, j) /\ UNCHANGED <<runtimes, Hydration, upstream>>
    BY <1>10 DEF Apply
  <2> HIDE DEF j
  <2>9. CallsOK'
    BY <2>7, <2>8, EnterAndPublishKeepsCalls
  <2> QED  BY <2>6, <2>8, <2>9 DEF HydrationOK, Hydration
<1>11. ASSUME RawEvent(t, s)  PROVE IInv'
  <2> DEFINE j == [NoJob EXCEPT !.op = "raw", !.sym = s, !.obj = SetDefault(s)]
             label == IF Fields(s).payload = "none" THEN "ensure" ELSE "rawRead"
  <2>1. PutRuntime(s, Fields(s)) /\ Enter(t, j, label) /\ UNCHANGED <<Hydration, upstream>>
    BY <1>11 DEF RawEvent
  <2>2. SetDefault(s) \in Objects
    BY <2>1, SetDefaultIsObject DEF PutRuntime
  <2>3. j \in Job /\ j.sym = s /\ j.obj = SetDefault(s) /\ label \in PCs
    BY <2>2 DEF Job, NoJob, Ops, Continuations, PCs
  <2> HIDE DEF j, label
  <2>4. StoreOK'
    BY <1>3, <2>1, PutRuntimeStores
  <2>5. CallsOK'
    BY <2>1, <2>2, <2>3, EnterKeepsCalls
  <2> QED  BY <2>1, <2>4, <2>5 DEF HydrationOK, Hydration
<1>12. ASSUME EvictCheck(t, s)  PROVE IInv'
  <2> DEFINE j == [NoJob EXCEPT !.op = "evict", !.sym = s, !.obj = runtimes[s]]
  <2>1. /\ runtimes[s] # NoObject
        /\ Enter(t, j, "release")
        /\ UNCHANGED <<runtimes, heap, Hydration, upstream>>
    BY <1>12 DEF EvictCheck
  <2>2. runtimes[s] \in Objects
    BY <2>1 DEF StoreOK
  <2>3. j \in Job /\ j.sym = s /\ j.obj = runtimes[s]
    BY <2>2 DEF Job, NoJob, Ops, Continuations
  <2> HIDE DEF j
  <2>4. CallsOK'
    BY <2>1, <2>2, <2>3, EnterKeepsCalls DEF PCs
  <2> QED  BY <2>1, <2>4 DEF StoreOK, HydrationOK, Hydration
<1> QED  BY <1>1, <1>4, <1>5, <1>6, <1>7, <1>8, <1>9, <1>10, <1>11, <1>12

\* A thread inside a call with an object at hand.
LEMMA WorkingThread ==
  ASSUME IInv, NEW t \in Threads, pc[t] \notin Quiet, pc[t] # "publish"
  PROVE  job[t].sym \in Symbols /\ job[t].obj \in Objects /\ Mine(t) \in Runtime
BY DEF IInv, CallsOK, StoreOK, Mine, Quiet

LEMMA NextLabels ==
  ASSUME NEW j
  PROVE  /\ AfterHydration(j) \in {"rawRead", "unevict"}
         /\ HydrationRaised(j) \in {"failed", "raised"}
BY DEF AfterHydration, HydrationRaised

LEMMA StepKeepsIInv ==
  ASSUME IInv, NEW t \in Threads, Step(t)
  PROVE  IInv'
<1> USE DEF IInv
<1> USE NextLabels
<1>1. ASSUME EnsureHydrated(t)  PROVE IInv'
  <2>1. job[t].obj \in Objects
    BY <1>1, WorkingThread DEF EnsureHydrated, At, Quiet
  <2>2. PICK label \in PCs : Goto(t, label) /\ label \notin {"idle", "publish"}
    BY <1>1 DEF EnsureHydrated, PCs
  <2>3. CallsOK'
    BY <1>1, <2>1, <2>2, GotoKeepsCalls DEF EnsureHydrated, At
  <2> QED  BY <1>1, <2>3 DEF EnsureHydrated, StoreOK, HydrationOK, Hydration
<1>2. ASSUME HydrateJoin(t)  PROVE IInv'
  <2>1. job[t].obj \in Objects
    BY <1>2, WorkingThread DEF HydrateJoin, At, Quiet
  <2>2. PICK label \in PCs : Goto(t, label) /\ label \notin {"idle", "publish"}
    BY <1>2 DEF HydrateJoin, PCs
  <2>3. CallsOK'
    BY <1>2, <2>1, <2>2, GotoKeepsCalls DEF HydrateJoin, At
  <2> QED  BY <1>2, <2>3 DEF HydrateJoin, StoreOK, HydrationOK, Hydration
<1>3. ASSUME HydrateJoined(t)  PROVE IInv'
  <2>1. job[t].obj \in Objects
    BY <1>3, WorkingThread DEF HydrateJoined, At, Quiet
  <2>2. PICK label \in PCs : Goto(t, label) /\ label \notin {"idle", "publish"}
    BY <1>3 DEF HydrateJoined, PCs
  <2>3. CallsOK'
    BY <1>3, <2>1, <2>2, GotoKeepsCalls DEF HydrateJoined, At
  <2> QED  BY <1>3, <2>3 DEF HydrateJoined, StoreOK, HydrationOK, Hydration
<1>4. ASSUME HydrateNotCold(t)  PROVE IInv'
  <2>1. job[t].obj \in Objects
    BY <1>4, WorkingThread DEF HydrateNotCold, At, Quiet
  <2>2. PICK label \in PCs : Goto(t, label) /\ label \notin {"idle", "publish"}
    BY <1>4 DEF HydrateNotCold, PCs
  <2>3. CallsOK'
    BY <1>4, <2>1, <2>2, GotoKeepsCalls DEF HydrateNotCold, At
  <2> QED  BY <1>4, <2>3 DEF HydrateNotCold, StoreOK, HydrationOK, Hydration
<1>5. ASSUME HydrateRejected(t)  PROVE IInv'
  <2>1. job[t].sym \in Symbols /\ job[t].obj \in Objects /\ Mine(t) \in Runtime
    BY <1>5, WorkingThread DEF HydrateRejected, At, Quiet
  <2> DEFINE q == Degrade(Mine(t))
             r == [q EXCEPT !.payload = IF @ = "none" THEN "DEGRADED" ELSE @]
  <2>0. SetMine(t, r)
    BY <1>5 DEF HydrateRejected
  <2>2. q \in Runtime
    BY <2>1, RuntimeOperators
  <2> HIDE DEF q
  <2>6. r \in Runtime
    BY <2>2 DEF Runtime, Verdicts
  <2> HIDE DEF r
  <2>3. StoreOK'
    BY <1>5, <2>0, <2>6, SetMineStores DEF HydrateRejected
  <2>4. PICK label \in Continuations : PublishThen(t, label) /\ label # "idle"
    BY <1>5 DEF HydrateRejected, Continuations
  <2>5. CallsOK'
    BY <1>5, <2>1, <2>4, PublishKeepsCalls DEF HydrateRejected, At
  <2> QED  BY <1>5, <2>1, <2>3, <2>5 DEF HydrateRejected, HydrationOK, Hydration
<1>6. ASSUME HydrateStart(t)  PROVE IInv'
  <2>1. job[t].sym \in Symbols /\ job[t].obj \in Objects /\ Mine(t) \in Runtime
    BY <1>6, WorkingThread DEF HydrateStart, At, Quiet
  <2>2. PICK r \in Runtime : SetMine(t, r)
    BY <1>6, <2>1, RuntimeOperators DEF HydrateStart, Runtime, States, Verdicts
  <2>3. StoreOK'
    BY <1>6, <2>2, SetMineStores DEF HydrateStart
  <2>4. PICK label \in PCs : Goto(t, label) /\ label \notin {"idle", "publish"}
    BY <1>6 DEF HydrateStart, PCs
  <2>5. CallsOK'
    BY <1>6, <2>1, <2>4, GotoKeepsCalls DEF HydrateStart, At
  <2> QED  BY <1>6, <2>1, <2>3, <2>5 DEF HydrateStart, HydrationOK, Hydration
<1>7. ASSUME ServiceEnter(t)  PROVE IInv'
  <2>1. job[t].sym \in Symbols /\ job[t].obj \in Objects
    BY <1>7, WorkingThread DEF ServiceEnter, At, Quiet
  <2>2. CallsOK'
    BY <1>7, <2>1, GotoKeepsCalls DEF ServiceEnter, At, PCs
  <2> QED  BY <1>7, <2>1, <2>2 DEF ServiceEnter, StoreOK, HydrationOK, Hydration
<1>8. ASSUME LoaderSeeds(t)  PROVE IInv'
  <2>1. job[t].sym \in Symbols /\ job[t].obj \in Objects
    BY <1>8, WorkingThread DEF LoaderSeeds, At, Quiet
  <2>2. PICK p \in SeedPayloads : PutRuntime(job[t].sym, Seeded(Fields(job[t].sym), p))
    BY <1>8 DEF LoaderSeeds
  <2>3. Seeded(Fields(job[t].sym), p) \in Runtime
    BY <2>1, FieldsAreRuntime, RuntimeOperators, OutcomeAssumption
  <2>4. StoreOK'
    BY <2>1, <2>2, <2>3, PutRuntimeStores
  <2>5. CallsOK'
    BY <1>8, <2>1, PublishKeepsCalls DEF LoaderSeeds, At, Continuations
  <2> QED  BY <1>8, <2>4, <2>5 DEF LoaderSeeds, HydrationOK, Hydration
<1>9. ASSUME LoaderReturns(t)  PROVE IInv'
  <2>1. job[t].obj \in Objects
    BY <1>9, WorkingThread DEF LoaderReturns, At, Quiet
  <2>2. PICK label \in PCs : Goto(t, label) /\ label \notin {"idle", "publish"}
    BY <1>9 DEF LoaderReturns, PCs
  <2>3. CallsOK'
    BY <1>9, <2>1, <2>2, GotoKeepsCalls DEF LoaderReturns, At
  <2> QED  BY <1>9, <2>3 DEF LoaderReturns, StoreOK, HydrationOK, Hydration
<1>10. ASSUME ServiceLeave(t)  PROVE IInv'
  <2>1. job[t].obj \in Objects
    BY <1>10, WorkingThread DEF ServiceLeave, At, Quiet
  <2>2. PICK label \in PCs : Goto(t, label) /\ label \notin {"idle", "publish"}
    BY <1>10 DEF ServiceLeave, PCs
  <2>3. CallsOK'
    BY <1>10, <2>1, <2>2, GotoKeepsCalls DEF ServiceLeave, At
  <2> QED  BY <1>10, <2>3 DEF ServiceLeave, StoreOK, HydrationOK, Hydration
<1>11. ASSUME HydrateFinish(t)  PROVE IInv'
  <2>1. job[t].sym \in Symbols /\ job[t].obj \in Objects /\ Mine(t) \in Runtime
    BY <1>11, WorkingThread DEF HydrateFinish, At, Quiet
  <2>2. PICK answer \in HydrationResults :
          /\ SetMine(t, Hydrated(Mine(t), answer))
          /\ PublishThen(t, IF answer = "error" THEN HydrationRaised(job[t])
                                                ELSE AfterHydration(job[t]))
    BY <1>11 DEF HydrateFinish
  <2>3. Hydrated(Mine(t), answer) \in Runtime
    BY <2>1, RuntimeOperators, OutcomeAssumption
  <2>4. StoreOK'
    BY <1>11, <2>2, <2>3, SetMineStores DEF HydrateFinish
  <2>5. PICK label \in Continuations : PublishThen(t, label) /\ label # "idle"
    BY <2>2 DEF Continuations
  <2>6. CallsOK'
    BY <1>11, <2>1, <2>5, PublishKeepsCalls DEF HydrateFinish, At
  <2>7. HydrationOK'
    BY <1>11 DEF HydrateFinish, HydrationOK
  <2> QED  BY <2>4, <2>6, <2>7
<1>12. ASSUME LeaveEvicting(t)  PROVE IInv'
  <2>1. job[t].sym \in Symbols /\ job[t].obj \in Objects /\ Mine(t) \in Runtime
    BY <1>12, WorkingThread DEF LeaveEvicting, At, Quiet
  <2>2. PICK r \in Runtime : SetMine(t, r)
    BY <1>12, <2>1, RuntimeOperators DEF LeaveEvicting, Runtime, States, Verdicts
  <2>3. StoreOK'
    BY <1>12, <2>2, SetMineStores DEF LeaveEvicting
  <2>4. PICK label \in PCs : Goto(t, label) /\ label \notin {"idle", "publish"}
    BY <1>12 DEF LeaveEvicting, PCs
  <2>5. CallsOK'
    BY <1>12, <2>1, <2>4, GotoKeepsCalls DEF LeaveEvicting, At
  <2> QED  BY <1>12, <2>1, <2>3, <2>5 DEF LeaveEvicting, HydrationOK, Hydration
<1>13. ASSUME AttachCheck(t)  PROVE IInv'
  <2>1. job[t].obj \in Objects
    BY <1>13, WorkingThread DEF AttachCheck, At, Quiet
  <2>2. PICK label \in PCs : Goto(t, label) /\ label \notin {"idle", "publish"}
    BY <1>13 DEF AttachCheck, PCs
  <2>3. CallsOK'
    BY <1>13, <2>1, <2>2, GotoKeepsCalls DEF AttachCheck, At
  <2> QED  BY <1>13, <2>3 DEF AttachCheck, StoreOK, HydrationOK, Hydration
<1>14. ASSUME HookAttaches(t)  PROVE IInv'
  <2>1. job[t].sym \in Symbols /\ job[t].obj \in Objects
    BY <1>14, WorkingThread DEF HookAttaches, At, Quiet
  <2>2. CallsOK'
    BY <1>14, <2>1, GotoKeepsCalls DEF HookAttaches, At, PCs
  <2> QED  BY <1>14, <2>1, <2>2 DEF HookAttaches, StoreOK, HydrationOK, Hydration
<1>15. ASSUME HookSkips(t)  PROVE IInv'
  <2>1. job[t].obj \in Objects
    BY <1>15, WorkingThread DEF HookSkips, At, Quiet
  <2>2. PICK label \in PCs : Goto(t, label) /\ label \notin {"idle", "publish"}
    BY <1>15 DEF HookSkips, PCs
  <2>3. CallsOK'
    BY <1>15, <2>1, <2>2, GotoKeepsCalls DEF HookSkips, At
  <2> QED  BY <1>15, <2>3 DEF HookSkips, StoreOK, HydrationOK, Hydration
<1>16. ASSUME HookFails(t)  PROVE IInv'
  <2>1. job[t].sym \in Symbols /\ job[t].obj \in Objects /\ Mine(t) \in Runtime
    BY <1>16, WorkingThread DEF HookFails, At, Quiet
  <2>2. PICK r \in Runtime : SetMine(t, r)
    BY <1>16, <2>1, RuntimeOperators DEF HookFails, Runtime, States, Verdicts
  <2>3. StoreOK'
    BY <1>16, <2>2, SetMineStores DEF HookFails
  <2>4. PICK label \in PCs : Goto(t, label) /\ label \notin {"idle", "publish"}
    BY <1>16 DEF HookFails, PCs
  <2>5. CallsOK'
    BY <1>16, <2>1, <2>4, GotoKeepsCalls DEF HookFails, At
  <2> QED  BY <1>16, <2>1, <2>3, <2>5 DEF HookFails, HydrationOK, Hydration
<1>17. ASSUME MarkAttached(t)  PROVE IInv'
  <2>1. job[t].sym \in Symbols /\ job[t].obj \in Objects /\ Mine(t) \in Runtime
    BY <1>17, WorkingThread DEF MarkAttached, At, Quiet
  <2> DEFINE r == [Mine(t) EXCEPT !.attached = TRUE,
                               !.state = IF Mine(t).reasons THEN @ ELSE "LIVE"]
  <2>0. SetMine(t, r)
    BY <1>17 DEF MarkAttached
  <2>2. r \in Runtime
    BY <2>1 DEF Runtime, States
  <2> HIDE DEF r
  <2>3. StoreOK'
    BY <1>17, <2>0, <2>2, SetMineStores DEF MarkAttached
  <2>4. PICK label \in PCs : Goto(t, label) /\ label \notin {"idle", "publish"}
    BY <1>17 DEF MarkAttached, PCs
  <2>5. CallsOK'
    BY <1>17, <2>1, <2>4, GotoKeepsCalls DEF MarkAttached, At
  <2> QED  BY <1>17, <2>1, <2>3, <2>5 DEF MarkAttached, HydrationOK, Hydration
<1>18. ASSUME Reply(t)  PROVE IInv'
  <2>1. job[t].obj \in Objects /\ Mine(t) \in Runtime
    BY <1>18, WorkingThread DEF Reply, At, Quiet
  <2>2. StoreOK'
    <3>1. CASE UNCHANGED heap
      BY <1>18, <3>1 DEF Reply, StoreOK
    <3>2. CASE SetMine(t, [Mine(t) EXCEPT !.state = IF @ = "HYDRATING" THEN "WARM" ELSE @])
      <4>1. [Mine(t) EXCEPT !.state = IF @ = "HYDRATING" THEN "WARM" ELSE @] \in Runtime
        BY <2>1 DEF Runtime, States
      <4> QED  BY <1>18, <3>2, <4>1, SetMineStores DEF Reply
    <3> QED  BY <1>18, <3>1, <3>2 DEF Reply
  <2>3. CallsOK'
    <3>1. CASE Goto(t, "failed")
      BY <1>18, <2>1, <3>1, GotoKeepsCalls DEF Reply, At, PCs
    <3>2. ASSUME NEW label \in {"returned", "poolEvictions"}, PublishThen(t, label)  PROVE CallsOK'
      BY <1>18, <2>1, <3>2, PublishKeepsCalls DEF Reply, At, Continuations
    <3> QED  BY <1>18, <3>1, <3>2 DEF Reply
  <2> QED  BY <1>18, <2>2, <2>3 DEF Reply, HydrationOK, Hydration
<1>19. ASSUME PoolEvicts(t)  PROVE IInv'
  <2>1. job[t].obj \in Objects
    BY <1>19, WorkingThread DEF PoolEvicts, At, Quiet
  <2>2. PICK e \in Symbols \ {job[t].sym} :
          /\ runtimes[e] # NoObject
          /\ heap' = [heap EXCEPT ![runtimes[e]] = EvictIfUnreferenced(@)]
    BY <1>19 DEF PoolEvicts
  <2>3. EvictIfUnreferenced(heap[runtimes[e]]) \in Runtime
    BY <2>2, CurrentIsRuntime, RuntimeOperators
  <2>4. StoreOK'
    BY <1>19, <2>2, <2>3, SetCurrentStores DEF PoolEvicts
  <2>5. CallsOK'
    BY <1>19, <2>1, PublishKeepsCalls DEF PoolEvicts, At, Continuations
  <2> QED  BY <1>19, <2>4, <2>5 DEF PoolEvicts, HydrationOK, Hydration
<1>20. ASSUME PoolUnchanged(t)  PROVE IInv'
  <2>1. job[t].obj \in Objects
    BY <1>20, WorkingThread DEF PoolUnchanged, At, Quiet
  <2>2. PICK label \in PCs : Goto(t, label) /\ label \notin {"idle", "publish"}
    BY <1>20 DEF PoolUnchanged, PCs
  <2>3. CallsOK'
    BY <1>20, <2>1, <2>2, GotoKeepsCalls DEF PoolUnchanged, At
  <2> QED  BY <1>20, <2>3 DEF PoolUnchanged, StoreOK, HydrationOK, Hydration
<1>21. ASSUME AttachFailed(t)  PROVE IInv'
  <2>1. job[t].sym \in Symbols /\ job[t].obj \in Objects /\ Mine(t) \in Runtime
    BY <1>21, WorkingThread DEF AttachFailed, At, Quiet
  <2> DEFINE left == [Mine(t) EXCEPT !.subs = IF job[t].fresh THEN @ \ {job[t].sub} ELSE @]
             r == IF job[t].fresh /\ left.subs = {}
                  THEN [left EXCEPT !.clock = "running"] ELSE left
  <2>0. SetMine(t, r)
    BY <1>21 DEF AttachFailed
  <2>2. left \in Runtime
    BY <2>1 DEF Runtime
  <2> HIDE DEF left
  <2>6. r \in Runtime
    BY <2>2 DEF Runtime
  <2> HIDE DEF r
  <2>3. StoreOK'
    BY <1>21, <2>0, <2>6, SetMineStores DEF AttachFailed
  <2>4. PICK label \in Continuations : PublishThen(t, label) /\ label # "idle"
    BY <1>21 DEF AttachFailed, Continuations
  <2>5. CallsOK'
    BY <1>21, <2>1, <2>4, PublishKeepsCalls DEF AttachFailed, At
  <2> QED  BY <1>21, <2>1, <2>3, <2>5 DEF AttachFailed, HydrationOK, Hydration
<1>22. ASSUME SinkWrites(t)  PROVE IInv'
  <2>1. CallsOK'
    BY <1>22, ResumeKeepsCalls DEF SinkWrites
  <2> QED  BY <1>22, <2>1 DEF SinkWrites, StoreOK, HydrationOK, Hydration
<1>23. ASSUME SinkFails(t)  PROVE IInv'
  <2>1. CallsOK'
    BY <1>23, ResumeKeepsCalls DEF SinkFails
  <2>2. job[t].sym \in Symbols
    BY <1>23 DEF SinkFails, Resume, At, CallsOK
  <2>3. StoreOK'
    <3>1. CASE runtimes[job[t].sym] = NoObject
      BY <1>23, <3>1 DEF SinkFails, StoreOK
    <3>2. CASE runtimes[job[t].sym] # NoObject
      <4>1. Degrade(heap[runtimes[job[t].sym]]) \in Runtime
        BY <2>2, <3>2, CurrentIsRuntime, RuntimeOperators
      <4> QED  BY <1>23, <2>2, <3>2, <4>1, SetCurrentStores DEF SinkFails
    <3> QED  BY <3>1, <3>2
  <2> QED  BY <1>23, <2>1, <2>3 DEF SinkFails, HydrationOK, Hydration
<1>24. ASSUME RawRead(t)  PROVE IInv'
  <2>1. job[t].obj \in Objects
    BY <1>24, WorkingThread DEF RawRead, At, Quiet
  <2>2. PICK label \in PCs : Goto(t, label) /\ label \notin {"idle", "publish"}
    BY <1>24 DEF RawRead, PCs
  <2>3. CallsOK'
    BY <1>24, <2>1, <2>2, GotoKeepsCalls DEF RawRead, At
  <2> QED  BY <1>24, <2>3 DEF RawRead, StoreOK, HydrationOK, Hydration
<1>25. ASSUME RawApply(t)  PROVE IInv'
  <2>1. job[t].sym \in Symbols /\ job[t].obj \in Objects
    BY <1>25, WorkingThread DEF RawApply, At, Quiet
  <2>2. PICK p \in RawPayloads :
          heap' = IF runtimes[job[t].sym] = NoObject THEN heap
                  ELSE [heap EXCEPT ![runtimes[job[t].sym]] = RawApplied(@, p)]
    BY <1>25 DEF RawApply
  <2>3. StoreOK'
    <3>1. CASE runtimes[job[t].sym] = NoObject
      BY <1>25, <2>2, <3>1 DEF RawApply, StoreOK
    <3>2. CASE runtimes[job[t].sym] # NoObject
      <4>1. RawApplied(heap[runtimes[job[t].sym]], p) \in Runtime
        BY <2>1, <3>2, CurrentIsRuntime, RuntimeOperators, OutcomeAssumption
      <4> QED  BY <1>25, <2>1, <2>2, <3>2, <4>1, SetCurrentStores DEF RawApply
    <3> QED  BY <3>1, <3>2
  <2>4. CallsOK'
    BY <1>25, <2>1, PublishKeepsCalls DEF RawApply, At, Continuations, Quiet
  <2> QED  BY <1>25, <2>3, <2>4 DEF RawApply, HydrationOK, Hydration
<1>26. ASSUME ReleaseNotAttached(t)  PROVE IInv'
  <2>1. job[t].obj \in Objects
    BY <1>26, WorkingThread DEF ReleaseNotAttached, At, Quiet
  <2>2. PICK label \in PCs : Goto(t, label) /\ label \notin {"idle", "publish"}
    BY <1>26 DEF ReleaseNotAttached, PCs
  <2>3. CallsOK'
    BY <1>26, <2>1, <2>2, GotoKeepsCalls DEF ReleaseNotAttached, At
  <2> QED  BY <1>26, <2>3 DEF ReleaseNotAttached, StoreOK, HydrationOK, Hydration
<1>27. ASSUME HookReleases(t)  PROVE IInv'
  <2>1. job[t].obj \in Objects
    BY <1>27, WorkingThread DEF HookReleases, At, Quiet
  <2>2. CallsOK'
    BY <1>27, <2>1, GotoKeepsCalls DEF HookReleases, At, PCs
  <2> QED  BY <1>27, <2>2 DEF HookReleases, StoreOK, HydrationOK, Hydration
<1>28. ASSUME ReleaseFails(t)  PROVE IInv'
  <2>1. job[t].sym \in Symbols /\ job[t].obj \in Objects /\ Mine(t) \in Runtime
    BY <1>28, WorkingThread DEF ReleaseFails, At, Quiet
  <2>2. PICK r \in Runtime : SetMine(t, r)
    BY <1>28, <2>1, RuntimeOperators DEF ReleaseFails, Runtime, States, Verdicts
  <2>3. StoreOK'
    BY <1>28, <2>2, SetMineStores DEF ReleaseFails
  <2>4. PICK label \in PCs : Goto(t, label) /\ label \notin {"idle", "publish"}
    BY <1>28 DEF ReleaseFails, PCs
  <2>5. CallsOK'
    BY <1>28, <2>1, <2>4, GotoKeepsCalls DEF ReleaseFails, At
  <2> QED  BY <1>28, <2>1, <2>3, <2>5 DEF ReleaseFails, HydrationOK, Hydration
<1>29. ASSUME ClearAttached(t)  PROVE IInv'
  <2>1. job[t].sym \in Symbols /\ job[t].obj \in Objects /\ Mine(t) \in Runtime
    BY <1>29, WorkingThread DEF ClearAttached, At, Quiet
  <2> DEFINE r == [Mine(t) EXCEPT !.attached = FALSE]
  <2>0. SetMine(t, r)
    BY <1>29 DEF ClearAttached
  <2>2. r \in Runtime
    BY <2>1 DEF Runtime, States
  <2> HIDE DEF r
  <2>3. StoreOK'
    BY <1>29, <2>0, <2>2, SetMineStores DEF ClearAttached
  <2>4. PICK label \in PCs : Goto(t, label) /\ label \notin {"idle", "publish"}
    BY <1>29 DEF ClearAttached, PCs
  <2>5. CallsOK'
    BY <1>29, <2>1, <2>4, GotoKeepsCalls DEF ClearAttached, At
  <2> QED  BY <1>29, <2>1, <2>3, <2>5 DEF ClearAttached, HydrationOK, Hydration
<1>30. ASSUME EvictDelete(t)  PROVE IInv'
  <2>1. job[t].sym \in Symbols /\ job[t].obj \in Objects
    BY <1>30, WorkingThread DEF EvictDelete, At, Quiet
  <2>2. CallsOK'
    BY <1>30, <2>1, GotoKeepsCalls DEF EvictDelete, At, PCs, Quiet
  <2>3. StoreOK'
    BY <1>30, <2>1 DEF EvictDelete, StoreOK
  <2> QED  BY <1>30, <2>2, <2>3 DEF EvictDelete, HydrationOK, Hydration
<1>31. ASSUME Return(t)  PROVE IInv'
  <2>1. NoJob \in Job
    BY DEF NoJob, Job, Continuations
  <2>2. CallsOK'
    BY <1>31, <2>1, EnterKeepsCalls DEF Return, PCs, Quiet
  <2>3. StoreOK'
    BY <1>31, ColdIsRuntime DEF Return, StoreOK
  <2> QED  BY <1>31, <2>2, <2>3 DEF Return, HydrationOK, Hydration
<1> QED  BY <1>1, <1>2, <1>3, <1>4, <1>5, <1>6, <1>7, <1>8, <1>9, <1>10, <1>11, <1>12,
            <1>13, <1>14, <1>15, <1>16, <1>17, <1>18, <1>19, <1>20, <1>21, <1>22, <1>23,
            <1>24, <1>25, <1>26, <1>27, <1>28, <1>29, <1>30, <1>31 DEF Step

LEMMA GraceKeepsIInv ==
  ASSUME IInv, NEW s \in Symbols, GraceElapses(s)
  PROVE  IInv'
<1> DEFINE r == [heap[runtimes[s]] EXCEPT !.clock = "elapsed"]
<1>1. r \in Runtime
  BY CurrentIsRuntime DEF GraceElapses, IInv, Runtime
<1>2. runtimes[s] # NoObject /\ heap' = [heap EXCEPT ![runtimes[s]] = r]
  BY DEF GraceElapses
<1> HIDE DEF r
<1>3. StoreOK'
  BY <1>1, <1>2, SetCurrentStores DEF GraceElapses, IInv
<1> QED  BY <1>3 DEF GraceElapses, IInv, HydrationOK, Hydration, CallsOK

LEMMA InitIInv == Init => IInv
<1> SUFFICES ASSUME Init  PROVE IInv
  OBVIOUS
<1>1. StoreOK
  BY ColdIsRuntime DEF Init, StoreOK
<1>2. HydrationOK
  BY DEF Init, HydrationOK
<1>3. CallsOK
  BY DEF Init, CallsOK, NoJob, Job, PCs, Continuations, Quiet
<1> QED  BY <1>1, <1>2, <1>3 DEF IInv

LEMMA NextKeepsIInv == IInv /\ [Next]_vars => IInv'
<1> SUFFICES ASSUME IInv, [Next]_vars  PROVE IInv'
  OBVIOUS
<1>1. CASE UNCHANGED vars
  BY <1>1 DEF vars, IInv, StoreOK, HydrationOK, CallsOK
<1>2. ASSUME NEW t \in Threads, Begin(t) \/ Step(t)  PROVE IInv'
  BY <1>2, BeginKeepsIInv, StepKeepsIInv
<1>3. ASSUME NEW s \in Symbols, GraceElapses(s)  PROVE IInv'
  BY <1>3, GraceKeepsIInv
<1> QED  BY <1>1, <1>2, <1>3 DEF Next

LEMMA SpecIInv == Spec => []IInv
BY InitIInv, NextKeepsIInv, PTL DEF Spec

\* Type correctness: whatever calls, loaders, hooks and sinks do, every runtime
\* stays a runtime of its symbol and every thread stands where its call may.
THEOREM TypeCorrect == Spec => []TypeOK
<1>1. IInv => TypeOK
  BY DEF IInv, StoreOK, HydrationOK, CallsOK, TypeOK
<1> QED  BY <1>1, SpecIInv, PTL

-----------------------------------------------------------------------------
(* Hydration slots.  SlotInv counts the owners three times over: as Held,  *)
(* as the reservation set and as the counter; each of the three changes by *)
(* one in HydrateStart and HydrateFinish, and in no other action.          *)

SlotInv ==
  /\ \A g, h \in Held : g[2] = h[2] => g = h
  /\ hydrating = {h[2] : h \in Held}
  /\ IsFiniteSet(Held) /\ IsFiniteSet(hydrating)
  /\ activeHydrations = Cardinality(Held)
  /\ activeHydrations = Cardinality(hydrating)
  /\ activeHydrations <= MaxHydrations

OwnerLabels == {"service", "loading", "loaded", "hydrated"}

\* Nobody gains or loses the hydration it owns.
SameOwners ==
  \A u \in Threads : (Owns(u)' <=> Owns(u)) /\ (Owns(u) => job'[u].sym = job[u].sym)

LEMMA SameOwnersHold == SameOwners => Held' = Held
BY DEF SameOwners, Held

\* How a thread may move without touching an ownership.
LEMMA GotoOwners ==
  ASSUME CallsOK, NEW t \in Threads, NEW label \in PCs, Goto(t, label), label # "publish",
         pc[t] # "publish", pc[t] \in OwnerLabels <=> label \in OwnerLabels
  PROVE  SameOwners
BY DEF CallsOK, Goto, SameOwners, Owns, OwnerLabels

LEMMA PublishOwners ==
  ASSUME CallsOK, NEW t \in Threads, NEW label \in Continuations, PublishThen(t, label),
         pc[t] # "publish", pc[t] \in OwnerLabels <=> label = "loaded"
  PROVE  SameOwners
<1> SUFFICES ASSUME NEW u \in Threads
             PROVE  (Owns(u)' <=> Owns(u)) /\ (Owns(u) => job'[u].sym = job[u].sym)
  BY DEF SameOwners
<1>1. CASE u # t
  BY <1>1 DEF CallsOK, PublishThen, Owns
<1>2. CASE u = t
  <2>1. job'[u].sym = job[u].sym /\ job'[u].next = AfterPublish(label)
    BY <1>2 DEF CallsOK, PublishThen, Job
  <2>2. pc'[u] = PublishOr(label)
    BY <1>2 DEF CallsOK, PublishThen
  <2> QED  BY <1>2, <2>1, <2>2 DEF AfterPublish, PublishOr, Owns, OwnerLabels, Continuations
<1> QED  BY <1>1, <1>2

LEMMA EnterOwners ==
  ASSUME CallsOK, NEW t \in Threads, NEW j \in Job, NEW label \in PCs, Enter(t, j, label),
         pc[t] \in Quiet, label \notin OwnerLabels, j.next # "loaded"
  PROVE  SameOwners
BY DEF CallsOK, Enter, SameOwners, Owns, OwnerLabels, Quiet

LEMMA EnterAndPublishOwners ==
  ASSUME CallsOK, NEW t \in Threads, NEW j \in Job, EnterAndPublish(t, j), pc[t] \in Quiet
  PROVE  SameOwners
<1> DEFINE k == [j EXCEPT !.next = AfterPublish("returned")]
<1>1. k \in Job /\ k.next # "loaded"
  BY DEF Job, AfterPublish, Continuations
<1>2. Enter(t, k, PublishOr("returned"))
  BY DEF EnterAndPublish
<1> HIDE DEF k
<1>3. PublishOr("returned") \in PCs /\ PublishOr("returned") \notin OwnerLabels
  BY DEF PublishOr, PCs, OwnerLabels
<1> QED  BY <1>1, <1>2, <1>3, EnterOwners

LEMMA ResumeOwners ==
  ASSUME CallsOK, NEW t \in Threads, Resume(t)
  PROVE  SameOwners
<1> SUFFICES ASSUME NEW u \in Threads
             PROVE  (Owns(u)' <=> Owns(u)) /\ (Owns(u) => job'[u].sym = job[u].sym)
  BY DEF SameOwners
<1>1. CASE u # t
  BY <1>1 DEF CallsOK, Resume, Owns
<1>2. CASE u = t
  <2>1. job'[u].sym = job[u].sym /\ job'[u].next = "idle"
    BY <1>2 DEF CallsOK, Resume, Job
  <2>2. pc'[u] = job[u].next /\ pc[u] = "publish" /\ job[u].next \in Continuations
    BY <1>2 DEF CallsOK, Resume, At, Job
  <2> QED  BY <1>2, <2>1, <2>2 DEF Owns, Continuations
<1> QED  BY <1>1, <1>2


-----------------------------------------------------------------------------
(* Calls begin without a hydration, and all steps but two leave ownership  *)
(* alone.                                                                  *)

LEMMA BeginKeepsOwners ==
  ASSUME IInv, NEW t \in Threads, Begin(t)
  PROVE  SameOwners /\ UNCHANGED <<hydrating, activeHydrations>>
<1>1. PICK s \in Symbols :
        \/ t # Loop /\ Attach(t, s, t)
        \/ t # Loop /\ Retain(t, s, t)
        \/ \E c \in Clients : t \in {c, Loop} /\ Detach(t, s, c)
        \/ Activate(t, s)
        \/ Deactivate(t, s)
        \/ SeedSnapshot(t, s)
        \/ Apply(t, s)
        \/ t = Loop /\ RawEvent(t, s)
        \/ t = Loop /\ EvictCheck(t, s)
  BY DEF Begin
<1> USE DEF IInv
<1>2. ASSUME NEW j, NEW label \in {"ensure", "rawRead", "release"}, Enter(t, j, label),
             j \in Job, j.next = "idle", At(t, "idle")
      PROVE  SameOwners
  BY <1>2, EnterOwners DEF At, Quiet, OwnerLabels, PCs
<1>3. ASSUME NEW j \in Job, EnterAndPublish(t, j), At(t, "idle")
      PROVE  SameOwners
  BY <1>3, EnterAndPublishOwners DEF At, Quiet
<1> USE DEF Job, NoJob, Ops, Continuations, MayCall, Hydration
<1>4. ASSUME t # Loop, Attach(t, s, t)
      PROVE  SameOwners /\ UNCHANGED <<hydrating, activeHydrations>>
  <2> DEFINE j == [NoJob EXCEPT !.op = "attach", !.sym = s, !.sub = t, !.obj = SetDefault(s),
                                !.first = Fields(s).subs = {}, !.fresh = t \notin Fields(s).subs]
  <2>1. SetDefault(s) \in Objects
    BY <1>4, SetDefaultIsObject DEF PutRuntime, Attach
  <2>2. j \in Job /\ j.next = "idle"
    BY <1>4, <2>1 DEF Threads
  <2>3. \E label \in {"ensure", "rawRead", "release"} : Enter(t, j, label)
    BY <1>4 DEF Attach
  <2> HIDE DEF j
  <2> QED  BY <1>4, <2>2, <2>3, <1>2 DEF Attach
<1>5. ASSUME t # Loop, Retain(t, s, t)
      PROVE  SameOwners /\ UNCHANGED <<hydrating, activeHydrations>>
  <2>1. [NoJob EXCEPT !.op = "retain", !.sym = s, !.sub = t] \in Job
    BY <1>5 DEF Threads
  <2> QED  BY <1>5, <2>1, <1>3 DEF Retain
<1>6. ASSUME NEW c \in Clients, Detach(t, s, c)
      PROVE  SameOwners /\ UNCHANGED <<hydrating, activeHydrations>>
  <2>1. [NoJob EXCEPT !.op = "detach", !.sym = s, !.sub = c] \in Job
    BY <1>6 DEF Threads
  <2> QED  BY <1>6, <2>1, <1>3 DEF Detach
<1>7. ASSUME Activate(t, s)
      PROVE  SameOwners /\ UNCHANGED <<hydrating, activeHydrations>>
  <2> DEFINE j == [NoJob EXCEPT !.op = "activate", !.sym = s, !.obj = SetDefault(s)]
  <2>1. SetDefault(s) \in Objects
    BY <1>7, SetDefaultIsObject DEF PutRuntime, Activate
  <2>2. j \in Job /\ j.next = "idle"
    BY <1>7, <2>1 DEF Threads
  <2>3. \E label \in {"ensure", "rawRead", "release"} : Enter(t, j, label)
    BY <1>7 DEF Activate
  <2> HIDE DEF j
  <2> QED  BY <1>7, <2>2, <2>3, <1>2 DEF Activate
<1>8. ASSUME Deactivate(t, s)
      PROVE  SameOwners /\ UNCHANGED <<hydrating, activeHydrations>>
  <2>1. [NoJob EXCEPT !.op = "deactivate", !.sym = s] \in Job
    BY <1>8 DEF Threads
  <2> QED  BY <1>8, <2>1, <1>3 DEF Deactivate
<1>9. ASSUME SeedSnapshot(t, s)
      PROVE  SameOwners /\ UNCHANGED <<hydrating, activeHydrations>>
  <2>1. [NoJob EXCEPT !.op = "seed", !.sym = s] \in Job
    BY <1>9 DEF Threads
  <2> QED  BY <1>9, <2>1, <1>3 DEF SeedSnapshot
<1>10. ASSUME Apply(t, s)
      PROVE  SameOwners /\ UNCHANGED <<hydrating, activeHydrations>>
  <2>1. [NoJob EXCEPT !.op = "apply", !.sym = s] \in Job
    BY <1>10 DEF Threads
  <2> QED  BY <1>10, <2>1, <1>3 DEF Apply
<1>11. ASSUME RawEvent(t, s)
      PROVE  SameOwners /\ UNCHANGED <<hydrating, activeHydrations>>
  <2> DEFINE j == [NoJob EXCEPT !.op = "raw", !.sym = s, !.obj = SetDefault(s)]
  <2>1. SetDefault(s) \in Objects
    BY <1>11, SetDefaultIsObject DEF PutRuntime, RawEvent
  <2>2. j \in Job /\ j.next = "idle"
    BY <1>11, <2>1 DEF Threads
  <2>3. \E label \in {"ensure", "rawRead", "release"} : Enter(t, j, label)
    BY <1>11 DEF RawEvent
  <2> HIDE DEF j
  <2> QED  BY <1>11, <2>2, <2>3, <1>2 DEF RawEvent
<1>12. ASSUME EvictCheck(t, s)
      PROVE  SameOwners /\ UNCHANGED <<hydrating, activeHydrations>>
  <2> DEFINE j == [NoJob EXCEPT !.op = "evict", !.sym = s, !.obj = runtimes[s]]
  <2>1. runtimes[s] \in Objects
    BY <1>12 DEF StoreOK, EvictCheck
  <2>2. j \in Job /\ j.next = "idle"
    BY <1>12, <2>1 DEF Threads
  <2>3. \E label \in {"ensure", "rawRead", "release"} : Enter(t, j, label)
    BY <1>12 DEF EvictCheck
  <2> HIDE DEF j
  <2> QED  BY <1>12, <2>2, <2>3, <1>2 DEF EvictCheck
<1> QED  BY <1>1, <1>4, <1>5, <1>6, <1>7, <1>8, <1>9, <1>10, <1>11, <1>12

LEMMA StepKeepsOwners ==
  ASSUME IInv, NEW t \in Threads, Step(t), ~HydrateStart(t), ~HydrateFinish(t)
  PROVE  SameOwners /\ UNCHANGED <<hydrating, activeHydrations>>
<1> USE NextLabels DEF IInv, Hydration
<1>1. ASSUME NEW label \in PCs, Goto(t, label), label # "publish", pc[t] # "publish",
             pc[t] \in OwnerLabels <=> label \in OwnerLabels
      PROVE  SameOwners
  BY <1>1, GotoOwners
<1>2. ASSUME NEW label \in Continuations, PublishThen(t, label), pc[t] # "publish",
             pc[t] \in OwnerLabels <=> label = "loaded"
      PROVE  SameOwners
  BY <1>2, PublishOwners
<1>3. ASSUME EnsureHydrated(t)  PROVE SameOwners /\ UNCHANGED <<hydrating, activeHydrations>>
  BY <1>3, <1>1 DEF EnsureHydrated, At, PCs, OwnerLabels
<1>4. ASSUME HydrateJoin(t)  PROVE SameOwners /\ UNCHANGED <<hydrating, activeHydrations>>
  BY <1>4, <1>1 DEF HydrateJoin, At, PCs, OwnerLabels
<1>5. ASSUME HydrateJoined(t)  PROVE SameOwners /\ UNCHANGED <<hydrating, activeHydrations>>
  BY <1>5, <1>1 DEF HydrateJoined, At, PCs, OwnerLabels
<1>6. ASSUME HydrateNotCold(t)  PROVE SameOwners /\ UNCHANGED <<hydrating, activeHydrations>>
  BY <1>6, <1>1 DEF HydrateNotCold, At, PCs, OwnerLabels
<1>7. ASSUME ServiceEnter(t)  PROVE SameOwners /\ UNCHANGED <<hydrating, activeHydrations>>
  BY <1>7, <1>1 DEF ServiceEnter, At, PCs, OwnerLabels
<1>8. ASSUME LoaderReturns(t)  PROVE SameOwners /\ UNCHANGED <<hydrating, activeHydrations>>
  BY <1>8, <1>1 DEF LoaderReturns, At, PCs, OwnerLabels
<1>9. ASSUME ServiceLeave(t)  PROVE SameOwners /\ UNCHANGED <<hydrating, activeHydrations>>
  BY <1>9, <1>1 DEF ServiceLeave, At, PCs, OwnerLabels
<1>10. ASSUME LeaveEvicting(t)  PROVE SameOwners /\ UNCHANGED <<hydrating, activeHydrations>>
  BY <1>10, <1>1 DEF LeaveEvicting, At, PCs, OwnerLabels
<1>11. ASSUME AttachCheck(t)  PROVE SameOwners /\ UNCHANGED <<hydrating, activeHydrations>>
  BY <1>11, <1>1 DEF AttachCheck, At, PCs, OwnerLabels
<1>12. ASSUME HookAttaches(t)  PROVE SameOwners /\ UNCHANGED <<hydrating, activeHydrations>>
  BY <1>12, <1>1 DEF HookAttaches, At, PCs, OwnerLabels
<1>13. ASSUME HookSkips(t)  PROVE SameOwners /\ UNCHANGED <<hydrating, activeHydrations>>
  BY <1>13, <1>1 DEF HookSkips, At, PCs, OwnerLabels
<1>14. ASSUME HookFails(t)  PROVE SameOwners /\ UNCHANGED <<hydrating, activeHydrations>>
  BY <1>14, <1>1 DEF HookFails, At, PCs, OwnerLabels
<1>15. ASSUME MarkAttached(t)  PROVE SameOwners /\ UNCHANGED <<hydrating, activeHydrations>>
  BY <1>15, <1>1 DEF MarkAttached, At, PCs, OwnerLabels
<1>16. ASSUME PoolUnchanged(t)  PROVE SameOwners /\ UNCHANGED <<hydrating, activeHydrations>>
  BY <1>16, <1>1 DEF PoolUnchanged, At, PCs, OwnerLabels
<1>17. ASSUME RawRead(t)  PROVE SameOwners /\ UNCHANGED <<hydrating, activeHydrations>>
  BY <1>17, <1>1 DEF RawRead, At, PCs, OwnerLabels
<1>18. ASSUME ReleaseNotAttached(t)  PROVE SameOwners /\ UNCHANGED <<hydrating, activeHydrations>>
  BY <1>18, <1>1 DEF ReleaseNotAttached, At, PCs, OwnerLabels
<1>19. ASSUME HookReleases(t)  PROVE SameOwners /\ UNCHANGED <<hydrating, activeHydrations>>
  BY <1>19, <1>1 DEF HookReleases, At, PCs, OwnerLabels
<1>20. ASSUME ReleaseFails(t)  PROVE SameOwners /\ UNCHANGED <<hydrating, activeHydrations>>
  BY <1>20, <1>1 DEF ReleaseFails, At, PCs, OwnerLabels
<1>21. ASSUME ClearAttached(t)  PROVE SameOwners /\ UNCHANGED <<hydrating, activeHydrations>>
  BY <1>21, <1>1 DEF ClearAttached, At, PCs, OwnerLabels
<1>22. ASSUME EvictDelete(t)  PROVE SameOwners /\ UNCHANGED <<hydrating, activeHydrations>>
  BY <1>22, <1>1 DEF EvictDelete, At, PCs, OwnerLabels
<1>23. ASSUME HydrateRejected(t)  PROVE SameOwners /\ UNCHANGED <<hydrating, activeHydrations>>
  BY <1>23, <1>2 DEF HydrateRejected, At, Continuations, OwnerLabels
<1>24. ASSUME LoaderSeeds(t)  PROVE SameOwners /\ UNCHANGED <<hydrating, activeHydrations>>
  BY <1>24, <1>2 DEF LoaderSeeds, At, Continuations, OwnerLabels
<1>25. ASSUME PoolEvicts(t)  PROVE SameOwners /\ UNCHANGED <<hydrating, activeHydrations>>
  BY <1>25, <1>2 DEF PoolEvicts, At, Continuations, OwnerLabels
<1>26. ASSUME AttachFailed(t)  PROVE SameOwners /\ UNCHANGED <<hydrating, activeHydrations>>
  BY <1>26, <1>2 DEF AttachFailed, At, Continuations, OwnerLabels
<1>27. ASSUME RawApply(t)  PROVE SameOwners /\ UNCHANGED <<hydrating, activeHydrations>>
  BY <1>27, <1>2 DEF RawApply, At, Continuations, OwnerLabels
<1>28. ASSUME Reply(t)  PROVE SameOwners /\ UNCHANGED <<hydrating, activeHydrations>>
  <2>1. CASE Goto(t, "failed")
    BY <1>28, <2>1, <1>1 DEF Reply, At, PCs, OwnerLabels
  <2>2. ASSUME NEW label \in {"returned", "poolEvictions"}, PublishThen(t, label)
        PROVE  SameOwners
    BY <1>28, <2>2, <1>2 DEF Reply, At, Continuations, OwnerLabels
  <2> QED  BY <1>28, <2>1, <2>2 DEF Reply
<1>29. ASSUME SinkWrites(t) \/ SinkFails(t)
      PROVE  SameOwners /\ UNCHANGED <<hydrating, activeHydrations>>
  BY <1>29, ResumeOwners DEF SinkWrites, SinkFails
<1>30. ASSUME Return(t)  PROVE SameOwners /\ UNCHANGED <<hydrating, activeHydrations>>
  <2>1. NoJob \in Job /\ NoJob.next = "idle"
    BY DEF NoJob, Job, Continuations
  <2> QED  BY <1>30, <2>1, EnterOwners DEF Return, Quiet, OwnerLabels, PCs
<1> QED  BY <1>3, <1>4, <1>5, <1>6, <1>7, <1>8, <1>9, <1>10, <1>11, <1>12, <1>13, <1>14,
            <1>15, <1>16, <1>17, <1>18, <1>19, <1>20, <1>21, <1>22, <1>23, <1>24, <1>25,
            <1>26, <1>27, <1>28, <1>29, <1>30 DEF Step
-----------------------------------------------------------------------------
(* The two steps that do change an owner take and give back a slot.        *)

\* The pool counts with the same cardinality as the counter here.
LEMMA PoolCounts == \A S : Pool!Cardinality(S) = Cardinality(S)
BY DEF Pool!Cardinality, Cardinality

LEMMA InitSlots == Init => SlotInv /\ Held = {}
<1> SUFFICES ASSUME Init  PROVE SlotInv /\ Held = {}
  OBVIOUS
<1>1. Held = {}
  BY DEF Init, Held, Owns
<1>2. hydrating = {} /\ activeHydrations = 0
  BY DEF Init
<1> QED  BY <1>1, <1>2, FS_EmptySet, CapacityAssumption DEF SlotInv

LEMMA HydrateStartAcquires ==
  ASSUME IInv, SlotInv, NEW t \in Threads, HydrateStart(t)
  PROVE  Pool!Acquire(t, job[t].sym) /\ job[t].sym \in Symbols /\ SlotInv'
<1> DEFINE sym == job[t].sym
<1>1. /\ pc[t] = "hydrateOnce" /\ sym \notin hydrating
      /\ activeHydrations < MaxHydrations /\ activeHydrations \in Nat
      /\ hydrating' = hydrating \cup {sym}
      /\ activeHydrations' = activeHydrations + 1
      /\ pc' = [pc EXCEPT ![t] = "service"] /\ job' = job
      /\ pc \in [Threads -> PCs]
      /\ sym \in Symbols
  BY DEF HydrateStart, At, Goto, IInv, CallsOK, HydrationOK
<1>2. Owns(t)' /\ ~Owns(t)
  BY <1>1 DEF Owns
<1>3. \A u \in Threads \ {t} : Owns(u)' <=> Owns(u)
  BY <1>1 DEF Owns
<1>4. Held' = Held \cup {<<t, sym>>}
  BY <1>1, <1>2, <1>3 DEF Held
<1>5. \A h \in Held : h[1] # t
  BY <1>2 DEF Held
<1>6. \A h \in Held : h[2] # sym
  BY <1>1 DEF SlotInv
<1> HIDE DEF sym
<1>7. <<t, sym>> \notin Held
  BY <1>6
<1>8. IsFiniteSet(Held') /\ Cardinality(Held') = Cardinality(Held) + 1
  BY <1>4, <1>7, FS_AddElement DEF SlotInv
<1>9. IsFiniteSet(hydrating') /\ Cardinality(hydrating') = Cardinality(hydrating) + 1
  BY <1>1, FS_AddElement DEF SlotInv
<1>10. \A g, h \in Held' : g[2] = h[2] => g = h
  BY <1>4, <1>6 DEF SlotInv
<1>11. hydrating' = {h[2] : h \in Held'}
  <2>1. hydrating' = {h[2] : h \in Held} \cup {sym}
    BY <1>1 DEF SlotInv, sym
  <2>2. <<t, sym>> \in Held' /\ <<t, sym>>[2] = sym /\ Held \subseteq Held'
    BY <1>4
  <2>3. hydrating' \subseteq {h[2] : h \in Held'}
    BY <2>1, <2>2
  <2>4. ASSUME NEW h \in Held'  PROVE h[2] \in hydrating'
    BY <2>1, <2>4, <1>4
  <2> QED  BY <2>3, <2>4
<1>12. activeHydrations' = Cardinality(Held') /\ activeHydrations' = Cardinality(hydrating')
  BY <1>1, <1>8, <1>9 DEF SlotInv
<1>13. activeHydrations' <= MaxHydrations
  BY <1>1, CapacityAssumption
<1>14. SlotInv'
  BY <1>8, <1>9, <1>10, <1>11, <1>12, <1>13 DEF SlotInv
<1>15. Pool!Acquire(t, sym)
  BY <1>1, <1>4, <1>5, <1>6, PoolCounts DEF Pool!Acquire, SlotInv, sym
<1> QED  BY <1>1, <1>14, <1>15 DEF sym

LEMMA HydrateFinishReleases ==
  ASSUME IInv, SlotInv, NEW t \in Threads, HydrateFinish(t)
  PROVE  Pool!Release(t, job[t].sym) /\ job[t].sym \in Symbols /\ SlotInv'
<1> DEFINE sym == job[t].sym
<1>1. PICK label \in {"failed", "raised", "rawRead", "unevict"} : PublishThen(t, label)
  BY DEF HydrateFinish, HydrationRaised, AfterHydration
<1>2. /\ pc[t] = "hydrated" /\ sym \in Symbols
      /\ activeHydrations \in Nat
      /\ hydrating' = hydrating \ {sym}
      /\ activeHydrations' = IF activeHydrations = 0 THEN 0 ELSE activeHydrations - 1
      /\ pc \in [Threads -> PCs] /\ job \in [Threads -> Job]
  BY DEF HydrateFinish, At, IInv, CallsOK, HydrationOK
<1>3. pc'[t] = PublishOr(label) /\ job'[t].next = AfterPublish(label)
  BY <1>1, <1>2 DEF PublishThen, Job
<1>4. Owns(t) /\ ~Owns(t)'
  BY <1>2, <1>3 DEF Owns, PublishOr, AfterPublish
<1>5. \A u \in Threads \ {t} : (Owns(u)' <=> Owns(u)) /\ job'[u].sym = job[u].sym
  BY <1>1, <1>2 DEF Owns, PublishThen
<1>6. <<t, sym>> \in Held
  BY <1>4 DEF Held
<1>7. \A h \in Held : h[2] = sym => h = <<t, sym>>
  BY <1>6 DEF SlotInv
<1>8. Held' = Held \ {<<t, sym>>}
  <2>1. Held' \subseteq Held \ {<<t, sym>>}
    BY <1>4, <1>5 DEF Held
  <2>2. \A h \in Held : h # <<t, sym>> => h \in Held'
    BY <1>4, <1>5 DEF Held
  <2> QED  BY <2>1, <2>2
<1> HIDE DEF sym
<1>9. IsFiniteSet(Held') /\ Cardinality(Held') = Cardinality(Held) - 1
  BY <1>6, <1>8, FS_RemoveElement DEF SlotInv
<1>10. sym \in hydrating
  BY <1>6 DEF SlotInv
<1>11. IsFiniteSet(hydrating') /\ Cardinality(hydrating') = Cardinality(hydrating) - 1
  BY <1>2, <1>10, FS_RemoveElement DEF SlotInv
<1>12. activeHydrations # 0
  BY <1>6, FS_EmptySet DEF SlotInv
<1>13. hydrating' = {h[2] : h \in Held'}
  BY <1>2, <1>7, <1>8 DEF SlotInv
<1>14. \A g, h \in Held' : g[2] = h[2] => g = h
  BY <1>8 DEF SlotInv
<1>15. /\ activeHydrations' = Cardinality(Held')
       /\ activeHydrations' = Cardinality(hydrating')
       /\ activeHydrations' <= MaxHydrations
  <2>1. activeHydrations' = activeHydrations - 1
    BY <1>2, <1>12
  <2>2. Cardinality(Held) = activeHydrations /\ Cardinality(hydrating) = activeHydrations
    BY DEF SlotInv
  <2>3. activeHydrations' <= MaxHydrations
    BY <1>2, <2>1, CapacityAssumption DEF SlotInv
  <2> QED  BY <1>9, <1>11, <2>1, <2>2, <2>3
<1>16. SlotInv'
  BY <1>9, <1>11, <1>13, <1>14, <1>15 DEF SlotInv
<1>17. Pool!Release(t, sym)
  BY <1>6, <1>8 DEF Pool!Release
<1> QED  BY <1>2, <1>16, <1>17 DEF sym

\* Every step is one of the pool's, or leaves the pool alone.
LEMMA NextIsSlotsNext ==
  ASSUME IInv, SlotInv, [Next]_vars
  PROVE  SlotInv' /\ (Pool!SlotsNext \/ Held' = Held)
<1>1. ASSUME SameOwners, UNCHANGED <<hydrating, activeHydrations>>
      PROVE  SlotInv' /\ Held' = Held
  BY <1>1, SameOwnersHold DEF SlotInv
<1>2. ASSUME NEW t \in Threads, Begin(t)  PROVE SlotInv' /\ Held' = Held
  BY <1>1, <1>2, BeginKeepsOwners
<1>3. ASSUME NEW t \in Threads, HydrateStart(t)  PROVE SlotInv' /\ Pool!SlotsNext
  BY <1>3, HydrateStartAcquires DEF Pool!SlotsNext
<1>4. ASSUME NEW t \in Threads, HydrateFinish(t)  PROVE SlotInv' /\ Pool!SlotsNext
  BY <1>4, HydrateFinishReleases DEF Pool!SlotsNext
<1>5. ASSUME NEW t \in Threads, Step(t), ~HydrateStart(t), ~HydrateFinish(t)
      PROVE  SlotInv' /\ Held' = Held
  BY <1>1, <1>5, StepKeepsOwners
<1>6. ASSUME UNCHANGED <<pc, job, hydrating, activeHydrations>>  PROVE SlotInv' /\ Held' = Held
  BY <1>1, <1>6 DEF SameOwners, Owns
<1>7. ASSUME NEW s \in Symbols, GraceElapses(s)  PROVE SlotInv' /\ Held' = Held
  BY <1>6, <1>7 DEF GraceElapses, Hydration
<1>8. CASE UNCHANGED vars
  BY <1>6, <1>8 DEF vars
<1> QED  BY <1>2, <1>3, <1>4, <1>5, <1>7, <1>8 DEF Next

LEMMA SpecSlotInv == Spec => [](IInv /\ SlotInv)
<1>1. Init => SlotInv
  BY InitSlots
<1>2. IInv /\ SlotInv /\ [Next]_vars => SlotInv'
  BY NextIsSlotsNext
<1> QED  BY <1>1, <1>2, SpecIInv, PTL DEF Spec

\* Singleflight for every number of symbols and clients: however the unlocked
\* look at the key in _ensure_hydrated and the locked one in _hydrate_once
\* interleave, one symbol is hydrated by one thread at a time.
THEOREM SingleflightHolds == Spec => []Singleflight
<1>1. SlotInv => Singleflight
  <2> SUFFICES ASSUME SlotInv, NEW t1 \in Threads, NEW t2 \in Threads,
                      Owns(t1), Owns(t2), job[t1].sym = job[t2].sym
               PROVE  t1 = t2
    BY DEF Singleflight
  <2>1. <<t1, job[t1].sym>> \in Held /\ <<t2, job[t2].sym>> \in Held
    BY DEF Held
  <2> QED  BY <2>1 DEF SlotInv
<1> QED  BY <1>1, SpecSlotInv, PTL

\* No failure path of _hydrate_once leaks a slot or frees one twice, and
\* max_concurrent_hydrations is never exceeded, whatever its value.
THEOREM AccountingHolds == Spec => []HydrationAccounting
<1>1. SlotInv => HydrationAccounting
  BY DEF SlotInv, HydrationAccounting
<1> QED  BY <1>1, SpecSlotInv, PTL

\* The manager's hydrations are the slots of HydrationSlots: the detailed
\* specification implements the abstract one.
THEOREM HydrationRefines == Spec => HydrationIsSlots
<1>1. Init => Pool!SlotsInit
  BY InitSlots DEF Pool!SlotsInit
<1>2. IInv /\ SlotInv /\ [Next]_vars => [Pool!SlotsNext]_Held
  BY NextIsSlotsNext
<1> QED  BY <1>1, <1>2, SpecSlotInv, PTL DEF Spec, HydrationIsSlots, Pool!SlotsSpec

-----------------------------------------------------------------------------
(* Eviction.  A runtime is made EVICTING only without a reference and with *)
(* its clock running.  Who refers to it then has attached since, and the   *)
(* attach is still on its way to the section that takes it out.            *)

ClimbLabels == {"ensure", "hydrateOnce", "join", "unevict", "failed"} \cup OwnerLabels

Climbing(t) ==
  pc[t] \in ClimbLabels \/ (pc[t] = "publish" /\ job[t].next \in {"unevict", "failed", "loaded"})

\* The client's own attach, which took the reference.
Reviver(c, o) ==
  /\ job[c].op = "attach" /\ job[c].obj = o /\ job[c].sub = c /\ job[c].fresh
  /\ Climbing(c)

EvictInv ==
  \A o \in Objects : heap[o].state = "EVICTING" =>
    heap[o].clock # "none" /\ \A c \in heap[o].subs : Reviver(c, o)

\* What may become of a runtime in a step that takes no reference.
Follows(q, r) ==
  /\ q.state = "EVICTING" =>
       \/ q.subs = {} /\ q.clock # "none"
       \/ /\ r.state = "EVICTING" /\ q.subs \subseteq r.subs
          /\ r.clock # "none" => q.clock # "none"
  /\ r.payload # "none" => q.payload # "none"

LEMMA OperatorsFollow ==
  ASSUME NEW r \in Runtime
  PROVE  /\ Follows(r, r)
         /\ Follows(Degrade(r), r)
         /\ Follows(Sync(r), r)
         /\ Follows(EvictIfUnreferenced(r), r)
         /\ Follows(Unevict(r), r)
         /\ \A c : Follows(EvictIfUnreferenced([r EXCEPT !.subs = @ \ {c}]), r)
         /\ \A p \in Verdicts :
              /\ Follows(Seeded(r, p), r)
              /\ Follows(RawApplied(r, p), r)
              /\ Follows(Sync([r EXCEPT !.payload = p]), r)
         /\ \A c \in Clients : Follows(Retained(r, c), r)
         /\ \A answer \in Verdicts \cup {"none", "error"} : Follows(Hydrated(r, answer), r)
<1> USE DEF Follows, Runtime, States, Verdicts
<1>1. \A q \in Runtime : Follows(q, q) /\ Follows(Degrade(q), q)
  BY DEF Degrade
<1>2. \A q \in Runtime :
        /\ Sync(q).state = "EVICTING" => q.state = "EVICTING"
        /\ Sync(q).subs = q.subs /\ Sync(q).clock = q.clock /\ Sync(q).payload = q.payload
  BY DEF Sync, Degrade
<1>3. Follows(EvictIfUnreferenced(r), r) /\ Follows(Unevict(r), r)
  BY DEF EvictIfUnreferenced, Unevict
<1>4. ASSUME NEW c  PROVE Follows(EvictIfUnreferenced([r EXCEPT !.subs = @ \ {c}]), r)
  BY DEF EvictIfUnreferenced
<1>5. ASSUME NEW c \in Clients  PROVE Follows(Retained(r, c), r)
  BY DEF Retained
<1>6. ASSUME NEW p \in Verdicts
      PROVE  /\ Follows(Seeded(r, p), r)
             /\ Follows(RawApplied(r, p), r)
             /\ Follows(Sync([r EXCEPT !.payload = p]), r)
  <2>1. Follows(Seeded(r, p), r)
    <3> DEFINE q == [r EXCEPT !.payload = p, !.state = IF @ = "COLD" THEN "WARM" ELSE @]
    <3>1. q \in Runtime /\ q.subs = r.subs /\ q.clock = r.clock /\ q.payload = p
          /\ (q.state = "EVICTING" => r.state = "EVICTING")
      OBVIOUS
    <3>2. Seeded(r, p) = Sync(q)
      BY DEF Seeded
    <3> HIDE DEF q
    <3> QED  BY <3>1, <3>2, <1>2
  <2> DEFINE q == [r EXCEPT !.payload = p]
             synced == Sync(q)
  <2>2. q \in Runtime /\ q.subs = r.subs /\ q.clock = r.clock /\ q.payload = p /\ q.state = r.state
    OBVIOUS
  <2>3. RawApplied(r, p) =
          [synced EXCEPT !.state = IF @ \in {"DEGRADED", "EVICTING"} THEN @ ELSE "LIVE"]
    BY DEF RawApplied
  <2>4. Sync([r EXCEPT !.payload = p]) = synced
    OBVIOUS
  <2> HIDE DEF q
  <2>5. synced \in Runtime
    BY <2>2, RuntimeOperators
  <2>6. /\ synced.state = "EVICTING" => r.state = "EVICTING"
        /\ synced.subs = r.subs /\ synced.clock = r.clock /\ synced.payload = p
    BY <2>2, <1>2
  <2> HIDE DEF synced
  <2>7. Follows(RawApplied(r, p), r)
    BY <2>3, <2>5, <2>6
  <2>8. Follows(Sync([r EXCEPT !.payload = p]), r)
    BY <2>4, <2>5, <2>6
  <2> QED  BY <2>1, <2>7, <2>8
<1>7. ASSUME NEW answer \in Verdicts \cup {"none", "error"}
      PROVE  Follows(Hydrated(r, answer), r)
  <2>1. CASE answer = "error"
    <3>1. Degrade(r) \in Runtime /\ Degrade(r).state = "DEGRADED" /\ Degrade(r).payload = r.payload
      BY DEF Degrade
    <3>2. Hydrated(r, answer) = Sync(Degrade(r))
      BY <2>1 DEF Hydrated
    <3> QED  BY <3>1, <3>2, <1>2
  <2>2. CASE answer # "error"
    <3> DEFINE stored == [r EXCEPT !.payload = IF answer = "none" THEN @ ELSE answer,
                                   !.state = "WARM", !.reasons = FALSE]
    <3>1. stored \in Runtime /\ stored.state = "WARM" /\ (r.payload # "none" => stored.payload # "none")
      BY <2>2
    <3>2. Hydrated(r, answer) = Sync(stored)
      BY <2>2 DEF Hydrated
    <3> HIDE DEF stored
    <3> QED  BY <3>1, <3>2, <1>2
  <2> QED  BY <2>1, <2>2
<1>8. Follows(Sync(r), r)
  BY <1>2
<1> QED  BY <1>1, <1>3, <1>4, <1>5, <1>6, <1>7, <1>8

\* Every runtime follows what it was, or is a new one.
Moved ==
  \A o \in Objects : \/ Follows(heap'[o], heap[o])
                     \/ runtimes[o[1]] # o /\ Follows(heap'[o], ColdRuntime)

LEMMA PutRuntimeMoves ==
  ASSUME StoreOK, NEW s \in Symbols, NEW r, PutRuntime(s, r), Follows(r, Fields(s))
  PROVE  Moved
<1>1. SetDefault(s) \in Objects /\ SetDefault(s)[1] = s
  BY SetDefaultIsObject DEF PutRuntime
<1>2. heap' = [heap EXCEPT ![SetDefault(s)] = r]
  BY DEF PutRuntime
<1>3. ASSUME NEW o \in Objects, o # SetDefault(s)  PROVE Follows(heap'[o], heap[o])
  <2>1. heap'[o] = heap[o] /\ heap[o] \in Runtime
    BY <1>2, <1>3 DEF StoreOK
  <2> QED  BY <2>1, OperatorsFollow
<1>4. heap'[SetDefault(s)] = r
  BY <1>1, <1>2 DEF StoreOK
<1>5. CASE runtimes[s] # NoObject
  <2>1. SetDefault(s) = runtimes[s] /\ Fields(s) = heap[runtimes[s]]
    BY <1>5 DEF SetDefault, Fields
  <2>2. Follows(heap'[SetDefault(s)], heap[SetDefault(s)])
    BY <2>1, <1>4
  <2> QED  BY <1>3, <2>2 DEF Moved
<1>6. CASE runtimes[s] = NoObject
  <2>1. Fields(s) = ColdRuntime
    BY <1>6 DEF Fields
  <2>2. runtimes[SetDefault(s)[1]] # SetDefault(s)
    BY <1>1, <1>6, ObjectAssumption
  <2> QED  BY <1>3, <1>4, <2>1, <2>2 DEF Moved
<1> QED  BY <1>5, <1>6

LEMMA SetMineMoves ==
  ASSUME StoreOK, NEW t, job[t].obj \in Objects, NEW r, SetMine(t, r), Follows(r, Mine(t))
  PROVE  Moved
<1>1. ASSUME NEW o \in Objects  PROVE Follows(heap'[o], heap[o])
  BY OperatorsFollow DEF StoreOK, SetMine, Mine
<1> QED  BY <1>1 DEF Moved

LEMMA SetCurrentMoves ==
  ASSUME StoreOK, NEW s \in Symbols, runtimes[s] # NoObject, NEW r,
         heap' = [heap EXCEPT ![runtimes[s]] = r], Follows(r, heap[runtimes[s]])
  PROVE  Moved
<1>1. ASSUME NEW o \in Objects  PROVE Follows(heap'[o], heap[o])
  BY OperatorsFollow DEF StoreOK
<1> QED  BY <1>1 DEF Moved

LEMMA HeapStays ==
  ASSUME StoreOK, UNCHANGED heap
  PROVE  Moved
BY OperatorsFollow DEF StoreOK, Moved

\* Every attach that is on its way stays so.
RevivalStays ==
  \A c \in Clients, o \in Objects : Reviver(c, o) => Reviver(c, o)'

LEMMA GotoRevives ==
  ASSUME CallsOK, NEW t \in Threads, NEW label \in PCs, Goto(t, label),
         Climbing(t) /\ job[t].op = "attach" => label \in ClimbLabels
  PROVE  RevivalStays
BY DEF CallsOK, Goto, RevivalStays, Reviver, Climbing, Threads

LEMMA PublishRevives ==
  ASSUME CallsOK, NEW t \in Threads, NEW label \in Continuations, PublishThen(t, label),
         Climbing(t) /\ job[t].op = "attach" => label \in {"unevict", "failed", "loaded"}
  PROVE  RevivalStays
<1> SUFFICES ASSUME NEW c \in Clients, NEW o \in Objects, Reviver(c, o)  PROVE Reviver(c, o)'
  BY DEF RevivalStays
<1>1. CASE c # t
  BY <1>1 DEF CallsOK, PublishThen, Reviver, Climbing, Threads
<1>2. CASE c = t
  <2>1. /\ job'[t] = [job[t] EXCEPT !.next = AfterPublish(label)]
        /\ pc'[t] = PublishOr(label)
        /\ job[t] \in Job
    BY DEF CallsOK, PublishThen
  <2>2. /\ job'[t].op = job[t].op /\ job'[t].obj = job[t].obj /\ job'[t].sub = job[t].sub
        /\ job'[t].fresh = job[t].fresh /\ job'[t].next = AfterPublish(label)
    BY <2>1 DEF Job
  <2>3. label \in {"unevict", "failed", "loaded"}
    BY <1>2 DEF Reviver
  <2> QED  BY <1>2, <2>1, <2>2, <2>3
           DEF Reviver, Climbing, ClimbLabels, OwnerLabels, AfterPublish, PublishOr
<1> QED  BY <1>1, <1>2

LEMMA ResumeRevives ==
  ASSUME CallsOK, NEW t \in Threads, Resume(t)
  PROVE  RevivalStays
<1> SUFFICES ASSUME NEW c \in Clients, NEW o \in Objects, Reviver(c, o)  PROVE Reviver(c, o)'
  BY DEF RevivalStays
<1>1. CASE c # t
  BY <1>1 DEF CallsOK, Resume, Reviver, Climbing, Threads
<1>2. CASE c = t
  <2>1. /\ job'[t] = [job[t] EXCEPT !.next = "idle"]
        /\ pc'[t] = job[t].next /\ pc[t] = "publish"
        /\ job[t] \in Job
    BY DEF CallsOK, Resume, At
  <2>2. /\ job'[t].op = job[t].op /\ job'[t].obj = job[t].obj /\ job'[t].sub = job[t].sub
        /\ job'[t].fresh = job[t].fresh
    BY <2>1 DEF Job
  <2> QED  BY <1>2, <2>1, <2>2 DEF Reviver, Climbing, ClimbLabels, OwnerLabels
<1> QED  BY <1>1, <1>2

LEMMA EnterRevives ==
  ASSUME CallsOK, NEW t \in Threads, NEW j, NEW label, Enter(t, j, label), ~Climbing(t)
  PROVE  RevivalStays
BY DEF CallsOK, Enter, RevivalStays, Reviver, Climbing, Threads

LEMMA StepMoves ==
  ASSUME IInv, NEW t \in Threads, Step(t)
  PROVE  Moved
<1> USE DEF IInv
<1>1. CASE UNCHANGED heap
  BY <1>1, HeapStays
<1>2. ASSUME HydrateRejected(t)  PROVE Moved
  <2>1. job[t].obj \in Objects /\ Mine(t) \in Runtime
    BY <1>2, WorkingThread DEF HydrateRejected, At, Quiet
  <2> DEFINE q == Degrade(Mine(t))
             r == [q EXCEPT !.payload = IF @ = "none" THEN "DEGRADED" ELSE @]
  <2>2. SetMine(t, r)
    BY <1>2 DEF HydrateRejected
  <2>3. q \in Runtime /\ Follows(q, Mine(t))
    BY <2>1, RuntimeOperators, OperatorsFollow
  <2> HIDE DEF q
  <2>4. Follows(r, Mine(t))
    BY <2>3 DEF Follows, Runtime
  <2> HIDE DEF r
  <2> QED  BY <2>1, <2>2, <2>4, SetMineMoves
<1>3. ASSUME HydrateStart(t)  PROVE Moved
  <2>1. job[t].obj \in Objects /\ Mine(t) \in Runtime
    BY <1>3, WorkingThread DEF HydrateStart, At, Quiet
  <2>2. SetMine(t, [Mine(t) EXCEPT !.state = "HYDRATING"])
    BY <1>3 DEF HydrateStart
  <2>3. Follows([Mine(t) EXCEPT !.state = "HYDRATING"], Mine(t))
    BY <2>1 DEF Follows, Runtime
  <2> QED  BY <2>1, <2>2, <2>3, SetMineMoves
<1>4. ASSUME LoaderSeeds(t)  PROVE Moved
  <2>1. job[t].sym \in Symbols
    BY <1>4, WorkingThread DEF LoaderSeeds, At, Quiet
  <2>2. PICK p \in SeedPayloads : PutRuntime(job[t].sym, Seeded(Fields(job[t].sym), p))
    BY <1>4 DEF LoaderSeeds
  <2>3. Follows(Seeded(Fields(job[t].sym), p), Fields(job[t].sym))
    BY <2>1, FieldsAreRuntime, OperatorsFollow, OutcomeAssumption
  <2> QED  BY <2>1, <2>2, <2>3, PutRuntimeMoves
<1>5. ASSUME HydrateFinish(t)  PROVE Moved
  <2>1. job[t].obj \in Objects /\ Mine(t) \in Runtime
    BY <1>5, WorkingThread DEF HydrateFinish, At, Quiet
  <2>2. PICK answer \in HydrationResults : SetMine(t, Hydrated(Mine(t), answer))
    BY <1>5 DEF HydrateFinish
  <2>3. Follows(Hydrated(Mine(t), answer), Mine(t))
    BY <2>1, OperatorsFollow, OutcomeAssumption
  <2> QED  BY <2>1, <2>2, <2>3, SetMineMoves
<1>6. ASSUME LeaveEvicting(t)  PROVE Moved
  <2>1. job[t].obj \in Objects /\ Mine(t) \in Runtime
    BY <1>6, WorkingThread DEF LeaveEvicting, At, Quiet
  <2> QED  BY <1>6, <2>1, OperatorsFollow, SetMineMoves DEF LeaveEvicting
<1>7. ASSUME HookFails(t) \/ ReleaseFails(t)  PROVE Moved
  <2>1. job[t].obj \in Objects /\ Mine(t) \in Runtime
    BY <1>7, WorkingThread DEF HookFails, ReleaseFails, At, Quiet
  <2> QED  BY <1>7, <2>1, OperatorsFollow, SetMineMoves DEF HookFails, ReleaseFails
<1>8. ASSUME MarkAttached(t)  PROVE Moved
  <2>1. job[t].obj \in Objects /\ Mine(t) \in Runtime
    BY <1>8, WorkingThread DEF MarkAttached, At, Quiet
  <2> DEFINE r == [Mine(t) EXCEPT !.attached = TRUE,
                               !.state = IF Mine(t).reasons THEN @ ELSE "LIVE"]
  <2>2. SetMine(t, r)
    BY <1>8 DEF MarkAttached
  <2>3. Follows(r, Mine(t))
    BY <2>1 DEF Follows, Runtime
  <2> HIDE DEF r
  <2> QED  BY <2>1, <2>2, <2>3, SetMineMoves
<1>9. ASSUME Reply(t), ~UNCHANGED heap  PROVE Moved
  <2>1. job[t].obj \in Objects /\ Mine(t) \in Runtime
    BY <1>9, WorkingThread DEF Reply, At, Quiet
  <2> DEFINE r == [Mine(t) EXCEPT !.state = IF @ = "HYDRATING" THEN "WARM" ELSE @]
  <2>2. SetMine(t, r)
    BY <1>9 DEF Reply
  <2>3. Follows(r, Mine(t))
    BY <2>1 DEF Follows, Runtime
  <2> HIDE DEF r
  <2> QED  BY <2>1, <2>2, <2>3, SetMineMoves
<1>10. ASSUME PoolEvicts(t)  PROVE Moved
  <2>1. PICK e \in Symbols :
          /\ runtimes[e] # NoObject
          /\ heap' = [heap EXCEPT ![runtimes[e]] = EvictIfUnreferenced(@)]
    BY <1>10 DEF PoolEvicts
  <2>2. Follows(EvictIfUnreferenced(heap[runtimes[e]]), heap[runtimes[e]])
    BY <2>1, CurrentIsRuntime, OperatorsFollow
  <2> QED  BY <2>1, <2>2, SetCurrentMoves
<1>11. ASSUME AttachFailed(t)  PROVE Moved
  <2>1. job[t].obj \in Objects /\ Mine(t) \in Runtime
    BY <1>11, WorkingThread DEF AttachFailed, At, Quiet
  <2> DEFINE left == [Mine(t) EXCEPT !.subs = IF job[t].fresh THEN @ \ {job[t].sub} ELSE @]
             r == IF job[t].fresh /\ left.subs = {}
                  THEN [left EXCEPT !.clock = "running"] ELSE left
  <2>2. SetMine(t, r)
    BY <1>11 DEF AttachFailed
  <2>3. left \in Runtime /\ left.subs \subseteq Mine(t).subs
        /\ left.state = Mine(t).state /\ left.payload = Mine(t).payload /\ left.clock = Mine(t).clock
    BY <2>1 DEF Runtime
  <2> HIDE DEF left
  <2>4. Follows(r, Mine(t))
    BY <2>3 DEF Follows, Runtime
  <2> HIDE DEF r
  <2> QED  BY <2>1, <2>2, <2>4, SetMineMoves
<1>12. ASSUME SinkFails(t)  PROVE Moved
  <2>1. job[t].sym \in Symbols
    BY <1>12 DEF SinkFails, Resume, At, CallsOK
  <2>2. CASE runtimes[job[t].sym] = NoObject
    BY <1>12, <2>2, HeapStays DEF SinkFails
  <2>3. CASE runtimes[job[t].sym] # NoObject
    <3>1. Follows(Degrade(heap[runtimes[job[t].sym]]), heap[runtimes[job[t].sym]])
      BY <2>1, <2>3, CurrentIsRuntime, OperatorsFollow
    <3> QED  BY <1>12, <2>1, <2>3, <3>1, SetCurrentMoves DEF SinkFails
  <2> QED  BY <2>2, <2>3
<1>13. ASSUME RawApply(t)  PROVE Moved
  <2>1. job[t].sym \in Symbols
    BY <1>13, WorkingThread DEF RawApply, At, Quiet
  <2>2. PICK p \in RawPayloads :
          heap' = IF runtimes[job[t].sym] = NoObject THEN heap
                  ELSE [heap EXCEPT ![runtimes[job[t].sym]] = RawApplied(@, p)]
    BY <1>13 DEF RawApply
  <2>3. CASE runtimes[job[t].sym] = NoObject
    BY <2>2, <2>3, HeapStays
  <2>4. CASE runtimes[job[t].sym] # NoObject
    <3>1. Follows(RawApplied(heap[runtimes[job[t].sym]], p), heap[runtimes[job[t].sym]])
      BY <2>1, <2>4, CurrentIsRuntime, OperatorsFollow, OutcomeAssumption
    <3> QED  BY <2>1, <2>2, <2>4, <3>1, SetCurrentMoves
  <2> QED  BY <2>3, <2>4
<1>14. ASSUME ClearAttached(t)  PROVE Moved
  <2>1. job[t].obj \in Objects /\ Mine(t) \in Runtime
    BY <1>14, WorkingThread DEF ClearAttached, At, Quiet
  <2>2. SetMine(t, [Mine(t) EXCEPT !.attached = FALSE])
    BY <1>14 DEF ClearAttached
  <2>3. Follows([Mine(t) EXCEPT !.attached = FALSE], Mine(t))
    BY <2>1 DEF Follows, Runtime
  <2> QED  BY <2>1, <2>2, <2>3, SetMineMoves
<1>15. ASSUME Return(t)  PROVE Moved
  <2>1. ASSUME NEW o \in Objects, o \in Garbage(t)
        PROVE  runtimes[o[1]] # o /\ Follows(heap'[o], ColdRuntime)
    BY <1>15, <2>1, ColdIsRuntime, OperatorsFollow DEF Return, Garbage
  <2>2. ASSUME NEW o \in Objects, o \notin Garbage(t)
        PROVE  Follows(heap'[o], heap[o])
    BY <1>15, <2>2, OperatorsFollow DEF Return, StoreOK
  <2> QED  BY <2>1, <2>2 DEF Moved
<1>16. ASSUME \/ EnsureHydrated(t) \/ HydrateJoin(t) \/ HydrateJoined(t) \/ HydrateNotCold(t)
              \/ ServiceEnter(t) \/ LoaderReturns(t) \/ ServiceLeave(t) \/ AttachCheck(t)
              \/ HookAttaches(t) \/ HookSkips(t) \/ PoolUnchanged(t) \/ SinkWrites(t)
              \/ RawRead(t) \/ ReleaseNotAttached(t) \/ HookReleases(t) \/ EvictDelete(t)
       PROVE  Moved
  BY <1>1, <1>16 DEF EnsureHydrated, HydrateJoin, HydrateJoined, HydrateNotCold, ServiceEnter,
                     LoaderReturns, ServiceLeave, AttachCheck, HookAttaches, HookSkips,
                     PoolUnchanged, SinkWrites, RawRead, ReleaseNotAttached, HookReleases,
                     EvictDelete
<1> QED  BY <1>1, <1>2, <1>3, <1>4, <1>5, <1>6, <1>7, <1>8, <1>9, <1>10, <1>11, <1>12,
            <1>13, <1>14, <1>15, <1>16 DEF Step

\* Only the section that takes its runtime out, or the failure that gives its
\* reference back, ends the way of an attach.
LEMMA StepRevives ==
  ASSUME IInv, NEW t \in Threads, Step(t), ~LeaveEvicting(t), ~AttachFailed(t)
  PROVE  RevivalStays
<1> USE DEF IInv, At
<1>1. ASSUME NEW label \in PCs, Goto(t, label), pc[t] # "publish",
             pc[t] \in ClimbLabels /\ job[t].op = "attach" => label \in ClimbLabels
      PROVE  RevivalStays
  BY <1>1, GotoRevives DEF Climbing
<1>2. ASSUME NEW label \in Continuations, PublishThen(t, label), pc[t] # "publish",
             pc[t] \in ClimbLabels /\ job[t].op = "attach" => label \in {"unevict", "failed", "loaded"}
      PROVE  RevivalStays
  BY <1>2, PublishRevives DEF Climbing
<1> USE DEF PCs, ClimbLabels, OwnerLabels, AfterHydration, HydrationRaised, Continuations
<1>3. ASSUME EnsureHydrated(t)  PROVE RevivalStays
  BY <1>3, <1>1 DEF EnsureHydrated
<1>4. ASSUME HydrateJoin(t)  PROVE RevivalStays
  BY <1>4, <1>1 DEF HydrateJoin
<1>5. ASSUME HydrateJoined(t)  PROVE RevivalStays
  BY <1>5, <1>1 DEF HydrateJoined
<1>6. ASSUME HydrateNotCold(t)  PROVE RevivalStays
  BY <1>6, <1>1 DEF HydrateNotCold
<1>7. ASSUME HydrateStart(t)  PROVE RevivalStays
  BY <1>7, <1>1 DEF HydrateStart
<1>8. ASSUME ServiceEnter(t)  PROVE RevivalStays
  BY <1>8, <1>1 DEF ServiceEnter
<1>9. ASSUME LoaderReturns(t)  PROVE RevivalStays
  BY <1>9, <1>1 DEF LoaderReturns
<1>10. ASSUME ServiceLeave(t)  PROVE RevivalStays
  BY <1>10, <1>1 DEF ServiceLeave
<1>11. ASSUME AttachCheck(t)  PROVE RevivalStays
  BY <1>11, <1>1 DEF AttachCheck
<1>12. ASSUME HookAttaches(t)  PROVE RevivalStays
  BY <1>12, <1>1 DEF HookAttaches
<1>13. ASSUME HookSkips(t)  PROVE RevivalStays
  BY <1>13, <1>1 DEF HookSkips
<1>14. ASSUME HookFails(t)  PROVE RevivalStays
  BY <1>14, <1>1 DEF HookFails
<1>15. ASSUME MarkAttached(t)  PROVE RevivalStays
  BY <1>15, <1>1 DEF MarkAttached
<1>16. ASSUME PoolUnchanged(t)  PROVE RevivalStays
  BY <1>16, <1>1 DEF PoolUnchanged
<1>17. ASSUME RawRead(t)  PROVE RevivalStays
  BY <1>17, <1>1 DEF RawRead
<1>18. ASSUME ReleaseNotAttached(t)  PROVE RevivalStays
  BY <1>18, <1>1 DEF ReleaseNotAttached
<1>19. ASSUME HookReleases(t)  PROVE RevivalStays
  BY <1>19, <1>1 DEF HookReleases
<1>20. ASSUME ReleaseFails(t)  PROVE RevivalStays
  BY <1>20, <1>1 DEF ReleaseFails
<1>21. ASSUME ClearAttached(t)  PROVE RevivalStays
  BY <1>21, <1>1 DEF ClearAttached
<1>22. ASSUME EvictDelete(t)  PROVE RevivalStays
  BY <1>22, <1>1 DEF EvictDelete
<1>23. ASSUME HydrateRejected(t)  PROVE RevivalStays
  BY <1>23, <1>2 DEF HydrateRejected
<1>24. ASSUME LoaderSeeds(t)  PROVE RevivalStays
  BY <1>24, <1>2 DEF LoaderSeeds
<1>25. ASSUME HydrateFinish(t)  PROVE RevivalStays
  BY <1>25, <1>2 DEF HydrateFinish
<1>26. ASSUME PoolEvicts(t)  PROVE RevivalStays
  BY <1>26, <1>2 DEF PoolEvicts
<1>27. ASSUME RawApply(t)  PROVE RevivalStays
  BY <1>27, <1>2 DEF RawApply
<1>28. ASSUME Reply(t)  PROVE RevivalStays
  <2>1. CASE Goto(t, "failed")
    BY <1>28, <2>1, <1>1 DEF Reply
  <2>2. ASSUME NEW label \in {"returned", "poolEvictions"}, PublishThen(t, label)
        PROVE  RevivalStays
    BY <1>28, <2>2, <1>2 DEF Reply
  <2> QED  BY <1>28, <2>1, <2>2 DEF Reply
<1>29. ASSUME SinkWrites(t) \/ SinkFails(t)  PROVE RevivalStays
  BY <1>29, ResumeRevives DEF SinkWrites, SinkFails
<1>30. ASSUME Return(t)  PROVE RevivalStays
  <2>1. ~Climbing(t)
    BY <1>30 DEF Return, Climbing
  <2> QED  BY <1>30, <2>1, EnterRevives DEF Return
<1> QED  BY <1>3, <1>4, <1>5, <1>6, <1>7, <1>8, <1>9, <1>10, <1>11, <1>12, <1>13, <1>14,
            <1>15, <1>16, <1>17, <1>18, <1>19, <1>20, <1>21, <1>22, <1>23, <1>24, <1>25,
            <1>26, <1>27, <1>28, <1>29, <1>30 DEF Step

\* A call that begins moves no attach that is on its way, and unless it takes
\* a reference for a new one its runtime follows what it was.
LEMMA BeginMoves ==
  ASSUME IInv, NEW t \in Threads, Begin(t)
  PROVE  /\ RevivalStays
         /\ Moved \/ \E s \in Symbols : t # Loop /\ Attach(t, s, t)
<1> USE DEF IInv, MayCall, At
<1>0. pc[t] = "idle" => ~Climbing(t)
  BY DEF Climbing, ClimbLabels, OwnerLabels
<1>1. ASSUME NEW s \in Symbols, t # Loop, Attach(t, s, t)  PROVE RevivalStays
  BY <1>0, <1>1, EnterRevives DEF Attach
<1>2. ASSUME NEW s \in Symbols, t # Loop, Retain(t, s, t)  PROVE RevivalStays /\ Moved
  <2>1. t \in Clients /\ runtimes[s] # NoObject
    BY <1>2 DEF Threads, Retain, Retainable
  <2>2. Follows(Retained(heap[runtimes[s]], t), heap[runtimes[s]])
    BY <2>1, CurrentIsRuntime, OperatorsFollow
  <2>3. Moved
    BY <1>2, <2>1, <2>2, SetCurrentMoves DEF Retain
  <2> QED  BY <1>0, <1>2, <2>3, EnterRevives DEF Retain, EnterAndPublish
<1>3. ASSUME NEW s \in Symbols, NEW c \in Clients, Detach(t, s, c)  PROVE RevivalStays /\ Moved
  <2>1. Follows(EvictIfUnreferenced([Fields(s) EXCEPT !.subs = @ \ {c}]), Fields(s))
    BY FieldsAreRuntime, OperatorsFollow
  <2>2. Moved
    BY <1>3, <2>1, PutRuntimeMoves DEF Detach
  <2> QED  BY <1>0, <1>3, <2>2, EnterRevives DEF Detach, EnterAndPublish
<1>4. ASSUME NEW s \in Symbols, Activate(t, s)  PROVE RevivalStays /\ Moved
  <2>1. Moved
    BY <1>4, FieldsAreRuntime, OperatorsFollow, PutRuntimeMoves DEF Activate
  <2> QED  BY <1>0, <1>4, <2>1, EnterRevives DEF Activate
<1>5. ASSUME NEW s \in Symbols, Deactivate(t, s)  PROVE RevivalStays /\ Moved
  <2>1. Follows(EvictIfUnreferenced(heap[runtimes[s]]), heap[runtimes[s]])
    BY <1>5, CurrentIsRuntime, OperatorsFollow DEF Deactivate
  <2>2. Moved
    BY <1>5, <2>1, SetCurrentMoves DEF Deactivate
  <2> QED  BY <1>0, <1>5, <2>2, EnterRevives DEF Deactivate, EnterAndPublish
<1>6. ASSUME NEW s \in Symbols, SeedSnapshot(t, s)  PROVE RevivalStays /\ Moved
  <2>1. PICK p \in SeedPayloads : PutRuntime(s, Seeded(Fields(s), p))
    BY <1>6 DEF SeedSnapshot
  <2>2. Follows(Seeded(Fields(s), p), Fields(s))
    BY FieldsAreRuntime, OperatorsFollow, OutcomeAssumption
  <2>3. Moved
    BY <2>1, <2>2, PutRuntimeMoves
  <2> QED  BY <1>0, <1>6, <2>3, EnterRevives DEF SeedSnapshot, EnterAndPublish
<1>7. ASSUME NEW s \in Symbols, Apply(t, s)  PROVE RevivalStays /\ Moved
  <2>1. PICK p \in RawPayloads :
          heap' = [heap EXCEPT ![runtimes[s]] = Sync([@ EXCEPT !.payload = p])]
    BY <1>7 DEF Apply
  <2> DEFINE q == heap[runtimes[s]]
             r == Sync([q EXCEPT !.payload = p])
  <2>2. q \in Runtime /\ runtimes[s] # NoObject
    BY <1>7, CurrentIsRuntime DEF Apply
  <2>3. heap' = [heap EXCEPT ![runtimes[s]] = r]
    BY <2>1
  <2>4. Follows(r, q)
    BY <2>2, OperatorsFollow, OutcomeAssumption
  <2> HIDE DEF r
  <2>5. Moved
    BY <2>2, <2>3, <2>4, SetCurrentMoves
  <2> QED  BY <1>0, <1>7, <2>5, EnterRevives DEF Apply, EnterAndPublish
<1>8. ASSUME NEW s \in Symbols, RawEvent(t, s)  PROVE RevivalStays /\ Moved
  <2>1. Moved
    BY <1>8, FieldsAreRuntime, OperatorsFollow, PutRuntimeMoves DEF RawEvent
  <2> QED  BY <1>0, <1>8, <2>1, EnterRevives DEF RawEvent
<1>9. ASSUME NEW s \in Symbols, EvictCheck(t, s)  PROVE RevivalStays /\ Moved
  <2>1. Moved
    BY <1>9, HeapStays DEF EvictCheck
  <2> QED  BY <1>0, <1>9, <2>1, EnterRevives DEF EvictCheck
<1> QED  BY <1>1, <1>2, <1>3, <1>4, <1>5, <1>6, <1>7, <1>8, <1>9 DEF Begin

LEMMA MovedKeepsEvictInv ==
  ASSUME IInv, EvictInv, Moved,
         \A c \in Clients, o \in Objects :
           heap'[o].state = "EVICTING" /\ c \in heap'[o].subs /\ Reviver(c, o) => Reviver(c, o)'
  PROVE  EvictInv'
<1> SUFFICES ASSUME NEW o \in Objects, heap'[o].state = "EVICTING"
             PROVE  heap'[o].clock # "none" /\ \A c \in heap'[o].subs : Reviver(c, o)'
  BY DEF EvictInv
<1>1. CASE Follows(heap'[o], heap[o])
  <2>1. CASE heap'[o].subs = {} /\ heap'[o].clock # "none"
    BY <2>1
  <2>2. CASE heap[o].state = "EVICTING" /\ heap'[o].subs \subseteq heap[o].subs
    <3>1. heap[o].clock # "none" /\ \A c \in heap[o].subs : Reviver(c, o)
      BY <2>2 DEF EvictInv
    <3>2. heap[o].subs \subseteq Clients
      BY DEF IInv, StoreOK, Runtime
    <3>3. heap'[o].clock # "none"
      BY <1>1, <3>1 DEF Follows
    <3> QED  BY <2>2, <3>1, <3>2, <3>3
  <2> QED  BY <1>1, <2>1, <2>2 DEF Follows
<1>2. CASE Follows(heap'[o], ColdRuntime)
  BY <1>2 DEF Follows, ColdRuntime
<1> QED  BY <1>1, <1>2 DEF Moved

LEMMA AttachKeepsEvictInv ==
  ASSUME IInv, EvictInv, NEW t \in Threads, NEW s \in Symbols, t # Loop, Attach(t, s, t)
  PROVE  EvictInv'
<1> DEFINE r == [Fields(s) EXCEPT !.subs = @ \cup {t}]
<1>0. PICK o \in Objects : o = SetDefault(s)
  BY SetDefaultIsObject DEF Attach, PutRuntime, IInv
<1>1. /\ pc[t] = "idle" /\ pc'[t] = "ensure"
      /\ job'[t].op = "attach" /\ job'[t].obj = o /\ job'[t].sub = t
      /\ job'[t].fresh = (t \notin Fields(s).subs)
  BY <1>0 DEF Attach, MayCall, At, Enter, NoJob, IInv, CallsOK
<1>2. heap' = [heap EXCEPT ![o] = r] /\ Fields(s) \in Runtime
  BY <1>0, FieldsAreRuntime DEF Attach, PutRuntime, IInv
<1>3. ~Climbing(t) /\ (t \notin Fields(s).subs => Reviver(t, o)')
  BY <1>1 DEF Climbing, ClimbLabels, OwnerLabels, Reviver
<1>4. RevivalStays
  BY EnterRevives, <1>3 DEF Attach, IInv
<1>5. Fields(s).state = "EVICTING" => Fields(s) = heap[o]
  BY <1>0 DEF Fields, SetDefault, ColdRuntime
<1>6. \A c \in Clients, q \in Objects : Reviver(c, q) => Reviver(c, q)'
  BY <1>4 DEF RevivalStays
<1>7. ASSUME NEW q \in Objects, heap'[q].state = "EVICTING", q # o
      PROVE  heap'[q].clock # "none" /\ \A c \in heap'[q].subs : Reviver(c, q)'
  <2>1. heap'[q] = heap[q] /\ heap[q].subs \subseteq Clients
    BY <1>2, <1>7 DEF IInv, StoreOK, Runtime
  <2> QED  BY <1>6, <1>7, <2>1 DEF EvictInv
<1>8. ASSUME heap'[o].state = "EVICTING"
      PROVE  heap'[o].clock # "none" /\ \A c \in heap'[o].subs : Reviver(c, o)'
  <2>1. /\ heap'[o].state = Fields(s).state /\ heap'[o].clock = Fields(s).clock
        /\ heap'[o].subs = Fields(s).subs \cup {t}
    BY <1>2 DEF IInv, StoreOK, Runtime
  <2>2. heap[o].state = "EVICTING" /\ Fields(s) = heap[o] /\ heap[o].subs \subseteq Clients
    BY <1>2, <1>5, <1>8, <2>1 DEF IInv, StoreOK, Runtime
  <2>3. heap[o].clock # "none" /\ \A c \in heap[o].subs : Reviver(c, o)
    BY <1>2, <2>2 DEF EvictInv
  <2>4. t \notin Fields(s).subs
    BY <1>3, <2>2, <2>3 DEF Reviver
  <2> QED  BY <1>2, <1>3, <1>6, <2>1, <2>2, <2>3, <2>4
<1> QED  BY <1>7, <1>8 DEF EvictInv

LEMMA LeaveKeepsEvictInv ==
  ASSUME IInv, EvictInv, NEW t \in Threads, LeaveEvicting(t) \/ AttachFailed(t)
  PROVE  EvictInv'
<1>0. Step(t) /\ job[t].obj \in Objects /\ Mine(t) \in Runtime
  BY WorkingThread DEF Step, LeaveEvicting, AttachFailed, At, Quiet
<1>1. Moved
  BY <1>0, StepMoves
<1>2. ASSUME NEW c \in Clients, NEW o \in Objects, heap'[o].state = "EVICTING",
             c \in heap'[o].subs, Reviver(c, o)
      PROVE  Reviver(c, o)'
  <2>1. CASE c # t
    <3>1. pc'[c] = pc[c] /\ job'[c] = job[c]
      BY <2>1 DEF LeaveEvicting, AttachFailed, Goto, PublishThen, IInv, CallsOK, Threads
    <3> QED  BY <1>2, <3>1 DEF Reviver, Climbing
  <2>2. CASE c = t
    <3>1. job[t].obj = o /\ job[t].fresh /\ job[t].sub = c
      BY <1>2, <2>2 DEF Reviver
    <3>2. CASE LeaveEvicting(t)
      <4>1. heap'[o] = Unevict(Mine(t))
        BY <3>1, <3>2 DEF LeaveEvicting, SetMine, IInv, StoreOK
      <4> QED  BY <1>0, <1>2, <4>1 DEF Unevict, Runtime
    <3>3. CASE AttachFailed(t)
      <4> DEFINE left == [Mine(t) EXCEPT !.subs = IF job[t].fresh THEN @ \ {job[t].sub} ELSE @]
                 r == IF job[t].fresh /\ left.subs = {}
                      THEN [left EXCEPT !.clock = "running"] ELSE left
      <4>1. heap'[o] = r
        BY <3>1, <3>3 DEF AttachFailed, SetMine, IInv, StoreOK
      <4>2. left \in Runtime /\ left.subs = Mine(t).subs \ {c}
        BY <1>0, <3>1 DEF Runtime
      <4> HIDE DEF left
      <4>3. r.subs = left.subs
        BY <4>2 DEF Runtime
      <4> HIDE DEF r
      <4> QED  BY <1>2, <4>1, <4>2, <4>3
    <3> QED  BY <3>2, <3>3
  <2> QED  BY <2>1, <2>2
<1> QED  BY <1>1, <1>2, MovedKeepsEvictInv

LEMMA GraceMoves ==
  ASSUME IInv, NEW s \in Symbols, GraceElapses(s)
  PROVE  Moved
<1> DEFINE r == [heap[runtimes[s]] EXCEPT !.clock = "elapsed"]
<1>1. heap[runtimes[s]] \in Runtime
  BY CurrentIsRuntime DEF GraceElapses, IInv
<1>2. runtimes[s] # NoObject /\ heap' = [heap EXCEPT ![runtimes[s]] = r]
  BY DEF GraceElapses
<1>3. Follows(r, heap[runtimes[s]])
  BY <1>1 DEF Follows, Runtime
<1> HIDE DEF r
<1> QED  BY <1>2, <1>3, SetCurrentMoves DEF IInv

LEMMA NextKeepsEvictInv ==
  ASSUME IInv, EvictInv, [Next]_vars
  PROVE  EvictInv'
<1>1. ASSUME Moved, RevivalStays  PROVE EvictInv'
  BY <1>1, MovedKeepsEvictInv DEF RevivalStays
<1>2. ASSUME NEW t \in Threads, Begin(t)  PROVE EvictInv'
  BY <1>1, <1>2, BeginMoves, AttachKeepsEvictInv
<1>3. ASSUME NEW t \in Threads, Step(t)  PROVE EvictInv'
  BY <1>1, <1>3, StepMoves, StepRevives, LeaveKeepsEvictInv
<1>4. ASSUME NEW s \in Symbols, GraceElapses(s)  PROVE EvictInv'
  <2>1. RevivalStays
    BY <1>4 DEF GraceElapses, RevivalStays, Reviver, Climbing
  <2> QED  BY <1>1, <1>4, <2>1, GraceMoves
<1>5. CASE UNCHANGED vars
  BY <1>5 DEF vars, EvictInv, Reviver, Climbing
<1> QED  BY <1>2, <1>3, <1>4, <1>5 DEF Next

\* No runtime stays EVICTING without a clock, or for ever while a client
\* refers to it, for any number of clients and symbols and whatever fails.
THEOREM EvictingMovesOnHolds == Spec => []EvictingMovesOn
<1>1. Init => EvictInv
  BY DEF Init, EvictInv, ColdRuntime
<1>2. IInv /\ EvictInv => EvictingMovesOn
  <2> SUFFICES ASSUME IInv, EvictInv, NEW s \in Symbols, runtimes[s] # NoObject,
                      heap[runtimes[s]].state = "EVICTING"
               PROVE  /\ heap[runtimes[s]].clock # "none"
                      /\ heap[runtimes[s]].subs # {} => Reviving(runtimes[s])
    BY DEF EvictingMovesOn
  <2>1. PICK o \in Objects : o = runtimes[s]
    BY DEF IInv, StoreOK
  <2>2. heap[o].clock # "none" /\ \A c \in heap[o].subs : Reviver(c, o)
    BY <2>1 DEF EvictInv
  <2>3. ASSUME NEW c \in heap[o].subs  PROVE Reviving(o)
    <3>1. Reviver(c, o) /\ c \in Threads
      BY <2>2 DEF IInv, StoreOK, Runtime, Threads
    <3> QED  BY <3>1 DEF Reviver, Reviving, Climbing, ClimbLabels, OwnerLabels, Owns
  <2> QED  BY <2>1, <2>2, <2>3
<1>3. IInv /\ EvictInv /\ [Next]_vars => EvictInv'
  BY NextKeepsEvictInv
<1> QED  BY <1>1, <1>2, <1>3, SpecIInv, PTL DEF Spec

\* A runtime that has a snapshot keeps one as long as it is the symbol's
\* runtime, whatever hydration, seeding, hooks and sinks come to.
THEOREM SnapshotKeptHolds == Spec => SnapshotKept
<1> DEFINE Kept == \A s \in Symbols :
                     /\ runtimes[s] # NoObject
                     /\ runtimes'[s] = runtimes[s]
                     /\ heap[runtimes[s]].payload # "none"
                     => heap'[runtimes[s]].payload # "none"
<1>1. ASSUME IInv, Moved  PROVE Kept
  <2> SUFFICES ASSUME NEW s \in Symbols, runtimes[s] # NoObject,
                      heap[runtimes[s]].payload # "none"
               PROVE  heap'[runtimes[s]].payload # "none"
    OBVIOUS
  <2>1. runtimes[s] \in Objects /\ runtimes[s][1] = s
    BY <1>1 DEF IInv, StoreOK
  <2>2. Follows(heap'[runtimes[s]], heap[runtimes[s]])
    BY <1>1, <2>1 DEF Moved
  <2> QED  BY <2>2 DEF Follows
<1>2. ASSUME IInv, NEW t \in Threads, NEW s \in Symbols, Attach(t, s, t)  PROVE Kept
  <2>1. PICK r : PutRuntime(s, r) /\ r = [Fields(s) EXCEPT !.subs = @ \cup {t}]
    BY <1>2 DEF Attach
  <2>2. Fields(s) \in Runtime
    BY <1>2, FieldsAreRuntime DEF IInv
  <2>3. r.payload = Fields(s).payload
    BY <2>1, <2>2 DEF Runtime
  <2>4. SetDefault(s) \in Objects /\ SetDefault(s)[1] = s /\ heap' = [heap EXCEPT ![SetDefault(s)] = r]
    BY <1>2, <2>1, SetDefaultIsObject DEF IInv, PutRuntime
  <2> SUFFICES ASSUME NEW u \in Symbols, runtimes[u] # NoObject,
                      heap[runtimes[u]].payload # "none"
               PROVE  heap'[runtimes[u]].payload # "none"
    OBVIOUS
  <2>5. runtimes[u] \in Objects /\ runtimes[u][1] = u
    BY <1>2 DEF IInv, StoreOK
  <2>6. CASE u = s
    BY <1>2, <2>3, <2>4, <2>5, <2>6 DEF Fields, SetDefault, IInv, StoreOK
  <2>7. CASE u # s
    BY <1>2, <2>4, <2>5, <2>7 DEF IInv, StoreOK
  <2> QED  BY <2>6, <2>7
<1>3. IInv /\ [Next]_vars => [Kept]_vars
  <2> SUFFICES ASSUME IInv, Next  PROVE Kept
    OBVIOUS
  <2> HIDE DEF Kept
  <2>1. ASSUME NEW t \in Threads, Begin(t)  PROVE Kept
    BY <1>1, <1>2, <2>1, BeginMoves
  <2>2. ASSUME NEW t \in Threads, Step(t)  PROVE Kept
    BY <1>1, <2>2, StepMoves
  <2>3. ASSUME NEW s \in Symbols, GraceElapses(s)  PROVE Kept
    BY <1>1, <2>3, GraceMoves
  <2> QED  BY <2>1, <2>2, <2>3 DEF Next
<1> QED  BY <1>3, SpecIInv, PTL DEF Spec, SnapshotKept
=============================================================================
