------------------------- MODULE UpstreamFeedProofs -------------------------
(***************************************************************************)
(* Theorems about UpstreamFeed for any sets of symbols and of clients, any *)
(* number of periods and any bound on the failures: one caller works on    *)
(* the subscriptions of a symbol although nothing locks them, and without  *)
(* a failure the SDK, the client, the manager, the tracker and the runtime *)
(* agree between the calls.                                                *)
(***************************************************************************)
EXTENDS UpstreamFeed, TLAPS

-----------------------------------------------------------------------------
(* The inductive invariant.                                                *)

Phases == {"starting", "live", "failed", "ended", "stopped"}
Places == {"connect", "start", "drain", "evaluate", "renew", "evict"}
Stages == {"subscribe", "unsubscribe", "mark", "sync"}
Calls == [op : {"attach", "renew", "release"}, stage : Stages,
          symbol : Symbols, period : Periods, keys : SUBSET Streams]

Busy(t) == call[t].op # "idle"
Serving == phase \in {"starting", "live"}

\* The thread is about to change the subscriptions of the symbol, or between
\* two changes of them.
Calling(t, s) == Busy(t) /\ call[t].stage # "sync" /\ call[t].symbol = s

\* The subscriptions of the symbol are done, but not its runtime.
Settling(s) ==
    \E t \in Threads : /\ Busy(t) /\ call[t].op # "renew"
                       /\ call[t].stage = "sync" /\ call[t].symbol = s

DataInv ==
    /\ phase \in Phases /\ loopAt \in Places
    /\ live \in [Symbols -> [Periods -> Int]]
    /\ handles \subseteq Symbols \X Periods /\ queued \subseteq Symbols \X Periods
    /\ clientSubscribed \subseteq Symbols /\ subscribed \subseteq Symbols
    /\ attached \subseteq Symbols /\ cooling \subseteq Symbols
    /\ todo \subseteq Symbols /\ faulty \subseteq Symbols
    /\ tracker \in [Streams -> {"none", "off", "on"}]
    /\ quiet \subseteq Streams /\ backlogged \subseteq Streams /\ iterated \subseteq Streams
    /\ refs \in [Symbols -> SUBSET Clients]
    /\ failures \in Nat /\ failures <= MaxFailures

\* A release never subscribes and an attach never unsubscribes.
CallInv ==
    /\ call \in [Threads -> Calls \cup {Idle}]
    /\ \A t \in Threads : Busy(t) =>
         /\ call[t].stage = "subscribe" => call[t].op # "release"
         /\ call[t].stage = "unsubscribe" => call[t].op # "attach"
         /\ call[t].stage \in {"mark", "sync"} => call[t].period = 1

TypeInv == DataInv /\ CallInv

\* The loop calls from one place of its tick each, and what made it call is
\* so until the call has changed it.
LoopInv ==
    Busy(Loop) =>
      /\ \/ call[Loop].op = "attach" /\ phase = "starting" /\ loopAt = "start"
         \/ call[Loop].op = "renew" /\ phase = "live" /\ loopAt = "renew"
         \/ call[Loop].op = "release" /\ phase = "live" /\ loopAt = "evict"
      /\ (call[Loop].op = "attach" /\ call[Loop].stage # "sync") =>
           call[Loop].symbol \notin subscribed
      /\ (call[Loop].op = "renew" /\ call[Loop].stage # "sync") =>
           call[Loop].symbol \in subscribed
      /\ call[Loop].op = "release" =>
           /\ call[Loop].symbol \in attached
           /\ (call[Loop].symbol \in subscribed) <=> (call[Loop].stage # "sync")
           /\ call[Loop].stage = "mark" => call[Loop].symbol \notin clientSubscribed

\* A client that calls holds a symbol that is neither attached nor, until it
\* has marked it, subscribed.
ClientInv ==
    \A c \in Clients : Busy(c) =>
      /\ phase # "starting" /\ call[c].op = "attach"
      /\ c \in refs[call[c].symbol] /\ call[c].symbol \notin attached
      /\ call[c].stage # "sync" => call[c].symbol \notin subscribed

\* The second client of a symbol finds the first one's reference.
UniqueInv ==
    \A c, d \in Clients :
      (Busy(c) /\ Busy(d) /\ call[c].symbol = call[d].symbol) => c = d

\* What has been attached and is not yet settled stays subscribed.
SyncInv ==
    Serving => \A t \in Threads :
      (Busy(t) /\ call[t].op = "attach" /\ call[t].stage = "sync") =>
        call[t].symbol \in subscribed

CallerInv == LoopInv /\ ClientInv /\ UniqueInv /\ SyncInv

\* The runtime believes the feed attached just when the manager lists it.
AttachedOf(s) == ~Settling(s) => ((s \in attached) <=> (s \in subscribed))

\* The call has subscribed the period, or not yet unsubscribed it.
Reached(t, p) ==
    IF call[t].stage = "subscribe" THEN p < call[t].period
    ELSE IF call[t].stage = "unsubscribe" THEN p >= call[t].period
    ELSE call[t].op # "release"

\* The SDK has the period once and the client its handle, or neither.
Fed(s, p) == live[s][p] = 1 /\ <<s, p>> \in handles
Unfed(s, p) == live[s][p] = 0 /\ <<s, p>> \notin handles

\* In a call the periods are subscribed as far as it has got, and between
\* calls as the manager lists the symbol.
FeedOf(s) ==
    /\ \A t \in Threads : Calling(t, s) =>
         \A p \in Periods : IF Reached(t, p) THEN Fed(s, p) ELSE Unfed(s, p)
    /\ (\A t \in Threads : ~Calling(t, s)) =>
         /\ \A p \in Periods : IF s \in subscribed THEN Fed(s, p) ELSE Unfed(s, p)
         /\ (s \in clientSubscribed) <=> (s \in subscribed)

\* Of the symbols without a failure.
AgreedInv == Serving => \A s \in Symbols \ faulty : AttachedOf(s) /\ FeedOf(s)

\* The call has still to subscribe the period, or has unsubscribed it.
Owing(t, s, p) ==
    /\ Calling(t, s)
    /\ \/ call[t].stage = "subscribe" /\ p >= call[t].period
       \/ call[t].stage = "unsubscribe" /\ p < call[t].period
       \/ call[t].stage = "mark" /\ call[t].op = "release"

\* Beyond the subscription the client has a handle for, the SDK has one for
\* each failure at most.
BoundOf(s, p) ==
    /\ live[s][p] >= 0 /\ live[s][p] <= failures + 1
    /\ <<s, p>> \in handles => live[s][p] >= 1
    /\ (phase # "stopped" /\ <<s, p>> \notin handles) => live[s][p] <= failures
    /\ (phase # "stopped" /\ s \notin subscribed /\ \A t \in Threads : ~Calling(t, s)) =>
         live[s][p] <= failures
    /\ \A t \in Threads : Owing(t, s, p) => live[s][p] <= failures

BoundInv == \A s \in Symbols, p \in Periods : BoundOf(s, p)

\* The tracker watches the symbols that the manager lists.
TrackInv ==
    Serving => \A s \in Symbols : (tracker[<<s, Parent>>] = "on") <=> (s \in subscribed)

IInv == TypeInv /\ CallerInv /\ AgreedInv /\ BoundInv /\ TrackInv

-----------------------------------------------------------------------------
(* Calls.                                                                  *)

LEMMA PeriodsAreNumbers ==
  /\ LastPeriod \in Nat /\ LastPeriod >= 1 /\ 1 \in Periods /\ Periods \subseteq Nat
  /\ \A p \in Periods : p >= 1 /\ p <= LastPeriod
  /\ \A p \in Periods : p # LastPeriod => p + 1 \in Periods
BY FeedAssumption DEF Periods

LEMMA IdleIsNoCall ==
  /\ Idle.op = "idle"
  /\ \A c \in Calls : c.op # "idle" /\ c # Idle
BY DEF Idle, Calls

LEMMA BusyHasCall ==
  ASSUME CallInv, NEW t \in Threads
  PROVE  /\ Busy(t) <=> call[t] \in Calls
         /\ ~Busy(t) <=> call[t] = Idle
BY IdleIsNoCall DEF CallInv, Busy

\* A call as it is begun.
LEMMA CallType ==
  ASSUME NEW op \in {"attach", "renew", "release"}, NEW stage \in Stages,
         NEW s \in Symbols, NEW keys \in SUBSET Streams
  PROVE  /\ Call(op, stage, s, keys) \in Calls
         /\ Call(op, stage, s, keys).op = op /\ Call(op, stage, s, keys).stage = stage
         /\ Call(op, stage, s, keys).symbol = s /\ Call(op, stage, s, keys).period = 1
BY PeriodsAreNumbers DEF Call, Calls

\* One more period.
LEMMA Advanced ==
  ASSUME CallInv, NEW t \in Threads, Busy(t), NEW after \in Stages, Advance(t, after)
  PROVE  /\ call' \in [Threads -> Calls \cup {Idle}]
         /\ \A u \in Threads \ {t} : call'[u] = call[u]
         /\ call'[t] \in Calls
         /\ call'[t].op = call[t].op /\ call'[t].symbol = call[t].symbol
         /\ call[t].period = LastPeriod => call'[t].stage = after /\ call'[t].period = 1
         /\ call[t].period # LastPeriod =>
              call'[t].stage = call[t].stage /\ call'[t].period = call[t].period + 1
<1>1. call[t] \in Calls /\ call[t].period \in Periods
  BY BusyHasCall DEF Calls
<1>2. /\ NextPeriod(call[t], after) \in Calls
      /\ NextPeriod(call[t], after).op = call[t].op
      /\ NextPeriod(call[t], after).symbol = call[t].symbol
  BY <1>1, PeriodsAreNumbers DEF Calls, NextPeriod
<1>3. call[t].period = LastPeriod =>
        NextPeriod(call[t], after).stage = after /\ NextPeriod(call[t], after).period = 1
  BY <1>1 DEF Calls, NextPeriod
<1>4. call[t].period # LastPeriod =>
        /\ NextPeriod(call[t], after).stage = call[t].stage
        /\ NextPeriod(call[t], after).period = call[t].period + 1
  BY <1>1 DEF Calls, NextPeriod
<1>5. call' = [call EXCEPT ![t] = NextPeriod(call[t], after)]
  BY DEF Advance
<1> QED  BY <1>2, <1>3, <1>4, <1>5 DEF CallInv

\* From the marks to the iteration over the streams.
LEMMA Synced ==
  ASSUME CallInv, NEW t \in Threads, Busy(t), NEW keys \in SUBSET Streams,
         call' = [call EXCEPT ![t] = Iterating(call[t], keys)]
  PROVE  /\ call' \in [Threads -> Calls \cup {Idle}]
         /\ \A u \in Threads \ {t} : call'[u] = call[u]
         /\ call'[t] \in Calls
         /\ call'[t].op = call[t].op /\ call'[t].symbol = call[t].symbol
         /\ call'[t].stage = "sync" /\ call'[t].period = call[t].period
<1>1. call[t] \in Calls
  BY BusyHasCall
<1>2. LET done == Iterating(call[t], keys)
      IN  /\ done \in Calls /\ done.op = call[t].op /\ done.symbol = call[t].symbol
          /\ done.stage = "sync" /\ done.period = call[t].period
  BY <1>1 DEF Iterating, Calls, Stages
<1> QED  BY <1>2 DEF CallInv

\* The thread returns from its call, or begins one.
LEMMA Changed ==
  ASSUME CallInv, NEW t \in Threads, NEW c \in Calls \cup {Idle},
         call' = [call EXCEPT ![t] = c]
  PROVE  /\ call' \in [Threads -> Calls \cup {Idle}]
         /\ \A u \in Threads \ {t} : call'[u] = call[u]
         /\ call'[t] = c
BY DEF CallInv

\* The call of a working thread.
LEMMA WorkingCall ==
  ASSUME CallInv, NEW t \in Threads, NEW stage, Working(t, stage)
  PROVE  /\ Busy(t) /\ call[t] \in Calls /\ call[t].stage = stage
         /\ call[t].symbol \in Symbols /\ call[t].period \in Periods
BY BusyHasCall DEF Working, Busy, Calls

-----------------------------------------------------------------------------
(* Types.                                                                  *)

LEMMA ParentIsStream ==
  /\ \A s \in Symbols : <<s, Parent>> \in Streams
  /\ \A s \in Symbols, p \in Periods : <<s, p>> \in Streams /\ p # Parent
  /\ Symbols \X Periods \subseteq Streams
<1>1. 0 \in 0..LastPeriod /\ Periods \subseteq 0..LastPeriod /\ \A p \in Periods : p # 0
  BY FeedAssumption DEF Periods
<1> QED  BY <1>1 DEF Streams, Parent

\* A backlog is recorded for streams.
LEMMA RecordedTypes ==
  ASSUME backlogged \subseteq Streams, NEW streams \in SUBSET Streams, RecordBacklog(streams)
  PROVE  backlogged' \subseteq Streams
BY DEF RecordBacklog

LEMMA AttachTypes ==
  ASSUME TypeInv, NEW t \in Threads, NEW s \in Symbols, BeginAttach(t, s)
  PROVE  CallInv' /\ attached' \subseteq Symbols
<1>1. CASE s \in subscribed
  BY <1>1 DEF BeginAttach, TypeInv, DataInv, CallInv, Busy
<1>2. CASE s \notin subscribed
  <2>1. SubscribeStage(s) \in Stages /\ SubscribeStage(s) # "unsubscribe"
    BY DEF SubscribeStage, Stages
  <2>2. call' = [call EXCEPT ![t] = Call("attach", SubscribeStage(s), s, {})] /\ attached' = attached
    BY <1>2 DEF BeginAttach
  <2> QED  BY <2>1, <2>2, CallType, Changed DEF TypeInv, DataInv, CallInv, Busy
<1> QED  BY <1>1, <1>2

\* The call of a thread returns, whatever the error.
LEMMA RaisedTypes ==
  ASSUME TypeInv, NEW t \in Threads, Raised(t)
  PROVE  CallInv' /\ phase' \in Phases
<1>1. CallInv'
  BY Changed, IdleIsNoCall DEF Raised, TypeInv, CallInv, Busy
<1>2. phase' \in Phases
  BY DEF Raised, Phases, TypeInv, DataInv
<1> QED  BY <1>1, <1>2

LEMMA InitTypes == Init => TypeInv
<1> SUFFICES ASSUME Init PROVE TypeInv
  OBVIOUS
<1>1. DataInv
  BY FeedAssumption DEF Init, DataInv, Phases, Places
<1>2. CallInv
  BY IdleIsNoCall DEF Init, CallInv, Busy
<1> QED  BY <1>1, <1>2 DEF TypeInv

LEMMA TypeStep == TypeInv /\ [Next]_vars => TypeInv'
<1> SUFFICES ASSUME TypeInv, [Next]_vars PROVE TypeInv'
  OBVIOUS
<1> USE DEF sdkVars, managerVars, trackerVars, runtimeVars, loopVars
<1>1. ASSUME NEW t \in Threads, SubscribePeriod(t)  PROVE TypeInv'
  <2>1. call[t].symbol \in Symbols /\ call[t].period \in Periods /\ Busy(t) /\ call[t].stage = "subscribe"
    BY <1>1, WorkingCall DEF SubscribePeriod, TypeInv
  <2>2. Advance(t, "mark") /\ "mark" \in Stages
    BY <1>1 DEF SubscribePeriod, Stages
  <2>3. CallInv'
    BY <2>1, <2>2, Advanced DEF TypeInv, CallInv, Busy
  <2>4. DataInv'
    BY <1>1, <2>1 DEF SubscribePeriod, TypeInv, DataInv
  <2> QED  BY <2>3, <2>4 DEF TypeInv
<1>2. ASSUME NEW t \in Threads, UnsubscribePeriod(t)  PROVE TypeInv'
  <2> DEFINE after == IF call[t].op = "release" THEN "mark" ELSE "subscribe"
  <2>1. call[t].symbol \in Symbols /\ call[t].period \in Periods /\ Busy(t) /\ call[t].stage = "unsubscribe"
    BY <1>2, WorkingCall DEF UnsubscribePeriod, TypeInv
  <2>2. Advance(t, after) /\ after \in Stages
    BY <1>2 DEF UnsubscribePeriod, Stages
  <2>3. CallInv'
    BY <2>1, <2>2, Advanced DEF TypeInv, CallInv, Busy
  <2>4. DataInv'
    BY <1>2, <2>1 DEF UnsubscribePeriod, TypeInv, DataInv
  <2> QED  BY <2>3, <2>4 DEF TypeInv
<1>3. ASSUME NEW t \in Threads, Mark(t)  PROVE TypeInv'
  <2>1. /\ call[t].symbol \in Symbols /\ Busy(t) /\ call[t].stage = "mark"
        /\ <<call[t].symbol, Parent>> \in Streams
    BY <1>3, WorkingCall, ParentIsStream DEF Mark, TypeInv
  <2> DEFINE keys == Keys \cup {<<call[t].symbol, Parent>>}
  <2>2. keys \in SUBSET Streams
    BY <2>1 DEF Keys
  <2>3. call' = [call EXCEPT ![t] = Iterating(call[t], keys)]
    BY <1>3 DEF Mark
  <2> HIDE DEF keys
  <2>4. CallInv'
    BY ZenonT(40), <2>1, <2>2, <2>3, Synced DEF TypeInv, CallInv, Busy
  <2>5. DataInv'
    BY <1>3, <2>1 DEF Mark, TypeInv, DataInv
  <2> QED  BY <2>4, <2>5 DEF TypeInv
<1>4. ASSUME NEW t \in Threads, MarkReleased(t)  PROVE TypeInv'
  <2>1. /\ call[t].symbol \in Symbols /\ Busy(t) /\ call[t].stage = "mark"
        /\ <<call[t].symbol, Parent>> \in Streams
    BY <1>4, WorkingCall, ParentIsStream DEF MarkReleased, TypeInv
  <2>2. Keys \in SUBSET Streams
    BY DEF Keys
  <2>3. call' = [call EXCEPT ![t] = Iterating(call[t], Keys)]
    BY <1>4 DEF MarkReleased
  <2>4. CallInv'
    BY ZenonT(40), <2>1, <2>2, <2>3, Synced DEF TypeInv, CallInv, Busy
  <2>5. DataInv'
    BY <1>4, <2>1 DEF MarkReleased, TypeInv, DataInv
  <2> QED  BY <2>4, <2>5 DEF TypeInv
<1>5. ASSUME NEW t \in Threads, Sync(t)  PROVE TypeInv'
  <2>1. call[t].symbol \in Symbols
    BY <1>5, WorkingCall DEF Sync, TypeInv
  <2>2. CASE Keys = call[t].keys
    <3>1. CallInv'
      BY <1>5, <2>2, Changed, IdleIsNoCall DEF Sync, TypeInv, CallInv, Busy
    <3>2. attached' \subseteq Symbols
      BY <1>5, <2>1, <2>2 DEF Sync, TypeInv, DataInv
    <3>3. DataInv'
      BY <1>5, <2>2, <3>2 DEF Sync, TypeInv, DataInv
    <3> QED  BY <3>1, <3>3 DEF TypeInv
  <2>3. CASE Keys # call[t].keys
    <3>1. CallInv' /\ phase' \in Phases
      BY <1>5, <2>3, RaisedTypes DEF Sync
    <3>2. DataInv'
      BY <1>5, <2>1, <2>3, <3>1 DEF Sync, TypeInv, DataInv
    <3> QED  BY <3>1, <3>2 DEF TypeInv
  <2> QED  BY <2>2, <2>3
<1>6. ASSUME NEW t \in Threads, SdkRaises(t)  PROVE TypeInv'
  <2>1. call[t].symbol \in Symbols /\ call[t].period \in Periods
    BY <1>6, BusyHasCall DEF SdkRaises, TypeInv, Busy, Calls
  <2>2. CallInv' /\ phase' \in Phases
    BY <1>6, RaisedTypes DEF SdkRaises
  <2>3. live' \in [Symbols -> [Periods -> Int]]
    BY <1>6, <2>1 DEF SdkRaises, TypeInv, DataInv
  <2>4. handles' \subseteq Symbols \X Periods
    BY <1>6 DEF SdkRaises, TypeInv, DataInv
  <2>5. failures' \in Nat /\ failures' <= MaxFailures
    BY <1>6, FeedAssumption DEF SdkRaises, TypeInv, DataInv
  <2>6. DataInv'
    BY <1>6, <2>1, <2>2, <2>3, <2>4, <2>5 DEF SdkRaises, TypeInv, DataInv
  <2> QED  BY <2>2, <2>6 DEF TypeInv
<1>7. ASSUME NEW c \in Clients, NEW s \in Symbols, Attach(c, s)  PROVE TypeInv'
  <2>1. CallInv' /\ attached' \subseteq Symbols
    BY <1>7, AttachTypes DEF Attach, Threads, TypeInv, DataInv, CallInv, Busy
  <2>2. DataInv'
    BY <1>7, <2>1 DEF Attach, TypeInv, DataInv
  <2> QED  BY <2>1, <2>2 DEF TypeInv
<1>8. ASSUME StartSymbol  PROVE TypeInv'
  <2>1. PICK s \in todo : todo' = todo \ {s} /\ BeginAttach(Loop, s)
    BY <1>8 DEF StartSymbol
  <2>2. CallInv' /\ attached' \subseteq Symbols
    BY <2>1, AttachTypes DEF Threads, TypeInv, DataInv
  <2>3. DataInv'
    BY <1>8, <2>1, <2>2 DEF StartSymbol, TypeInv, DataInv
  <2> QED  BY <2>2, <2>3 DEF TypeInv
<1>9. ASSUME Renew  PROVE TypeInv'
  <2>1. PICK s \in todo :
          /\ todo' = todo \ {s}
          /\ IF s \in subscribed /\ s \notin cooling
               THEN /\ cooling' = cooling \cup {s}
                    /\ call' = [call EXCEPT ![Loop] = Call("renew", "unsubscribe", s, {})]
               ELSE UNCHANGED <<cooling, call>>
    BY <1>9 DEF Renew
  <2>2. s \in Symbols /\ Loop \in Threads
    BY DEF TypeInv, DataInv, Threads
  <2>3. CallInv'
    BY <2>1, <2>2, Changed, CallType DEF TypeInv, CallInv, Busy, Stages
  <2>4. DataInv'
    BY <1>9, <2>1, <2>2 DEF Renew, TypeInv, DataInv
  <2> QED  BY <2>3, <2>4 DEF TypeInv
<1>10. ASSUME Evict  PROVE TypeInv'
  <2>1. PICK s \in attached :
          /\ refs[s] = {}
          /\ IF s \in subscribed
               THEN /\ call' = [call EXCEPT ![Loop] = Call("release", "unsubscribe", s, {})]
                    /\ UNCHANGED attached
               ELSE /\ attached' = attached \ {s}
                    /\ UNCHANGED call
    BY <1>10 DEF Evict
  <2>2. s \in Symbols /\ Loop \in Threads
    BY DEF TypeInv, DataInv, Threads
  <2>3. CallInv'
    BY <2>1, <2>2, Changed, CallType DEF TypeInv, CallInv, Busy, Stages
  <2>4. DataInv'
    BY <1>10, <2>1, <2>2 DEF Evict, TypeInv, DataInv
  <2> QED  BY <2>3, <2>4 DEF TypeInv
<1>11. ASSUME NEW s \in Symbols, NEW p \in Periods, Deliver(s, p)  PROVE TypeInv'
  <2>1. {<<s, Parent>>} \in SUBSET Streams /\ RecordBacklog({<<s, Parent>>}) /\ backlogged \subseteq Streams
    BY <1>11, ParentIsStream DEF Deliver, TypeInv, DataInv
  <2>2. backlogged' \subseteq Streams
    BY <2>1, RecordedTypes
  <2>3. queued' \subseteq Symbols \X Periods
    <3>1. <<s, p>> \in Symbols \X Periods /\ queued' \in {queued, queued \cup {<<s, p>>}}
      BY <1>11 DEF Deliver
    <3> QED  BY <3>1 DEF TypeInv, DataInv
  <2>4. tracker' \in [Streams -> {"none", "off", "on"}]
    BY <1>11 DEF Deliver, TypeInv, DataInv
  <2> QED  BY <1>11, <2>2, <2>3, <2>4 DEF Deliver, TypeInv, DataInv, CallInv, Busy
<1>12. ASSUME Ingest  PROVE TypeInv'
  <2>1. PICK e \in queued :
          /\ queued' = queued \ {e}
          /\ tracker' \in {tracker, [tracker EXCEPT ![e] = "on"]}
          /\ quiet' \subseteq quiet
          /\ \/ RecordBacklog({e, <<e[1], Parent>>})
             \/ RecordBacklog({<<e[1], Parent>>})
    BY <1>12 DEF Ingest
  <2>2. e \in Streams /\ <<e[1], Parent>> \in Streams
    BY ParentIsStream DEF TypeInv, DataInv
  <2>3. {e, <<e[1], Parent>>} \in SUBSET Streams /\ {<<e[1], Parent>>} \in SUBSET Streams
    BY <2>2
  <2>4. backlogged' \subseteq Streams
    BY <2>1, <2>3, RecordedTypes DEF TypeInv, DataInv
  <2>5. /\ queued' \subseteq Symbols \X Periods /\ quiet' \subseteq Streams
        /\ tracker' \in [Streams -> {"none", "off", "on"}]
    BY <2>1 DEF TypeInv, DataInv
  <2> QED  BY <1>12, <2>4, <2>5 DEF Ingest, TypeInv, DataInv, CallInv, Busy
<1>13. ASSUME NEW st \in Streams, Age(st[1], st[2])  PROVE TypeInv'
  BY <1>13 DEF Age, Streams, TypeInv, DataInv, CallInv, Busy
<1>14. ASSUME NEW c \in Clients, NEW s \in Symbols, Detach(c, s)  PROVE TypeInv'
  BY <1>14 DEF Detach, TypeInv, DataInv, CallInv, Busy
<1>15. ASSUME Connect  PROVE TypeInv'
  BY <1>15, FeedAssumption DEF Connect, TypeInv, DataInv, CallInv, Busy, Phases, Places
<1>16. ASSUME EndEvaluate  PROVE TypeInv'
  BY <1>16 DEF EndEvaluate, StaleSymbols, Streams, TypeInv, DataInv, CallInv, Busy, Phases, Places
<1>17. ASSUME BeginEvaluate  PROVE TypeInv'
  BY <1>17 DEF BeginEvaluate, Keys, TypeInv, DataInv, CallInv, Busy, Places
<1>18. ASSUME \/ \E s \in Symbols : CoolDown(s)
              \/ GoLive \/ BeginEvict \/ EndTick \/ Stop \/ UNCHANGED vars
       PROVE TypeInv'
  BY <1>18 DEF CoolDown, GoLive, BeginEvict, EndTick, Stop, vars,
               TypeInv, DataInv, CallInv, Busy, Phases, Places
<1> QED  BY <1>1, <1>2, <1>3, <1>4, <1>5, <1>6, <1>7, <1>8, <1>9, <1>10, <1>11, <1>12, <1>13, <1>14,
            <1>15, <1>16, <1>17, <1>18 DEF Next, SdkReturns

-----------------------------------------------------------------------------
(* Who calls.                                                              *)

\* One thread at a time is about to change the subscriptions of a symbol.
LEMMA Alone ==
  ASSUME LoopInv, ClientInv, UniqueInv, NEW s, NEW t \in Threads, NEW u \in Threads,
         Calling(t, s), Calling(u, s)
  PROVE  t = u
<1>1. ASSUME NEW c \in Clients, Calling(c, s)  PROVE ~Calling(Loop, s)
  BY <1>1 DEF LoopInv, ClientInv, Calling, Busy
<1>2. CASE t \in Clients /\ u \in Clients
  BY <1>2 DEF UniqueInv, Calling
<1> QED  BY <1>1, <1>2 DEF Threads

\* No client calls for a symbol that nobody holds or that is attached, and
\* the loop not for one that is neither subscribed nor attached, once it has
\* started.
LEMMA NoCaller ==
  ASSUME LoopInv, ClientInv, NEW s,
         \/ phase = "live" /\ refs[s] = {} /\ s \notin attached /\ s \notin subscribed
         \/ phase = "live" /\ ~Busy(Loop) /\ s \in attached
         \/ phase = "live" /\ ~Busy(Loop) /\ s \in subscribed
         \/ phase = "starting" /\ ~Busy(Loop)
  PROVE  \A t \in Threads : ~Calling(t, s)
<1>1. \A c \in Clients : ~Calling(c, s)
  BY DEF ClientInv, Calling, Busy
<1>2. ~Calling(Loop, s)
  BY DEF LoopInv, Calling, Busy
<1> QED  BY <1>1, <1>2 DEF Threads

LEMMA LoopIsNoClient == Loop \in Threads /\ Loop \notin Clients /\ Clients \subseteq Threads
BY FeedAssumption DEF Threads

LEMMA SubscribeEffect ==
  ASSUME TypeInv, NEW t \in Threads, SubscribePeriod(t)
  PROVE  /\ Busy(t) /\ call[t] \in Calls /\ call[t].stage = "subscribe" /\ call[t].op # "release"
         /\ \A u \in Threads \ {t} : call'[u] = call[u]
         /\ call'[t].op = call[t].op /\ call'[t].symbol = call[t].symbol
         /\ call[t].period = LastPeriod => call'[t].stage = "mark"
         /\ call[t].period # LastPeriod =>
              call'[t].stage = "subscribe" /\ call'[t].period = call[t].period + 1
<1>1. Busy(t) /\ call[t] \in Calls /\ call[t].stage = "subscribe"
  BY WorkingCall DEF SubscribePeriod, TypeInv
<1>2. Advance(t, "mark") /\ "mark" \in Stages
  BY DEF SubscribePeriod, Stages
<1>3. call[t].op # "release"
  BY <1>1 DEF TypeInv, CallInv
<1> QED  BY <1>1, <1>2, <1>3, Advanced DEF TypeInv

\* Only the loop unsubscribes.
LEMMA UnsubscribeEffect ==
  ASSUME TypeInv, ClientInv, NEW t \in Threads, UnsubscribePeriod(t)
  PROVE  /\ t = Loop /\ Busy(t) /\ call[t] \in Calls /\ call[t].stage = "unsubscribe"
         /\ call[t].op \in {"renew", "release"}
         /\ \A u \in Threads \ {t} : call'[u] = call[u]
         /\ call'[t].op = call[t].op /\ call'[t].symbol = call[t].symbol
         /\ call[t].period = LastPeriod =>
              /\ call'[t].period = 1
              /\ call[t].op = "release" => call'[t].stage = "mark"
              /\ call[t].op = "renew" => call'[t].stage = "subscribe"
         /\ call[t].period # LastPeriod =>
              call'[t].stage = "unsubscribe" /\ call'[t].period = call[t].period + 1
<1> DEFINE after == IF call[t].op = "release" THEN "mark" ELSE "subscribe"
<1>1. Busy(t) /\ call[t] \in Calls /\ call[t].stage = "unsubscribe"
  BY WorkingCall DEF UnsubscribePeriod, TypeInv
<1>2. Advance(t, after) /\ after \in Stages
  BY DEF UnsubscribePeriod, Stages
<1>3. t = Loop /\ call[t].op \in {"renew", "release"}
  BY <1>1 DEF ClientInv, TypeInv, CallInv, Threads, Calls
<1> QED  BY <1>1, <1>2, <1>3, Advanced DEF TypeInv

LEMMA MarkEffect ==
  ASSUME TypeInv, NEW t \in Threads, Mark(t)
  PROVE  /\ Busy(t) /\ call[t] \in Calls /\ call[t].stage = "mark"
         /\ call[t].op \in {"attach", "renew"}
         /\ \A u \in Threads \ {t} : call'[u] = call[u]
         /\ call'[t].op = call[t].op /\ call'[t].symbol = call[t].symbol
         /\ call'[t].stage = "sync"
<1>1. Busy(t) /\ call[t] \in Calls /\ call[t].stage = "mark" /\ call[t].op # "release"
  BY WorkingCall DEF Mark, TypeInv
<1> DEFINE keys == Keys \cup {<<call[t].symbol, Parent>>}
<1>2. keys \in SUBSET Streams
  BY <1>1, ParentIsStream DEF Keys, Calls
<1>3. call' = [call EXCEPT ![t] = Iterating(call[t], keys)]
  BY DEF Mark
<1> HIDE DEF keys
<1>4. call[t].op \in {"attach", "renew"}
  BY <1>1 DEF Calls
<1> QED  BY <1>1, <1>2, <1>3, <1>4, Synced DEF TypeInv

\* Only the loop releases.
LEMMA MarkReleasedEffect ==
  ASSUME TypeInv, ClientInv, NEW t \in Threads, MarkReleased(t)
  PROVE  /\ t = Loop /\ Busy(t) /\ call[t] \in Calls /\ call[t].stage = "mark" /\ call[t].op = "release"
         /\ \A u \in Threads \ {t} : call'[u] = call[u]
         /\ call'[t].op = call[t].op /\ call'[t].symbol = call[t].symbol
         /\ call'[t].stage = "sync"
<1>1. Busy(t) /\ call[t] \in Calls /\ call[t].stage = "mark" /\ call[t].op = "release"
  BY WorkingCall DEF MarkReleased, TypeInv
<1>2. t = Loop
  BY <1>1 DEF ClientInv, Threads
<1>3. call' = [call EXCEPT ![t] = Iterating(call[t], Keys)] /\ Keys \in SUBSET Streams
  BY DEF MarkReleased, Keys
<1> QED  BY <1>1, <1>2, <1>3, Synced DEF TypeInv

LEMMA SubscribeCaller ==
  ASSUME TypeInv, CallerInv, NEW t \in Threads, SubscribePeriod(t)
  PROVE  CallerInv'
<1> USE LoopIsNoClient DEF CallerInv, sdkVars, managerVars, trackerVars, runtimeVars, loopVars
<1>1. /\ Busy(t) /\ call[t].stage = "subscribe" /\ call[t].op # "release"
      /\ \A u \in Threads \ {t} : call'[u] = call[u]
      /\ call'[t].op = call[t].op /\ call'[t].symbol = call[t].symbol
      /\ call'[t].stage \in {"subscribe", "mark"}
  BY SubscribeEffect
<1>2. LoopInv'
  BY <1>1 DEF SubscribePeriod, LoopInv, Busy
<1>3. ClientInv'
  BY <1>1 DEF SubscribePeriod, ClientInv, Busy
<1>4. UniqueInv'
  BY <1>1 DEF SubscribePeriod, UniqueInv, Busy
<1>5. SyncInv'
  BY <1>1 DEF SubscribePeriod, SyncInv, Serving, Busy
<1> QED  BY <1>2, <1>3, <1>4, <1>5

LEMMA UnsubscribeCaller ==
  ASSUME TypeInv, CallerInv, NEW t \in Threads, UnsubscribePeriod(t)
  PROVE  CallerInv'
<1> USE LoopIsNoClient DEF CallerInv, sdkVars, managerVars, trackerVars, runtimeVars, loopVars
<1>1. /\ t = Loop /\ Busy(t) /\ call[t].stage = "unsubscribe"
      /\ \A u \in Threads \ {t} : call'[u] = call[u]
      /\ call'[t].op = call[t].op /\ call'[t].symbol = call[t].symbol
      /\ call[t].period # LastPeriod => call'[t].stage = "unsubscribe"
      /\ call[t].period = LastPeriod =>
           call'[t].stage = IF call[t].op = "release" THEN "mark" ELSE "subscribe"
  BY UnsubscribeEffect
<1>2. LoopInv'
  BY <1>1 DEF UnsubscribePeriod, LoopInv, Busy
<1>3. ClientInv'
  BY <1>1 DEF UnsubscribePeriod, ClientInv, Busy
<1>4. UniqueInv'
  BY <1>1 DEF UnsubscribePeriod, UniqueInv, Busy
<1>5. SyncInv'
  BY <1>1 DEF UnsubscribePeriod, SyncInv, Serving, Busy
<1> QED  BY <1>2, <1>3, <1>4, <1>5

LEMMA MarkCaller ==
  ASSUME TypeInv, CallerInv, NEW t \in Threads, Mark(t)
  PROVE  CallerInv'
<1> USE LoopIsNoClient DEF CallerInv, sdkVars, managerVars, trackerVars, runtimeVars, loopVars
<1>1. /\ Busy(t) /\ call[t].stage = "mark" /\ call[t].op # "release"
      /\ \A u \in Threads \ {t} : call'[u] = call[u]
      /\ call'[t].op = call[t].op /\ call'[t].symbol = call[t].symbol
      /\ call'[t].stage = "sync"
  BY MarkEffect
<1>2. /\ subscribed' = IF call[t].op = "attach" THEN subscribed \cup {call[t].symbol} ELSE subscribed
      /\ clientSubscribed' = clientSubscribed \cup {call[t].symbol}
      /\ phase' = phase /\ attached' = attached /\ refs' = refs /\ loopAt' = loopAt
  BY DEF Mark
<1>3. t \in Clients => ~(Busy(Loop) /\ call[Loop].op = "attach")
  BY <1>1 DEF LoopInv, ClientInv
<1>4. t \in Clients => (Busy(Loop) /\ call[Loop].op = "release" => call[Loop].symbol # call[t].symbol)
  BY <1>1 DEF LoopInv, ClientInv
<1>5. LoopInv'
  BY <1>1, <1>2, <1>3, <1>4 DEF LoopInv, Busy, Threads
<1>6. \A c \in Clients : (Busy(c) /\ c # t /\ call[t].op = "attach") => call[c].symbol # call[t].symbol
  BY <1>1 DEF LoopInv, ClientInv, UniqueInv, Threads
<1>7. ClientInv'
  BY <1>1, <1>2, <1>6 DEF ClientInv, Busy
<1>8. UniqueInv'
  BY <1>1 DEF UniqueInv, Busy
<1>9. SyncInv'
  BY <1>1, <1>2 DEF SyncInv, Serving, Busy
<1> QED  BY <1>5, <1>7, <1>8, <1>9

LEMMA MarkReleasedCaller ==
  ASSUME TypeInv, CallerInv, NEW t \in Threads, MarkReleased(t)
  PROVE  CallerInv' /\ t = Loop
<1> USE LoopIsNoClient DEF CallerInv, sdkVars, managerVars, trackerVars, runtimeVars, loopVars
<1>1. /\ t = Loop /\ Busy(t) /\ call[t].stage = "mark" /\ call[t].op = "release"
      /\ \A u \in Threads \ {t} : call'[u] = call[u]
      /\ call'[t].op = call[t].op /\ call'[t].symbol = call[t].symbol
      /\ call'[t].stage = "sync"
  BY MarkReleasedEffect
<1>2. /\ subscribed' = subscribed \ {call[t].symbol} /\ clientSubscribed' = clientSubscribed
      /\ phase' = phase /\ attached' = attached /\ refs' = refs /\ loopAt' = loopAt
  BY DEF MarkReleased
<1>3. LoopInv'
  BY <1>1, <1>2 DEF LoopInv, Busy
<1>4. ClientInv'
  BY <1>1, <1>2 DEF ClientInv, Busy
<1>5. UniqueInv'
  BY <1>1 DEF UniqueInv, Busy
<1>6. SyncInv'
  BY <1>1, <1>2 DEF SyncInv, LoopInv, ClientInv, Serving, Busy, Threads
<1> QED  BY <1>1, <1>3, <1>4, <1>5, <1>6

LEMMA RaisedPhase ==
  ASSUME TypeInv, CallerInv, NEW t \in Threads, Busy(t), Raised(t)
  PROVE  /\ \A u \in Threads \ {t} : call'[u] = call[u]
         /\ call'[t].op = "idle"
         /\ phase' = phase \/ (t = Loop /\ phase' \in {"failed", "ended"})
<1>1. call' = [call EXCEPT ![t] = Idle]
  BY DEF Raised
<1>2. (\A u \in Threads \ {t} : call'[u] = call[u]) /\ call'[t].op = "idle"
  BY <1>1, Changed, IdleIsNoCall DEF TypeInv
<1>3. phase' = phase \/ (t = Loop /\ phase' \in {"failed", "ended"})
  BY DEF Raised, CallerInv, ClientInv, Threads
<1> QED  BY <1>2, <1>3

LEMMA SyncCaller ==
  ASSUME TypeInv, CallerInv, NEW t \in Threads, Sync(t)
  PROVE  CallerInv'
<1> USE LoopIsNoClient DEF CallerInv, sdkVars, managerVars, trackerVars, runtimeVars, loopVars
<1>1. Busy(t) /\ call[t] \in Calls /\ call[t].stage = "sync"
  BY WorkingCall DEF Sync, TypeInv
<1>2. /\ \A u \in Threads \ {t} : call'[u] = call[u]
      /\ call'[t].op = "idle"
      /\ phase' = phase \/ (t = Loop /\ phase' \in {"failed", "ended"})
  <2>1. CASE Keys = call[t].keys
    <3>1. call' = [call EXCEPT ![t] = Idle] /\ phase' = phase
      BY <2>1 DEF Sync
    <3> QED  BY <3>1, Changed, IdleIsNoCall DEF TypeInv
  <2>2. CASE Keys # call[t].keys
    BY <1>1, <2>2, RaisedPhase DEF Sync
  <2> QED  BY <2>1, <2>2
<1>3. refs' = refs /\ loopAt' = loopAt /\ subscribed' = subscribed /\ clientSubscribed' = clientSubscribed
  BY DEF Sync
<1>4. /\ attached' \subseteq attached \cup {call[t].symbol}
      /\ call[t].op # "attach" => attached' \subseteq attached
      /\ call[t].op # "release" => attached \subseteq attached'
  BY DEF Sync
<1>5. LoopInv'
  <2>1. CASE t = Loop
    BY <1>2, <2>1 DEF LoopInv, Busy
  <2>2. CASE t # Loop
    <3>1. call[t].op = "attach" /\ phase' = phase
      BY <1>1, <1>2, <2>2 DEF ClientInv, Threads
    <3> QED  BY <1>2, <1>3, <1>4, <2>2, <3>1 DEF LoopInv, Busy
  <2> QED  BY <2>1, <2>2
<1>6. \A c \in Clients : Busy(c) /\ c # t => call[c].symbol \notin attached'
  <2> SUFFICES ASSUME NEW c \in Clients, Busy(c), c # t, call[c].symbol \in attached'  PROVE FALSE
    OBVIOUS
  <2>1. call[t].op = "attach" /\ call[c].symbol = call[t].symbol
    BY <1>4 DEF ClientInv
  <2>2. t # Loop
    BY <1>1, <2>1 DEF LoopInv, ClientInv
  <2> QED  BY <1>1, <2>1, <2>2 DEF UniqueInv, Threads
<1>7. ClientInv'
  BY <1>2, <1>3, <1>6 DEF ClientInv, Busy
<1>8. UniqueInv'
  BY <1>2 DEF UniqueInv, Busy
<1>9. SyncInv'
  BY <1>2, <1>3 DEF SyncInv, Serving, Busy
<1> QED  BY <1>5, <1>7, <1>8, <1>9

LEMMA SdkRaisesCaller ==
  ASSUME TypeInv, CallerInv, NEW t \in Threads, SdkRaises(t)
  PROVE  CallerInv'
<1> USE LoopIsNoClient DEF CallerInv, sdkVars, managerVars, trackerVars, runtimeVars, loopVars
<1>1. Busy(t) /\ Raised(t)
  BY DEF SdkRaises, Busy
<1>2. /\ \A u \in Threads \ {t} : call'[u] = call[u]
      /\ call'[t].op = "idle"
      /\ phase' = phase \/ (t = Loop /\ phase' \in {"failed", "ended"})
  BY <1>1, RaisedPhase
<1>3. /\ refs' = refs /\ loopAt' = loopAt /\ subscribed' = subscribed
      /\ clientSubscribed' = clientSubscribed /\ attached' = attached
  BY DEF SdkRaises
<1>4. LoopInv'
  BY <1>2, <1>3 DEF LoopInv, Busy
<1>5. ClientInv'
  BY <1>2, <1>3 DEF ClientInv, Busy
<1>6. UniqueInv'
  BY <1>2 DEF UniqueInv, Busy
<1>7. SyncInv'
  BY <1>2, <1>3 DEF SyncInv, Serving, Busy
<1> QED  BY <1>4, <1>5, <1>6, <1>7

\* What an attach that begins does: a call, or the symbol is attached.
LEMMA Attaching ==
  ASSUME TypeInv, NEW t \in Threads, ~Busy(t), NEW s \in Symbols, BeginAttach(t, s)
  PROVE  /\ s \in subscribed => call' = call /\ attached' = attached \cup {s}
         /\ s \notin subscribed =>
              /\ attached' = attached
              /\ \A u \in Threads \ {t} : call'[u] = call[u]
              /\ call'[t].op = "attach" /\ call'[t].stage = SubscribeStage(s)
              /\ call'[t].symbol = s /\ call'[t].period = 1
              /\ SubscribeStage(s) \in {"subscribe", "mark"}
<1>1. CASE s \in subscribed
  BY <1>1 DEF BeginAttach
<1>2. CASE s \notin subscribed
  <2>1. SubscribeStage(s) \in {"subscribe", "mark"} /\ SubscribeStage(s) \in Stages
    BY DEF SubscribeStage, Stages
  <2>2. call' = [call EXCEPT ![t] = Call("attach", SubscribeStage(s), s, {})] /\ attached' = attached
    BY <1>2 DEF BeginAttach
  <2> DEFINE begun == Call("attach", SubscribeStage(s), s, {})
  <2>3. /\ begun \in Calls /\ begun.op = "attach" /\ begun.stage = SubscribeStage(s)
        /\ begun.symbol = s /\ begun.period = 1
    BY <2>1, CallType
  <2>4. call' = [call EXCEPT ![t] = begun]
    BY <2>2
  <2> HIDE DEF begun
  <2>5. call'[t] = begun /\ \A u \in Threads \ {t} : call'[u] = call[u]
    BY <2>3, <2>4, Changed DEF TypeInv
  <2> QED  BY <1>2, <2>1, <2>2, <2>3, <2>5
<1> QED  BY <1>1, <1>2

LEMMA AttachCaller ==
  ASSUME TypeInv, CallerInv, NEW c \in Clients, NEW s \in Symbols, Attach(c, s)
  PROVE  CallerInv'
<1> USE LoopIsNoClient DEF CallerInv, sdkVars, managerVars, trackerVars, runtimeVars, loopVars
<1>1. c \in Threads /\ ~Busy(c) /\ phase = "live"
  BY IdleIsNoCall DEF Attach, Busy
<1>2. /\ phase' = phase /\ loopAt' = loopAt /\ subscribed' = subscribed
      /\ clientSubscribed' = clientSubscribed
      /\ \A r \in Symbols : refs[r] \subseteq refs'[r]
      /\ c \in refs'[s]
  BY DEF Attach, TypeInv, DataInv
<1>3. \A d \in Clients : Busy(d) => call[d].symbol \in Symbols
  BY BusyHasCall DEF TypeInv, Calls
<1>4. CASE call' = call /\ attached' = attached
  BY <1>2, <1>3, <1>4 DEF LoopInv, ClientInv, UniqueInv, SyncInv, Serving, Busy
<1>5. CASE refs[s] = {} /\ s \notin attached /\ BeginAttach(c, s)
  <2>1. \A d \in Clients : Busy(d) => call[d].symbol # s
    BY <1>5 DEF ClientInv
  <2>2. CASE s \in subscribed
    <3>1. call' = call /\ attached' = attached \cup {s}
      BY <1>1, <1>5, <2>2, Attaching
    <3>2. LoopInv' /\ UniqueInv' /\ SyncInv'
      BY <1>2, <3>1 DEF LoopInv, UniqueInv, SyncInv, Serving, Busy
    <3>3. ClientInv'
      BY <1>2, <1>3, <2>1, <3>1 DEF ClientInv, Busy
    <3> QED  BY <3>2, <3>3
  <2>3. CASE s \notin subscribed
    <3>1. /\ attached' = attached
          /\ \A u \in Threads \ {c} : call'[u] = call[u]
          /\ call'[c].op = "attach" /\ call'[c].stage \in {"subscribe", "mark"}
          /\ call'[c].symbol = s
      BY <1>1, <1>5, <2>3, Attaching
    <3>2. LoopInv'
      BY <1>2, <3>1 DEF LoopInv, Busy
    <3>3. ClientInv'
      BY <1>1, <1>2, <1>3, <1>5, <2>3, <3>1 DEF ClientInv, Busy
    <3>4. UniqueInv'
      BY <2>1, <3>1 DEF UniqueInv, Busy
    <3>5. SyncInv'
      BY <1>2, <3>1 DEF SyncInv, Serving, Busy
    <3> QED  BY <3>2, <3>3, <3>4, <3>5
  <2> QED  BY <2>2, <2>3
<1> QED  BY <1>4, <1>5 DEF Attach

LEMMA StartCaller ==
  ASSUME TypeInv, CallerInv, StartSymbol
  PROVE  CallerInv'
<1> USE LoopIsNoClient DEF CallerInv, sdkVars, managerVars, trackerVars, runtimeVars, loopVars
<1>1. PICK s \in todo : BeginAttach(Loop, s)
  BY DEF StartSymbol
<1>2. s \in Symbols /\ phase = "starting" /\ loopAt = "start" /\ ~Busy(Loop)
  BY IdleIsNoCall DEF StartSymbol, LoopIdleAt, TypeInv, DataInv, Busy
<1>3. \A d \in Clients : ~Busy(d)
  BY <1>2 DEF ClientInv
<1>4. /\ phase' = phase /\ loopAt' = loopAt /\ subscribed' = subscribed
      /\ clientSubscribed' = clientSubscribed /\ refs' = refs
  BY DEF StartSymbol
<1>5. CASE s \in subscribed
  <2>1. call' = call
    BY <1>1, <1>2, <1>5, Attaching
  <2> QED  BY <1>2, <1>3, <1>4, <2>1 DEF LoopInv, ClientInv, UniqueInv, SyncInv, Serving, Busy, Threads
<1>6. CASE s \notin subscribed
  <2>1. /\ \A u \in Threads \ {Loop} : call'[u] = call[u]
        /\ call'[Loop].op = "attach" /\ call'[Loop].stage \in {"subscribe", "mark"}
        /\ call'[Loop].symbol = s
    BY <1>1, <1>2, <1>6, Attaching
  <2>2. \A d \in Clients : ~Busy(d)'
    BY <1>3, <2>1 DEF Busy
  <2> QED  BY <1>2, <1>4, <1>6, <2>1, <2>2 DEF LoopInv, ClientInv, UniqueInv, SyncInv, Serving, Busy, Threads
<1> QED  BY <1>5, <1>6

\* The loop begins to renew a symbol that is subscribed, or lets it be.
LEMMA Renewing ==
  ASSUME TypeInv, Renew
  PROVE  \/ call' = call
         \/ \E s \in Symbols :
              /\ s \in subscribed
              /\ \A u \in Threads \ {Loop} : call'[u] = call[u]
              /\ call'[Loop].op = "renew" /\ call'[Loop].stage = "unsubscribe"
              /\ call'[Loop].symbol = s /\ call'[Loop].period = 1
<1>1. SUFFICES ASSUME call' # call
               PROVE  \E s \in Symbols :
                        /\ s \in subscribed
                        /\ \A u \in Threads \ {Loop} : call'[u] = call[u]
                        /\ call'[Loop].op = "renew" /\ call'[Loop].stage = "unsubscribe"
                        /\ call'[Loop].symbol = s /\ call'[Loop].period = 1
  OBVIOUS
<1>2. PICK s \in todo : /\ s \in subscribed
                        /\ call' = [call EXCEPT ![Loop] = Call("renew", "unsubscribe", s, {})]
  BY <1>1 DEF Renew
<1> DEFINE begun == Call("renew", "unsubscribe", s, {})
<1>3. s \in Symbols /\ "unsubscribe" \in Stages
  BY DEF TypeInv, DataInv, Stages
<1>4. /\ begun \in Calls /\ begun.op = "renew" /\ begun.stage = "unsubscribe"
      /\ begun.symbol = s /\ begun.period = 1
  BY <1>3, CallType
<1>5. call' = [call EXCEPT ![Loop] = begun]
  BY <1>2
<1> HIDE DEF begun
<1>6. call'[Loop] = begun /\ \A u \in Threads \ {Loop} : call'[u] = call[u]
  BY <1>4, <1>5, Changed, LoopIsNoClient DEF TypeInv
<1> QED  BY <1>2, <1>3, <1>4, <1>6

\* The loop begins to release a symbol that nobody holds, or forgets one
\* that is not subscribed.
LEMMA Evicting ==
  ASSUME TypeInv, Evict
  PROVE  \E s \in Symbols :
           /\ s \in attached /\ refs[s] = {}
           /\ \/ s \notin subscribed /\ call' = call /\ attached' = attached \ {s}
              \/ /\ s \in subscribed /\ attached' = attached
                 /\ \A u \in Threads \ {Loop} : call'[u] = call[u]
                 /\ call'[Loop].op = "release" /\ call'[Loop].stage = "unsubscribe"
                 /\ call'[Loop].symbol = s /\ call'[Loop].period = 1
<1>1. PICK s \in attached :
        /\ refs[s] = {}
        /\ IF s \in subscribed
             THEN /\ call' = [call EXCEPT ![Loop] = Call("release", "unsubscribe", s, {})]
                  /\ UNCHANGED attached
             ELSE /\ attached' = attached \ {s}
                  /\ UNCHANGED call
  BY DEF Evict
<1> DEFINE begun == Call("release", "unsubscribe", s, {})
<1>2. s \in Symbols /\ "unsubscribe" \in Stages
  BY DEF TypeInv, DataInv, Stages
<1>3. /\ begun \in Calls /\ begun.op = "release" /\ begun.stage = "unsubscribe"
      /\ begun.symbol = s /\ begun.period = 1
  BY <1>2, CallType
<1>4. s \in subscribed => call' = [call EXCEPT ![Loop] = begun] /\ attached' = attached
  BY <1>1
<1> HIDE DEF begun
<1>5. s \in subscribed => call'[Loop] = begun /\ \A u \in Threads \ {Loop} : call'[u] = call[u]
  BY <1>3, <1>4, Changed, LoopIsNoClient DEF TypeInv
<1> QED  BY <1>1, <1>2, <1>3, <1>4, <1>5

LEMMA TickCaller ==
  ASSUME TypeInv, CallerInv, Renew \/ Evict
  PROVE  CallerInv'
<1> USE LoopIsNoClient DEF CallerInv, sdkVars, managerVars, trackerVars, runtimeVars, loopVars
<1>1. ~Busy(Loop) /\ phase = "live" /\ loopAt = IF Renew THEN "renew" ELSE loopAt
  BY IdleIsNoCall DEF Renew, Evict, LoopIdleAt, Busy
<1>2. /\ phase' = phase /\ loopAt' = loopAt /\ subscribed' = subscribed
      /\ clientSubscribed' = clientSubscribed /\ refs' = refs
  BY DEF Renew, Evict
<1>3. CASE Renew
  <2>1. loopAt = "renew" /\ attached' = attached
    BY <1>3 DEF Renew, LoopIdleAt
  <2>2. CASE call' = call
    BY <1>2, <2>1, <2>2 DEF LoopInv, ClientInv, UniqueInv, SyncInv, Serving, Busy
  <2>3. CASE call' # call
    <3>1. PICK s \in Symbols :
            /\ s \in subscribed
            /\ \A u \in Threads \ {Loop} : call'[u] = call[u]
            /\ call'[Loop].op = "renew" /\ call'[Loop].stage = "unsubscribe"
            /\ call'[Loop].symbol = s
      BY <1>3, <2>3, Renewing
    <3>2. LoopInv'
      BY <1>1, <1>2, <2>1, <3>1 DEF LoopInv
    <3>3. ClientInv' /\ UniqueInv' /\ SyncInv'
      BY <1>2, <2>1, <3>1 DEF ClientInv, UniqueInv, SyncInv, Serving, Busy
    <3> QED  BY <3>2, <3>3
  <2> QED  BY <2>2, <2>3
<1>4. CASE Evict
  <2>1. loopAt = "evict"
    BY <1>4 DEF Evict, LoopIdleAt
  <2>2. PICK s \in Symbols :
          /\ s \in attached /\ refs[s] = {}
          /\ \/ s \notin subscribed /\ call' = call /\ attached' = attached \ {s}
             \/ /\ s \in subscribed /\ attached' = attached
                /\ \A u \in Threads \ {Loop} : call'[u] = call[u]
                /\ call'[Loop].op = "release" /\ call'[Loop].stage = "unsubscribe"
                /\ call'[Loop].symbol = s
    BY <1>4, Evicting
  <2>3. \A u \in Clients : call'[u] = call[u]
    BY <2>2
  <2>4. LoopInv'
    BY <1>1, <1>2, <2>1, <2>2 DEF LoopInv, Busy
  <2>5. ClientInv' /\ UniqueInv'
    BY <1>2, <2>2, <2>3 DEF ClientInv, UniqueInv, Busy
  <2>6. SyncInv'
    BY <1>2, <2>2 DEF SyncInv, Serving, Busy
  <2> QED  BY <2>4, <2>5, <2>6
<1> QED  BY <1>3, <1>4

\* A step that is neither a call's nor begins one.
Aside ==
    \/ \E s \in Symbols, p \in Periods : Deliver(s, p)
    \/ \E c \in Clients, s \in Symbols : Detach(c, s)
    \/ \E st \in Streams : Age(st[1], st[2])
    \/ \E s \in Symbols : CoolDown(s)
    \/ Connect \/ GoLive \/ Ingest \/ BeginEvaluate \/ EndEvaluate \/ BeginEvict \/ EndTick
    \/ Stop \/ UNCHANGED vars

\* What such a step does to what the calls are about.
LEMMA AsideEffect ==
  ASSUME TypeInv, CallerInv, Aside
  PROVE  /\ call' = call /\ live' = live /\ attached' = attached /\ faulty' = faulty
         /\ failures' >= failures /\ failures' \in Nat
         /\ phase' # "stopped" => /\ handles' = handles /\ subscribed' = subscribed
                                  /\ clientSubscribed' = clientSubscribed /\ phase # "stopped"
         /\ phase' = "stopped" => \/ /\ handles' = handles /\ subscribed' = subscribed
                                     /\ clientSubscribed' = clientSubscribed /\ phase = "stopped"
                                  \/ /\ handles' = {} /\ subscribed' = {} /\ clientSubscribed' = {}
                                     /\ phase = "live"
         /\ Serving' => Serving
         /\ Busy(Loop) => phase' = phase /\ loopAt' = loopAt
         /\ phase' = "starting" => phase = "starting"
<1> USE LoopIsNoClient DEF CallerInv, sdkVars, managerVars, trackerVars, runtimeVars, loopVars
<1>1. failures \in Nat
  BY DEF TypeInv, DataInv
<1>2. CASE \/ \E s \in Symbols, p \in Periods : Deliver(s, p)
           \/ \E c \in Clients, s \in Symbols : Detach(c, s)
           \/ \E st \in Streams : Age(st[1], st[2])
           \/ \E s \in Symbols : CoolDown(s)
           \/ Ingest \/ UNCHANGED vars
  <2>1. /\ phase' = phase /\ call' = call /\ live' = live /\ handles' = handles
        /\ failures' = failures /\ subscribed' = subscribed /\ loopAt' = loopAt
        /\ clientSubscribed' = clientSubscribed /\ attached' = attached /\ faulty' = faulty
    BY <1>2 DEF Deliver, Detach, Age, CoolDown, Ingest, vars
  <2> QED  BY <1>1, <2>1 DEF Serving
<1>3. CASE Connect \/ GoLive \/ BeginEvaluate \/ EndEvaluate \/ BeginEvict \/ EndTick \/ Stop
  <2>1. ~Busy(Loop)
    BY <1>3, IdleIsNoCall DEF Connect, GoLive, BeginEvaluate, EndEvaluate, BeginEvict, EndTick, Stop,
          LoopIdleAt, LoopInv, Busy
  <2> QED  BY <1>1, <1>3, <2>1 DEF Connect, GoLive, BeginEvaluate, EndEvaluate, BeginEvict, EndTick, Stop, Serving
<1> QED  BY <1>2, <1>3 DEF Aside

LEMMA AsideCaller ==
  ASSUME TypeInv, CallerInv, Aside
  PROVE  CallerInv'
<1> USE LoopIsNoClient DEF CallerInv
<1>1. call' = call /\ attached' = attached /\ Serving' => Serving
  BY AsideEffect
<1>2. phase' = "starting" => phase = "starting"
  BY AsideEffect
<1>3. \A c \in Clients : Busy(c) => call[c].symbol \in Symbols
  BY BusyHasCall DEF TypeInv, Calls
<1>4. \A c \in Clients, s \in Symbols : (Busy(c) /\ c \in refs[s]) => c \in refs'[s]
  <2>1. CASE \E d \in Clients, r \in Symbols : Detach(d, r)
    <3>1. PICK d \in Clients, r \in Symbols : Detach(d, r)
      BY <2>1
    <3>2. ~Busy(d) /\ refs' = [refs EXCEPT ![r] = @ \ {d}]
      BY <3>1, IdleIsNoCall DEF Detach, Busy
    <3> QED  BY <3>2 DEF TypeInv, DataInv
  <2>2. CASE ~\E d \in Clients, r \in Symbols : Detach(d, r)
    <3>1. refs' = refs
      BY <2>2 DEF Aside, Deliver, Age, CoolDown, Connect, GoLive, Ingest, BeginEvaluate,
            EndEvaluate, BeginEvict, EndTick, Stop, vars, runtimeVars
    <3> QED  BY <3>1
  <2> QED  BY <2>1, <2>2
<1>5. subscribed' \subseteq subscribed
  BY AsideEffect DEF TypeInv, DataInv, Phases
<1>6. LoopInv'
  <2>1. CASE Busy(Loop)
    <3>1. phase' = phase /\ loopAt' = loopAt
      BY <2>1, AsideEffect
    <3>2. subscribed' = subscribed /\ clientSubscribed' = clientSubscribed
      BY <2>1, <3>1, AsideEffect DEF LoopInv
    <3> QED  BY <1>1, <2>1, <3>1, <3>2, AsideEffect DEF LoopInv, Busy
  <2>2. CASE ~Busy(Loop)
    BY <2>2, AsideEffect DEF LoopInv, Busy
  <2> QED  BY <2>1, <2>2
<1>7. ClientInv'
  BY <1>2, <1>3, <1>4, <1>5, AsideEffect DEF ClientInv, Busy
<1>8. UniqueInv'
  BY AsideEffect DEF UniqueInv, Busy
<1>9. SyncInv'
  BY AsideEffect DEF SyncInv, Serving, Busy
<1> QED  BY <1>6, <1>7, <1>8, <1>9

\* Every step is one of these.
LEMMA Steps ==
  ASSUME [Next]_vars
  PROVE  \/ \E t \in Threads : \/ SubscribePeriod(t) \/ UnsubscribePeriod(t) \/ Mark(t)
                               \/ MarkReleased(t) \/ Sync(t) \/ SdkRaises(t)
         \/ \E c \in Clients, s \in Symbols : Attach(c, s)
         \/ StartSymbol \/ Renew \/ Evict
         \/ Aside
BY DEF Next, SdkReturns, Aside

LEMMA CallerStep == TypeInv /\ CallerInv /\ [Next]_vars => CallerInv'
BY Steps, SubscribeCaller, UnsubscribeCaller, MarkCaller, MarkReleasedCaller, SyncCaller,
   SdkRaisesCaller, AttachCaller, StartCaller, TickCaller, AsideCaller

-----------------------------------------------------------------------------
(* What the parties of the system know of a symbol.                        *)

\* A step that leaves the subscriptions of a symbol alone, and one that also
\* leaves its runtime.
SameFeed(s) ==
    /\ \A u \in Threads : Calling(u, s) \/ Calling(u, s)' => call'[u] = call[u]
    /\ \A p \in Periods : live'[s][p] = live[s][p] /\ (<<s, p>> \in handles' <=> <<s, p>> \in handles)
    /\ s \in subscribed' <=> s \in subscribed
    /\ s \in clientSubscribed' <=> s \in clientSubscribed

Untouched(s) ==
    /\ SameFeed(s)
    /\ Settling(s)' <=> Settling(s)
    /\ s \in attached' <=> s \in attached

LEMMA SameCalls ==
  ASSUME NEW s, SameFeed(s)
  PROVE  /\ \A u \in Threads : Calling(u, s)' <=> Calling(u, s)
         /\ \A u \in Threads : Calling(u, s) => call'[u] = call[u]
BY DEF SameFeed, Calling, Busy

LEMMA SameFeedAgrees ==
  ASSUME NEW s, SameFeed(s), FeedOf(s)
  PROVE  FeedOf(s)'
<1>1. \A u \in Threads, p \in Periods : Calling(u, s) => (Reached(u, p)' <=> Reached(u, p))
  BY SameCalls DEF Reached
<1>2. \A p \in Periods : (Fed(s, p)' <=> Fed(s, p)) /\ (Unfed(s, p)' <=> Unfed(s, p))
  BY DEF SameFeed, Fed, Unfed
<1> QED  BY <1>1, <1>2, SameCalls DEF FeedOf, SameFeed

LEMMA UntouchedAgrees ==
  ASSUME NEW s, Untouched(s), AttachedOf(s), FeedOf(s)
  PROVE  AttachedOf(s)' /\ FeedOf(s)'
BY SameFeedAgrees DEF Untouched, AttachedOf, SameFeed

LEMMA SameFeedBound ==
  ASSUME TypeInv, NEW s \in Symbols, NEW p \in Periods, SameFeed(s), BoundOf(s, p),
         failures' \in Nat, failures' >= failures, phase' # "stopped" => phase # "stopped"
  PROVE  BoundOf(s, p)'
<1>1. live'[s][p] = live[s][p] /\ live[s][p] \in Int /\ failures \in Nat
  BY DEF SameFeed, TypeInv, DataInv
<1>2. \A u \in Threads : Owing(u, s, p)' => Owing(u, s, p)
  BY SameCalls DEF Owing
<1> QED  BY <1>1, <1>2, SameCalls DEF BoundOf, SameFeed

\* A step of a thread on one symbol leaves the others alone.
LEMMA OthersUntouched ==
  ASSUME NEW s \in Symbols, NEW t \in Threads,
         \A u \in Threads \ {t} : call'[u] = call[u],
         Busy(t) => call[t].symbol = s, Busy(t)' => call'[t].symbol = s,
         \A r \in Symbols \ {s} :
           /\ \A p \in Periods :
                live'[r][p] = live[r][p] /\ (<<r, p>> \in handles' <=> <<r, p>> \in handles)
           /\ r \in subscribed' <=> r \in subscribed
           /\ r \in clientSubscribed' <=> r \in clientSubscribed
           /\ r \in attached' <=> r \in attached
  PROVE  \A r \in Symbols \ {s} : Untouched(r)
<1> SUFFICES ASSUME NEW r \in Symbols \ {s}  PROVE Untouched(r)
  OBVIOUS
<1>1. SameFeed(r)
  BY DEF SameFeed, Calling, Busy
<1>2. Settling(r)' <=> Settling(r)
  BY DEF Settling, Busy
<1> QED  BY <1>1, <1>2 DEF Untouched

\* What is left to show of such a step.
LEMMA StepAgrees ==
  ASSUME TypeInv, AgreedInv, BoundInv, NEW s \in Symbols,
         \A r \in Symbols \ {s} : Untouched(r),
         faulty \subseteq faulty', Serving' => Serving,
         failures' \in Nat, failures' >= failures, phase' # "stopped" => phase # "stopped",
         (Serving' /\ s \notin faulty') => AttachedOf(s)' /\ FeedOf(s)',
         \A p \in Periods : BoundOf(s, p)'
  PROVE  AgreedInv' /\ BoundInv'
<1>1. AgreedInv'
  BY UntouchedAgrees DEF AgreedInv
<1>2. BoundInv'
  <2> SUFFICES ASSUME NEW r \in Symbols, NEW q \in Periods  PROVE BoundOf(r, q)'
    BY DEF BoundInv
  <2>1. CASE r = s
    BY <2>1
  <2>2. CASE r # s
    <3>1. SameFeed(r) /\ BoundOf(r, q)
      BY <2>2 DEF Untouched, BoundInv
    <3> QED  BY <3>1, SameFeedBound
  <2> QED  BY <2>1, <2>2
<1> QED  BY <1>1, <1>2

LEMMA SubscribeAgrees ==
  ASSUME IInv, NEW t \in Threads, SubscribePeriod(t)
  PROVE  AgreedInv' /\ BoundInv' /\ TrackInv'
<1> USE DEF IInv, sdkVars, managerVars, trackerVars, runtimeVars, loopVars
<1>1. /\ Busy(t) /\ call[t] \in Calls /\ call[t].stage = "subscribe" /\ call[t].op # "release"
      /\ \A u \in Threads \ {t} : call'[u] = call[u]
      /\ call'[t].op = call[t].op /\ call'[t].symbol = call[t].symbol
      /\ call[t].period = LastPeriod => call'[t].stage = "mark"
      /\ call[t].period # LastPeriod =>
           call'[t].stage = "subscribe" /\ call'[t].period = call[t].period + 1
  BY SubscribeEffect
<1>2. PICK s \in Symbols, p \in Periods : s = call[t].symbol /\ p = call[t].period
  BY <1>1 DEF Calls
<1>3. /\ live' = [live EXCEPT ![s][p] = @ + 1] /\ handles' = handles \cup {<<s, p>>}
      /\ phase' = phase /\ failures' = failures /\ faulty' = faulty /\ tracker' = tracker
      /\ subscribed' = subscribed /\ clientSubscribed' = clientSubscribed /\ attached' = attached
  BY <1>2 DEF SubscribePeriod
<1>4. /\ live'[s][p] = live[s][p] + 1
      /\ \A r \in Symbols, q \in Periods : (r # s \/ q # p) =>
           live'[r][q] = live[r][q] /\ (<<r, q>> \in handles' <=> <<r, q>> \in handles)
      /\ <<s, p>> \in handles'
  BY <1>2, <1>3 DEF TypeInv, DataInv
<1>5. Calling(t, s) /\ Calling(t, s)'
  BY <1>1, <1>2 DEF Calling, Busy, Calls
<1>6. \A u \in Threads \ {t} : ~Calling(u, s) /\ ~Calling(u, s)'
  BY <1>1, <1>5, Alone DEF CallerInv, Calling, Busy
<1>7. \A r \in Symbols \ {s} : Untouched(r)
  <2>1. /\ \A u \in Threads \ {t} : call'[u] = call[u]
        /\ Busy(t) => call[t].symbol = s
        /\ Busy(t)' => call'[t].symbol = s
    BY <1>1, <1>2
  <2>2. ASSUME NEW r \in Symbols \ {s}
        PROVE  /\ \A q \in Periods :
                    live'[r][q] = live[r][q] /\ (<<r, q>> \in handles' <=> <<r, q>> \in handles)
               /\ r \in subscribed' <=> r \in subscribed
               /\ r \in clientSubscribed' <=> r \in clientSubscribed
               /\ r \in attached' <=> r \in attached
    BY <1>2, <1>3, <1>4
  <2> QED  BY <2>1, <2>2, OthersUntouched
<1>8. ASSUME Serving, s \notin faulty  PROVE AttachedOf(s)' /\ FeedOf(s)'
  <2>1. AttachedOf(s) /\ FeedOf(s)
    BY <1>2, <1>8 DEF AgreedInv
  <2>2. Settling(s) => Settling(s)'
    BY <1>1 DEF Settling, Busy
  <2>3. AttachedOf(s)'
    BY <1>3, <2>1, <2>2 DEF AttachedOf
  <2>4. \A q \in Periods : IF q < p THEN Fed(s, q) ELSE Unfed(s, q)
    BY <1>1, <1>2, <1>5, <2>1 DEF FeedOf, Reached
  <2>5. Unfed(s, p)
    BY <1>2, <2>4, PeriodsAreNumbers
  <2>6. Fed(s, p)'
    BY <1>4, <2>5 DEF Fed, Unfed
  <2>7. \A q \in Periods \ {p} : (Fed(s, q)' <=> Fed(s, q)) /\ (Unfed(s, q)' <=> Unfed(s, q))
    BY <1>2, <1>4 DEF Fed, Unfed
  <2>8. \A q \in Periods : Reached(t, q)' <=> (q < p \/ q = p)
    BY <1>1, <1>2, PeriodsAreNumbers DEF Reached
  <2>9. \A q \in Periods : IF Reached(t, q)' THEN Fed(s, q)' ELSE Unfed(s, q)'
    BY <2>4, <2>6, <2>7, <2>8
  <2> QED  BY <1>5, <1>6, <2>3, <2>9 DEF FeedOf
<1>9. ASSUME NEW q \in Periods  PROVE BoundOf(s, q)'
  <2>1. BoundOf(s, q) /\ live[s][q] \in Int /\ failures \in Nat /\ BoundOf(s, p) /\ live[s][p] \in Int
    BY <1>2 DEF BoundInv, TypeInv, DataInv
  <2>2. Owing(t, s, p)
    BY <1>1, <1>2, <1>5, PeriodsAreNumbers DEF Owing
  <2>3. ASSUME NEW u \in Threads, Owing(u, s, q)'  PROVE q # p /\ Owing(u, s, q)
    <3>1. u = t
      BY <1>6, <2>3 DEF Owing
    <3>2. call'[t].stage = "subscribe" /\ p # LastPeriod /\ q >= p + 1
      BY <1>1, <1>2, <2>3, <3>1 DEF Owing
    <3>3. p \in Nat /\ q \in Nat
      BY PeriodsAreNumbers
    <3>4. q >= p /\ q # p
      BY <3>2, <3>3
    <3> QED  BY <1>1, <1>2, <1>5, <3>1, <3>4 DEF Owing
  <2>4. live[s][p] <= failures
    BY <2>1, <2>2 DEF BoundOf
  <2>5. CASE q = p
    BY <1>3, <1>4, <1>5, <2>1, <2>3, <2>4, <2>5 DEF BoundOf
  <2>6. CASE q # p
    <3>1. live'[s][q] = live[s][q] /\ (<<s, q>> \in handles' <=> <<s, q>> \in handles)
      BY <1>2, <1>4, <2>6
    <3>2. phase' = phase /\ failures' = failures /\ (\E u \in Threads : Calling(u, s)')
      BY <1>3, <1>5
    <3>3. \A u \in Threads : Owing(u, s, q)' => live[s][q] <= failures
      BY <2>1, <2>3 DEF BoundOf
    <3> QED  BY <2>1, <3>1, <3>2, <3>3 DEF BoundOf
  <2> QED  BY <2>5, <2>6
<1>10. AgreedInv' /\ BoundInv'
  <2>1. /\ faulty \subseteq faulty' /\ failures' \in Nat /\ failures' >= failures
        /\ Serving' => Serving
        /\ s \notin faulty' => s \notin faulty
        /\ phase' # "stopped" => phase # "stopped"
    BY <1>3 DEF Serving, TypeInv, DataInv
  <2> QED  BY <1>7, <1>8, <1>9, <2>1, StepAgrees
<1>11. TrackInv'
  BY <1>3 DEF TrackInv, Serving
<1> QED  BY <1>10, <1>11

LEMMA UnsubscribeAgrees ==
  ASSUME IInv, NEW t \in Threads, UnsubscribePeriod(t)
  PROVE  AgreedInv' /\ BoundInv' /\ TrackInv'
<1> USE DEF IInv, sdkVars, managerVars, trackerVars, runtimeVars, loopVars
<1>1. /\ t = Loop /\ Busy(t) /\ call[t] \in Calls /\ call[t].stage = "unsubscribe"
      /\ call[t].op \in {"renew", "release"}
      /\ \A u \in Threads \ {t} : call'[u] = call[u]
      /\ call'[t].op = call[t].op /\ call'[t].symbol = call[t].symbol
      /\ call[t].period = LastPeriod =>
           /\ call'[t].period = 1
           /\ call[t].op = "release" => call'[t].stage = "mark"
           /\ call[t].op = "renew" => call'[t].stage = "subscribe"
      /\ call[t].period # LastPeriod =>
           call'[t].stage = "unsubscribe" /\ call'[t].period = call[t].period + 1
  BY UnsubscribeEffect DEF CallerInv
<1>2. PICK s \in Symbols, p \in Periods : s = call[t].symbol /\ p = call[t].period
  BY <1>1 DEF Calls
<1>3. /\ live' = IF <<s, p>> \in handles THEN [live EXCEPT ![s][p] = @ - 1] ELSE live
      /\ handles' = handles \ {<<s, p>>}
      /\ clientSubscribed' = IF p = LastPeriod THEN clientSubscribed \ {s} ELSE clientSubscribed
      /\ phase' = phase /\ failures' = failures /\ faulty' = faulty /\ tracker' = tracker
      /\ subscribed' = subscribed /\ attached' = attached
  BY <1>2 DEF UnsubscribePeriod
<1>4. /\ live'[s][p] = IF <<s, p>> \in handles THEN live[s][p] - 1 ELSE live[s][p]
      /\ \A r \in Symbols, q \in Periods : (r # s \/ q # p) =>
           live'[r][q] = live[r][q] /\ (<<r, q>> \in handles' <=> <<r, q>> \in handles)
      /\ <<s, p>> \notin handles'
  BY <1>2, <1>3 DEF TypeInv, DataInv
<1>5. Calling(t, s) /\ Calling(t, s)' /\ phase # "stopped"
  BY <1>1, <1>2 DEF Calling, Busy, Calls, CallerInv, LoopInv
<1>6. \A u \in Threads \ {t} : ~Calling(u, s) /\ ~Calling(u, s)'
  BY <1>1, <1>5, Alone DEF CallerInv, Calling, Busy
<1>7. \A r \in Symbols \ {s} : Untouched(r)
  <2>1. /\ \A u \in Threads \ {t} : call'[u] = call[u]
        /\ Busy(t) => call[t].symbol = s
        /\ Busy(t)' => call'[t].symbol = s
    BY <1>1, <1>2
  <2>2. ASSUME NEW r \in Symbols \ {s}
        PROVE  /\ \A q \in Periods :
                    live'[r][q] = live[r][q] /\ (<<r, q>> \in handles' <=> <<r, q>> \in handles)
               /\ r \in subscribed' <=> r \in subscribed
               /\ r \in clientSubscribed' <=> r \in clientSubscribed
               /\ r \in attached' <=> r \in attached
    <3>1. \A q \in Periods :
             live'[r][q] = live[r][q] /\ (<<r, q>> \in handles' <=> <<r, q>> \in handles)
      BY <1>4, <2>2
    <3>2. r \in clientSubscribed' <=> r \in clientSubscribed
      BY <1>3, <2>2
    <3>3. UNCHANGED <<subscribed, attached>>
      BY <1>3
    <3> QED  BY <3>1, <3>2, <3>3
  <2> QED  BY <2>1, <2>2, OthersUntouched
<1>8. ASSUME Serving, s \notin faulty  PROVE AttachedOf(s)' /\ FeedOf(s)'
  <2>1. AttachedOf(s) /\ FeedOf(s)
    BY <1>2, <1>8 DEF AgreedInv
  <2>2. Settling(s) => Settling(s)'
    BY <1>1 DEF Settling, Busy
  <2>3. AttachedOf(s)'
    BY <1>3, <2>1, <2>2 DEF AttachedOf
  <2>4. \A q \in Periods : IF q >= p THEN Fed(s, q) ELSE Unfed(s, q)
    BY <1>1, <1>2, <1>5, <2>1 DEF FeedOf, Reached
  <2>5. Fed(s, p)
    <3>1. p \in Periods /\ p >= p
      BY <1>2, PeriodsAreNumbers
    <3>2. IF p >= p THEN Fed(s, p) ELSE Unfed(s, p)
      BY <2>4, <3>1, Zenon
    <3> QED  BY <3>1, <3>2
  <2>6. Unfed(s, p)'
    BY <1>4, <2>5 DEF Fed, Unfed
  <2>7. \A q \in Periods \ {p} : (Fed(s, q)' <=> Fed(s, q)) /\ (Unfed(s, q)' <=> Unfed(s, q))
    BY <1>2, <1>4 DEF Fed, Unfed
  <2>8. \A q \in Periods : Reached(t, q)' <=> (q >= p /\ q # p)
    <3>1. CASE p = LastPeriod
      <4>1. \A q \in Periods : ~(q >= p /\ q # p)
        BY <3>1, PeriodsAreNumbers
      <4>2. \A q \in Periods : ~Reached(t, q)'
        BY <1>1, <1>2, <3>1, PeriodsAreNumbers DEF Reached
      <4> QED  BY <4>1, <4>2
    <3>2. CASE p # LastPeriod
      <4>1. \A q \in Periods : Reached(t, q)' <=> q >= p + 1
        BY <1>1, <1>2, <3>2 DEF Reached
      <4> QED  BY <4>1, PeriodsAreNumbers
    <3> QED  BY <3>1, <3>2
  <2>9. \A q \in Periods : IF Reached(t, q)' THEN Fed(s, q)' ELSE Unfed(s, q)'
    BY <2>4, <2>6, <2>7, <2>8
  <2> QED  BY <1>5, <1>6, <2>3, <2>9 DEF FeedOf
<1>9. ASSUME NEW q \in Periods  PROVE BoundOf(s, q)'
  <2>1. /\ BoundOf(s, q) /\ live[s][q] \in Int /\ failures \in Nat
        /\ BoundOf(s, p) /\ live[s][p] \in Int /\ p \in Nat /\ q \in Nat
    BY <1>2, PeriodsAreNumbers DEF BoundInv, TypeInv, DataInv
  <2>2. live'[s][p] >= 0 /\ live'[s][p] <= failures
    BY <1>4, <1>5, <2>1 DEF BoundOf
  <2>3. ASSUME NEW u \in Threads, Owing(u, s, q)', q # p  PROVE Owing(u, s, q)
    <3>1. u = t
      BY <1>6, <2>3 DEF Owing
    <3>2. q < p
      <4>1. CASE p = LastPeriod
        BY <2>1, <2>3, <4>1, PeriodsAreNumbers
      <4>2. CASE p # LastPeriod
        BY <1>1, <1>2, <2>1, <2>3, <3>1, <4>2 DEF Owing
      <4> QED  BY <4>1, <4>2
    <3> QED  BY <1>1, <1>2, <1>5, <3>1, <3>2 DEF Owing
  <2>4. CASE q = p
    BY <1>3, <1>4, <2>1, <2>2, <2>4 DEF BoundOf
  <2>5. CASE q # p
    <3>1. live'[s][q] = live[s][q] /\ (<<s, q>> \in handles' <=> <<s, q>> \in handles)
      BY <1>2, <1>4, <2>5
    <3>2. phase' = phase /\ failures' = failures /\ (\E u \in Threads : Calling(u, s)')
      BY <1>3, <1>5
    <3>3. \A u \in Threads : Owing(u, s, q)' => live[s][q] <= failures
      BY <2>1, <2>3, <2>5 DEF BoundOf
    <3> QED  BY <2>1, <3>1, <3>2, <3>3 DEF BoundOf
  <2> QED  BY <2>4, <2>5
<1>10. AgreedInv' /\ BoundInv'
  <2>1. /\ faulty \subseteq faulty' /\ failures' \in Nat /\ failures' >= failures
        /\ Serving' => Serving
        /\ s \notin faulty' => s \notin faulty
        /\ phase' # "stopped" => phase # "stopped"
    BY <1>3 DEF Serving, TypeInv, DataInv
  <2> QED  BY <1>7, <1>8, <1>9, <2>1, StepAgrees
<1>11. TrackInv'
  BY <1>3 DEF TrackInv, Serving
<1> QED  BY <1>10, <1>11

LEMMA MarkAgrees ==
  ASSUME IInv, NEW t \in Threads, Mark(t)
  PROVE  AgreedInv' /\ BoundInv' /\ TrackInv'
<1> USE DEF IInv, sdkVars, managerVars, trackerVars, runtimeVars, loopVars
<1>1. /\ Busy(t) /\ call[t] \in Calls /\ call[t].stage = "mark"
      /\ call[t].op \in {"attach", "renew"}
      /\ \A u \in Threads \ {t} : call'[u] = call[u]
      /\ call'[t].op = call[t].op /\ call'[t].symbol = call[t].symbol
      /\ call'[t].stage = "sync"
  BY MarkEffect
<1>2. PICK s \in Symbols : s = call[t].symbol
  BY <1>1 DEF Calls
<1>3. /\ clientSubscribed' = clientSubscribed \cup {s}
      /\ subscribed' = IF call[t].op = "attach" THEN subscribed \cup {s} ELSE subscribed
      /\ tracker' = [tracker EXCEPT ![<<s, Parent>>] = "on"]
      /\ phase' = phase /\ failures' = failures /\ faulty' = faulty
      /\ live' = live /\ handles' = handles /\ attached' = attached
  BY <1>2 DEF Mark
<1>4. s \in subscribed' /\ s \in clientSubscribed' /\ \A r \in Symbols \ {s} : r \in subscribed' <=> r \in subscribed
  <2>1. call[t].op = "renew" => t = Loop
    BY <1>1 DEF CallerInv, ClientInv, Threads
  <2>2. call[t].op = "renew" => s \in subscribed
    BY <1>1, <1>2, <2>1 DEF CallerInv, LoopInv
  <2> QED  BY <1>1, <1>3, <2>2
<1>5. Calling(t, s) /\ ~Calling(t, s)'
  BY <1>1, <1>2 DEF Calling, Busy
<1>6. \A u \in Threads : ~Calling(u, s)'
  BY <1>1, <1>5, Alone DEF CallerInv, Calling, Busy
<1>7. \A r \in Symbols \ {s} : Untouched(r)
  BY <1>1, <1>2, <1>3, <1>4, OthersUntouched
<1>8. ASSUME Serving, s \notin faulty  PROVE AttachedOf(s)' /\ FeedOf(s)'
  <2>1. AttachedOf(s) /\ FeedOf(s)
    BY <1>2, <1>8 DEF AgreedInv
  <2>2. AttachedOf(s)'
    <3>1. CASE call[t].op = "attach"
      <4>1. Settling(s)'
        BY <1>1, <1>2, <3>1 DEF Settling, Busy
      <4> QED  BY <4>1 DEF AttachedOf
    <3>2. CASE call[t].op = "renew"
      <4>1. Settling(s) => Settling(s)'
        BY <1>1, <3>2 DEF Settling, Busy
      <4> QED  BY <1>3, <2>1, <3>2, <4>1 DEF AttachedOf
    <3> QED  BY <1>1, <3>1, <3>2
  <2>3. \A q \in Periods : Fed(s, q)
    BY <1>1, <1>5, <2>1 DEF FeedOf, Reached
  <2>4. \A q \in Periods : Fed(s, q)'
    BY <1>3, <2>3 DEF Fed
  <2> QED  BY <1>4, <1>6, <2>2, <2>4 DEF FeedOf
<1>9. ASSUME NEW q \in Periods  PROVE BoundOf(s, q)'
  <2>1. BoundOf(s, q)
    BY <1>2 DEF BoundInv
  <2>2. \A u \in Threads : ~Owing(u, s, q)'
    BY <1>6 DEF Owing
  <2> QED  BY <1>3, <1>4, <2>1, <2>2 DEF BoundOf
<1>10. AgreedInv' /\ BoundInv'
  <2>1. /\ faulty \subseteq faulty' /\ failures' \in Nat /\ failures' >= failures
        /\ Serving' => Serving
        /\ s \notin faulty' => s \notin faulty
        /\ phase' # "stopped" => phase # "stopped"
    BY <1>3 DEF Serving, TypeInv, DataInv
  <2> QED  BY <1>7, <1>8, <1>9, <2>1, StepAgrees
<1>11. TrackInv'
  <2>1. /\ tracker'[<<s, Parent>>] = "on"
        /\ \A r \in Symbols \ {s} : tracker'[<<r, Parent>>] = tracker[<<r, Parent>>]
    BY <1>2, <1>3, ParentIsStream DEF TypeInv, DataInv
  <2> QED  BY <1>3, <1>4, <2>1 DEF TrackInv, Serving
<1> QED  BY <1>10, <1>11

LEMMA MarkReleasedAgrees ==
  ASSUME IInv, NEW t \in Threads, MarkReleased(t)
  PROVE  AgreedInv' /\ BoundInv' /\ TrackInv'
<1> USE DEF IInv, sdkVars, managerVars, trackerVars, runtimeVars, loopVars
<1>1. /\ t = Loop /\ Busy(t) /\ call[t] \in Calls /\ call[t].stage = "mark" /\ call[t].op = "release"
      /\ \A u \in Threads \ {t} : call'[u] = call[u]
      /\ call'[t].op = call[t].op /\ call'[t].symbol = call[t].symbol
      /\ call'[t].stage = "sync"
  BY MarkReleasedEffect DEF CallerInv
<1>2. PICK s \in Symbols : s = call[t].symbol
  BY <1>1 DEF Calls
<1>3. /\ subscribed' = subscribed \ {s} /\ clientSubscribed' = clientSubscribed
      /\ tracker' = [tracker EXCEPT ![<<s, Parent>>] = "off"]
      /\ phase' = phase /\ failures' = failures /\ faulty' = faulty
      /\ live' = live /\ handles' = handles /\ attached' = attached
  BY <1>2 DEF MarkReleased
<1>4. s \notin subscribed' /\ s \notin clientSubscribed'
  BY <1>1, <1>2, <1>3 DEF CallerInv, LoopInv
<1>5. Calling(t, s) /\ ~Calling(t, s)' /\ phase # "stopped"
  BY <1>1, <1>2 DEF Calling, Busy, CallerInv, LoopInv
<1>6. \A u \in Threads : ~Calling(u, s)'
  BY <1>1, <1>5, Alone DEF CallerInv, Calling, Busy
<1>7. \A r \in Symbols \ {s} : Untouched(r)
  BY <1>1, <1>2, <1>3, OthersUntouched
<1>8. ASSUME Serving, s \notin faulty  PROVE AttachedOf(s)' /\ FeedOf(s)'
  <2>1. FeedOf(s)
    BY <1>2, <1>8 DEF AgreedInv
  <2>2. Settling(s)'
    BY <1>1, <1>2 DEF Settling, Busy
  <2>3. \A q \in Periods : Unfed(s, q)
    BY <1>1, <1>5, <2>1 DEF FeedOf, Reached
  <2>4. \A q \in Periods : Unfed(s, q)'
    BY <1>3, <2>3 DEF Unfed
  <2> QED  BY <1>4, <1>6, <2>2, <2>4 DEF FeedOf, AttachedOf
<1>9. ASSUME NEW q \in Periods  PROVE BoundOf(s, q)'
  <2>1. BoundOf(s, q) /\ Owing(t, s, q)
    BY <1>1, <1>2, <1>5 DEF BoundInv, Owing
  <2>2. \A u \in Threads : ~Owing(u, s, q)'
    BY <1>6 DEF Owing
  <2> QED  BY <1>3, <2>1, <2>2 DEF BoundOf
<1>10. AgreedInv' /\ BoundInv'
  <2>1. /\ faulty \subseteq faulty' /\ failures' \in Nat /\ failures' >= failures
        /\ Serving' => Serving
        /\ s \notin faulty' => s \notin faulty
        /\ phase' # "stopped" => phase # "stopped"
    BY <1>3 DEF Serving, TypeInv, DataInv
  <2> QED  BY <1>7, <1>8, <1>9, <2>1, StepAgrees
<1>11. TrackInv'
  <2>1. /\ tracker'[<<s, Parent>>] = "off"
        /\ \A r \in Symbols \ {s} : tracker'[<<r, Parent>>] = tracker[<<r, Parent>>]
    BY <1>2, <1>3, ParentIsStream DEF TypeInv, DataInv
  <2> QED  BY <1>3, <2>1 DEF TrackInv, Serving
<1> QED  BY <1>10, <1>11

LEMMA SyncAgrees ==
  ASSUME IInv, NEW t \in Threads, Sync(t)
  PROVE  AgreedInv' /\ BoundInv' /\ TrackInv'
<1> USE DEF IInv, sdkVars, managerVars, trackerVars, runtimeVars, loopVars
<1>1. Busy(t) /\ call[t] \in Calls /\ call[t].stage = "sync"
  BY WorkingCall DEF Sync, TypeInv
<1>2. PICK s \in Symbols : s = call[t].symbol
  BY <1>1 DEF Calls
<1>3. /\ \A u \in Threads \ {t} : call'[u] = call[u]
      /\ call'[t].op = "idle"
      /\ phase' = phase \/ (t = Loop /\ phase' \in {"failed", "ended"})
  <2>1. CASE Keys = call[t].keys
    <3>1. call' = [call EXCEPT ![t] = Idle] /\ phase' = phase
      BY <2>1 DEF Sync
    <3> QED  BY <3>1, Changed, IdleIsNoCall DEF TypeInv
  <2>2. CASE Keys # call[t].keys
    BY <1>1, <2>2, RaisedPhase DEF Sync
  <2> QED  BY <2>1, <2>2
<1>4. /\ live' = live /\ handles' = handles /\ failures' = failures /\ tracker' = tracker
      /\ subscribed' = subscribed /\ clientSubscribed' = clientSubscribed
      /\ faulty \subseteq faulty'
      /\ \A r \in Symbols \ {s} : r \in attached' <=> r \in attached
  BY <1>2 DEF Sync
<1>5. SameFeed(s)
  BY <1>1, <1>3, <1>4 DEF SameFeed, Calling, Busy
<1>6. (Serving' => Serving) /\ (phase' # "stopped" => phase # "stopped")
  <2>1. t = Loop => phase # "stopped"
    BY <1>1 DEF CallerInv, LoopInv
  <2> QED  BY <1>3, <2>1 DEF Serving
<1>7. \A r \in Symbols \ {s} : Untouched(r)
  BY <1>1, <1>2, <1>3, <1>4, OthersUntouched DEF Busy
<1>8. ASSUME Serving', s \notin faulty'  PROVE AttachedOf(s)' /\ FeedOf(s)'
  <2>1. AttachedOf(s) /\ FeedOf(s) /\ Serving
    BY <1>2, <1>4, <1>6, <1>8 DEF AgreedInv
  <2>2. FeedOf(s)'
    BY <1>5, <2>1, SameFeedAgrees
  <2>3. /\ call[t].op = "attach" => s \in attached'
        /\ call[t].op = "release" => s \notin attached'
        /\ call[t].op = "renew" => attached' = attached
    BY <1>2, <1>8 DEF Sync
  <2>4. CASE call[t].op = "attach"
    <3>1. s \in subscribed
      BY <1>1, <1>2, <2>1, <2>4 DEF CallerInv, SyncInv
    <3> QED  BY <1>4, <2>2, <2>3, <2>4, <3>1 DEF AttachedOf
  <2>5. CASE call[t].op = "release"
    <3>1. s \notin subscribed
      BY <1>1, <1>2, <2>5 DEF CallerInv, LoopInv, ClientInv, Threads
    <3> QED  BY <1>4, <2>2, <2>3, <2>5, <3>1 DEF AttachedOf
  <2>6. CASE call[t].op = "renew"
    <3>1. Settling(s) => Settling(s)'
      BY <1>3, <2>6 DEF Settling, Busy
    <3> QED  BY <1>4, <2>1, <2>2, <2>3, <2>6, <3>1 DEF AttachedOf
  <2> QED  BY <1>1, <2>4, <2>5, <2>6 DEF Calls
<1>9. ASSUME NEW q \in Periods  PROVE BoundOf(s, q)'
  BY <1>4, <1>5, <1>6, SameFeedBound DEF BoundInv, TypeInv, DataInv
<1>10. AgreedInv' /\ BoundInv'
  <2>1. failures' \in Nat /\ failures' >= failures
    BY <1>4 DEF TypeInv, DataInv
  <2> QED  BY <1>4, <1>6, <1>7, <1>8, <1>9, <2>1, StepAgrees
<1>11. TrackInv'
  BY <1>4, <1>6 DEF TrackInv
<1> QED  BY <1>10, <1>11

LEMMA SdkRaisesAgrees ==
  ASSUME IInv, NEW t \in Threads, SdkRaises(t)
  PROVE  AgreedInv' /\ BoundInv' /\ TrackInv'
<1> USE DEF IInv, sdkVars, managerVars, trackerVars, runtimeVars, loopVars
<1>1. Busy(t) /\ call[t] \in Calls /\ Raised(t) /\ call[t].stage \in {"subscribe", "unsubscribe"}
  BY BusyHasCall DEF SdkRaises, TypeInv, Busy
<1>2. PICK s \in Symbols, p \in Periods : s = call[t].symbol /\ p = call[t].period
  BY <1>1 DEF Calls
<1>3. /\ \A u \in Threads \ {t} : call'[u] = call[u]
      /\ call'[t].op = "idle"
      /\ phase' = phase \/ (t = Loop /\ phase' \in {"failed", "ended"})
  BY <1>1, RaisedPhase
<1>4. /\ failures' = failures + 1 /\ faulty' = faulty \cup {s} /\ tracker' = tracker
      /\ subscribed' = subscribed /\ clientSubscribed' = clientSubscribed /\ attached' = attached
      /\ handles' = IF call[t].stage = "unsubscribe" THEN handles \ {<<s, p>>} ELSE handles
  BY <1>2 DEF SdkRaises
<1>5. \/ live' = live
      \/ call[t].stage = "subscribe" /\ live' = [live EXCEPT ![s][p] = @ + 1]
      \/ /\ call[t].stage = "unsubscribe" /\ <<s, p>> \in handles
         /\ live' = [live EXCEPT ![s][p] = @ - 1]
  BY <1>2 DEF SdkRaises
<1>6. /\ \A r \in Symbols, q \in Periods : (r # s \/ q # p) =>
           live'[r][q] = live[r][q] /\ (<<r, q>> \in handles' <=> <<r, q>> \in handles)
      /\ \/ live'[s][p] = live[s][p]
         \/ call[t].stage = "subscribe" /\ live'[s][p] = live[s][p] + 1
         \/ call[t].stage = "unsubscribe" /\ <<s, p>> \in handles /\ live'[s][p] = live[s][p] - 1
      /\ <<s, p>> \in handles' => <<s, p>> \in handles /\ call[t].stage = "subscribe"
  <2>1. \A r \in Symbols, q \in Periods : (r # s \/ q # p) => live'[r][q] = live[r][q]
    BY <1>2, <1>5 DEF TypeInv, DataInv
  <2>2. \A r \in Symbols, q \in Periods : (r # s \/ q # p) => (<<r, q>> \in handles' <=> <<r, q>> \in handles)
    BY <1>4
  <2>3. \/ live'[s][p] = live[s][p]
        \/ call[t].stage = "subscribe" /\ live'[s][p] = live[s][p] + 1
        \/ call[t].stage = "unsubscribe" /\ <<s, p>> \in handles /\ live'[s][p] = live[s][p] - 1
    BY <1>2, <1>5 DEF TypeInv, DataInv
  <2>4. <<s, p>> \in handles' => <<s, p>> \in handles /\ call[t].stage = "subscribe"
    BY <1>1, <1>4
  <2> QED  BY <2>1, <2>2, <2>3, <2>4
<1>7. (Serving' => Serving) /\ (phase' # "stopped" => phase # "stopped")
  <2>1. t = Loop => phase # "stopped"
    BY <1>1 DEF CallerInv, LoopInv
  <2> QED  BY <1>3, <2>1 DEF Serving
<1>8. \A r \in Symbols \ {s} : Untouched(r)
  BY <1>1, <1>2, <1>3, <1>4, <1>6, OthersUntouched DEF Busy
<1>9. ASSUME NEW q \in Periods  PROVE BoundOf(s, q)'
  <2>1. /\ BoundOf(s, q) /\ live[s][q] \in Int /\ failures \in Nat
        /\ BoundOf(s, p) /\ live[s][p] \in Int
    BY <1>2 DEF BoundInv, TypeInv, DataInv
  <2>2. call[t].stage = "subscribe" => live[s][p] <= failures
    <3>1. call[t].stage = "subscribe" => Owing(t, s, p)
      BY <1>1, <1>2, PeriodsAreNumbers DEF Owing, Calling
    <3> QED  BY <2>1, <3>1 DEF BoundOf
  <2>3. live'[s][q] \in Int /\ live'[s][q] >= 0 /\ live'[s][q] <= failures'
    <3>1. CASE q = p
      BY <1>4, <1>6, <2>1, <2>2, <3>1 DEF BoundOf
    <3>2. CASE q # p
      BY <1>2, <1>4, <1>6, <2>1, <3>2 DEF BoundOf
    <3> QED  BY <3>1, <3>2
  <2>4. <<s, q>> \in handles' => live'[s][q] >= 1
    <3>1. CASE q = p
      BY <1>4, <1>6, <2>1, <2>2, <3>1 DEF BoundOf
    <3>2. CASE q # p
      BY <1>2, <1>6, <2>1, <3>2 DEF BoundOf
    <3> QED  BY <3>1, <3>2
  <2>5. live'[s][q] <= failures' + 1
    BY <1>4, <2>1, <2>3
  <2> QED  BY <2>3, <2>4, <2>5 DEF BoundOf
<1>10. AgreedInv' /\ BoundInv'
  <2>1. failures' \in Nat /\ failures' >= failures /\ faulty \subseteq faulty' /\ s \in faulty'
    BY <1>4 DEF TypeInv, DataInv
  <2> QED  BY <1>7, <1>8, <1>9, <2>1, StepAgrees
<1>11. TrackInv'
  BY <1>4, <1>7 DEF TrackInv
<1> QED  BY <1>10, <1>11

\* The first attach of a symbol, by a client or at the start.
LEMMA BeginAttachAgrees ==
  ASSUME IInv, NEW t \in Threads, ~Busy(t), NEW s \in Symbols, BeginAttach(t, s), Serving,
         \A u \in Threads : ~Calling(u, s),
         UNCHANGED <<phase, sdkVars, managerVars, tracker, faulty>>
  PROVE  AgreedInv' /\ BoundInv' /\ TrackInv'
<1> USE DEF IInv, sdkVars, managerVars, trackerVars, runtimeVars, loopVars
<1>1. /\ phase # "stopped" /\ (Serving' => Serving) /\ phase' = phase
      /\ failures' \in Nat /\ failures' = failures /\ faulty \subseteq faulty' /\ failures' >= failures
  BY DEF Serving, TypeInv, DataInv
<1>2. TrackInv'
  BY <1>1 DEF TrackInv
<1>3. CASE s \in subscribed
  <2>1. call' = call /\ attached' = attached \cup {s}
    BY <1>3, Attaching
  <2>2. \A r \in Symbols \ {s} : Untouched(r)
    BY <2>1 DEF Untouched, SameFeed, Calling, Settling, Busy
  <2>3. SameFeed(s)
    BY <2>1 DEF SameFeed, Calling, Busy
  <2>4. ASSUME Serving', s \notin faulty'  PROVE AttachedOf(s)' /\ FeedOf(s)'
    <3>1. FeedOf(s)
      BY <2>4 DEF AgreedInv
    <3> QED  BY <1>3, <2>1, <2>3, <3>1, SameFeedAgrees DEF AttachedOf
  <2>5. \A p \in Periods : BoundOf(s, p)'
    BY <1>1, <2>3, SameFeedBound DEF BoundInv
  <2>6. AgreedInv' /\ BoundInv'
    BY <1>1, <2>2, <2>4, <2>5, StepAgrees
  <2> QED  BY <1>2, <2>6
<1>4. CASE s \notin subscribed
  <2>1. /\ attached' = attached
        /\ \A u \in Threads \ {t} : call'[u] = call[u]
        /\ call'[t].op = "attach" /\ call'[t].stage = SubscribeStage(s)
        /\ call'[t].symbol = s /\ call'[t].period = 1
        /\ SubscribeStage(s) \in {"subscribe", "mark"}
    BY <1>4, Attaching
  <2>2. \A r \in Symbols \ {s} : Untouched(r)
    BY <2>1, OthersUntouched
  <2>3. Calling(t, s)' /\ \A u \in Threads \ {t} : ~Calling(u, s)'
    BY <2>1 DEF Calling, Busy
  <2>4. ASSUME Serving', s \notin faulty'  PROVE AttachedOf(s)' /\ FeedOf(s)'
    <3>1. AttachedOf(s) /\ FeedOf(s)
      BY <2>4 DEF AgreedInv
    <3>2. AttachedOf(s)'
      <4>1. Settling(s) => Settling(s)'
        BY <2>1 DEF Settling, Busy
      <4> QED  BY <2>1, <3>1, <4>1 DEF AttachedOf
    <3>3. s \notin clientSubscribed /\ \A p \in Periods : Unfed(s, p)
      BY <1>4, <3>1 DEF FeedOf
    <3>4. \A p \in Periods : ~Reached(t, p)'
      BY <2>1, <3>3, PeriodsAreNumbers DEF SubscribeStage, Reached
    <3>5. \A p \in Periods : Unfed(s, p)'
      BY <3>3 DEF Unfed
    <3> QED  BY <2>3, <3>2, <3>4, <3>5 DEF FeedOf
  <2>5. \A p \in Periods : BoundOf(s, p)'
    BY <1>1, <1>4 DEF BoundInv, BoundOf
  <2>6. AgreedInv' /\ BoundInv'
    BY <1>1, <2>2, <2>4, <2>5, StepAgrees
  <2> QED  BY <1>2, <2>6
<1> QED  BY <1>3, <1>4

LEMMA AttachAgrees ==
  ASSUME IInv, NEW c \in Clients, NEW s \in Symbols, Attach(c, s)
  PROVE  AgreedInv' /\ BoundInv' /\ TrackInv'
<1> USE DEF IInv, sdkVars, managerVars, trackerVars, runtimeVars, loopVars
<1>1. c \in Threads /\ ~Busy(c) /\ phase = "live"
  BY IdleIsNoCall, LoopIsNoClient DEF Attach, Busy
<1>2. UNCHANGED <<phase, sdkVars, managerVars, tracker, faulty>>
  BY DEF Attach
<1>3. CASE call' = call /\ attached' = attached
  <2>1. \A r \in Symbols : Untouched(r)
    BY <1>2, <1>3 DEF Untouched, SameFeed, Calling, Settling, Busy
  <2>2. AgreedInv'
    BY <1>2, <2>1, UntouchedAgrees DEF AgreedInv, Serving
  <2>3. BoundInv'
    BY <1>2, <2>1, SameFeedBound DEF BoundInv, Untouched, TypeInv, DataInv
  <2>4. TrackInv'
    BY <1>2 DEF TrackInv, Serving
  <2> QED  BY <2>2, <2>3, <2>4
<1>4. CASE refs[s] = {} /\ s \notin attached /\ BeginAttach(c, s)
  <2>1. CASE s \in subscribed
    <3>1. call' = call /\ attached' = attached \cup {s}
      BY <1>1, <1>4, <2>1, Attaching
    <3>2. \A r \in Symbols \ {s} : Untouched(r)
      BY <1>2, <3>1 DEF Untouched, SameFeed, Calling, Settling, Busy
    <3>3. SameFeed(s)
      BY <1>2, <3>1 DEF SameFeed, Calling, Busy
    <3>4. Serving' => Serving
      BY <1>2 DEF Serving
    <3>5. ASSUME Serving', s \notin faulty'  PROVE AttachedOf(s)' /\ FeedOf(s)'
      <4>1. FeedOf(s)
        BY <1>2, <3>4, <3>5 DEF AgreedInv
      <4> QED  BY <1>2, <2>1, <3>1, <3>3, <4>1, SameFeedAgrees DEF AttachedOf
    <3>6. failures' \in Nat /\ failures' >= failures
      BY <1>2 DEF TypeInv, DataInv
    <3>7. \A p \in Periods : BoundOf(s, p)'
      BY <1>2, <3>3, <3>6, SameFeedBound DEF BoundInv
    <3>8. AgreedInv' /\ BoundInv'
      BY <1>2, <3>2, <3>4, <3>5, <3>6, <3>7, StepAgrees
    <3>9. TrackInv'
      BY <1>2 DEF TrackInv, Serving
    <3> QED  BY <3>8, <3>9
  <2>2. CASE s \notin subscribed
    <3>1. \A u \in Threads : ~Calling(u, s)
      BY <1>1, <1>4, <2>2, NoCaller DEF CallerInv
    <3>2. Serving
      BY <1>1 DEF Serving
    <3> QED  BY <1>1, <1>2, <1>4, <3>1, <3>2, BeginAttachAgrees
  <2> QED  BY <2>1, <2>2
<1> QED  BY <1>3, <1>4 DEF Attach

LEMMA StartAgrees ==
  ASSUME IInv, StartSymbol
  PROVE  AgreedInv' /\ BoundInv' /\ TrackInv'
<1> USE DEF IInv, sdkVars, managerVars, trackerVars, runtimeVars, loopVars
<1>1. PICK s \in todo : BeginAttach(Loop, s)
  BY DEF StartSymbol
<1>2. s \in Symbols /\ phase = "starting" /\ ~Busy(Loop) /\ Loop \in Threads
  BY IdleIsNoCall, LoopIsNoClient DEF StartSymbol, LoopIdleAt, TypeInv, DataInv, Busy
<1>3. \A u \in Threads : ~Calling(u, s)
  BY <1>2, NoCaller DEF CallerInv
<1>4. UNCHANGED <<phase, sdkVars, managerVars, tracker, faulty>> /\ Serving
  BY <1>2 DEF StartSymbol, Serving
<1> QED  BY <1>1, <1>2, <1>3, <1>4, BeginAttachAgrees

\* The loop begins to renew or to release a symbol that is subscribed.
LEMMA BeginUnsubscribeAgrees ==
  ASSUME IInv, ~Busy(Loop), NEW s \in Symbols, s \in subscribed, phase = "live",
         \A u \in Threads \ {Loop} : call'[u] = call[u],
         call'[Loop].op \in {"renew", "release"}, call'[Loop].stage = "unsubscribe",
         call'[Loop].symbol = s, call'[Loop].period = 1,
         UNCHANGED <<phase, sdkVars, managerVars, trackerVars, attached, faulty>>
  PROVE  AgreedInv' /\ BoundInv' /\ TrackInv'
<1> USE LoopIsNoClient DEF IInv, sdkVars, managerVars, trackerVars
<1>1. \A u \in Threads : ~Calling(u, s)
  BY NoCaller DEF CallerInv
<1>2. \A r \in Symbols \ {s} : Untouched(r)
  BY OthersUntouched
<1>3. Calling(Loop, s)' /\ \A u \in Threads \ {Loop} : ~Calling(u, s)'
  BY <1>1 DEF Calling, Busy
<1>4. /\ (Serving' => Serving) /\ failures' \in Nat /\ failures' >= failures
      /\ faulty \subseteq faulty' /\ phase # "stopped"
  BY DEF Serving, TypeInv, DataInv
<1>5. ASSUME Serving', s \notin faulty'  PROVE AttachedOf(s)' /\ FeedOf(s)'
  <2>1. AttachedOf(s) /\ FeedOf(s)
    BY <1>4, <1>5 DEF AgreedInv
  <2>2. AttachedOf(s)'
    <3>1. Settling(s) => Settling(s)'
      BY DEF Settling, Busy
    <3> QED  BY <2>1, <3>1 DEF AttachedOf
  <2>3. \A p \in Periods : Fed(s, p)'
    BY <1>1, <2>1 DEF FeedOf, Fed
  <2>4. \A p \in Periods : Reached(Loop, p)'
    BY PeriodsAreNumbers DEF Reached
  <2> QED  BY <1>3, <2>2, <2>3, <2>4 DEF FeedOf
<1>6. ASSUME NEW p \in Periods  PROVE BoundOf(s, p)'
  <2>1. \A u \in Threads : ~Owing(u, s, p)'
    BY <1>3, PeriodsAreNumbers DEF Owing
  <2>2. BoundOf(s, p)
    BY DEF BoundInv
  <2> QED  BY <2>1, <2>2 DEF BoundOf
<1>7. AgreedInv' /\ BoundInv'
  BY <1>2, <1>4, <1>5, <1>6, StepAgrees
<1>8. TrackInv'
  BY <1>4 DEF TrackInv
<1> QED  BY <1>7, <1>8

LEMMA TickAgrees ==
  ASSUME IInv, Renew \/ Evict
  PROVE  AgreedInv' /\ BoundInv' /\ TrackInv'
<1> USE DEF IInv, sdkVars, managerVars, trackerVars, runtimeVars, loopVars
<1>1. ~Busy(Loop) /\ phase = "live"
  BY IdleIsNoCall DEF Renew, Evict, LoopIdleAt, Busy
<1>2. UNCHANGED <<phase, sdkVars, managerVars, trackerVars, faulty>> /\ (Serving' => Serving)
  BY DEF Renew, Evict, Serving
<1>3. TrackInv' /\ failures' \in Nat /\ failures' >= failures
  BY <1>2 DEF TrackInv, TypeInv, DataInv
<1>4. CASE Renew
  <2>1. attached' = attached
    BY <1>4 DEF Renew
  <2>2. CASE call' = call
    <3>1. \A r \in Symbols : Untouched(r)
      BY <1>2, <2>1, <2>2 DEF Untouched, SameFeed, Calling, Settling, Busy
    <3>2. AgreedInv'
      BY <1>2, <3>1, UntouchedAgrees DEF AgreedInv
    <3>3. BoundInv'
      BY <1>2, <1>3, <3>1, SameFeedBound DEF BoundInv, Untouched
    <3> QED  BY <1>3, <3>2, <3>3
  <2>3. CASE call' # call
    BY <1>1, <1>2, <1>4, <2>1, <2>3, Renewing, BeginUnsubscribeAgrees
  <2> QED  BY <2>2, <2>3
<1>5. CASE Evict
  <2>1. PICK s \in Symbols :
          /\ s \in attached
          /\ \/ s \notin subscribed /\ call' = call /\ attached' = attached \ {s}
             \/ /\ s \in subscribed /\ attached' = attached
                /\ \A u \in Threads \ {Loop} : call'[u] = call[u]
                /\ call'[Loop].op = "release" /\ call'[Loop].stage = "unsubscribe"
                /\ call'[Loop].symbol = s /\ call'[Loop].period = 1
    BY <1>5, Evicting
  <2>2. CASE s \in subscribed
    BY <1>1, <1>2, <2>1, <2>2, BeginUnsubscribeAgrees
  <2>3. CASE s \notin subscribed
    <3>1. \A r \in Symbols \ {s} : Untouched(r)
      BY <1>2, <2>1, <2>3 DEF Untouched, SameFeed, Calling, Settling, Busy
    <3>2. SameFeed(s)
      BY <1>2, <2>1, <2>3 DEF SameFeed, Calling, Busy
    <3>3. ASSUME Serving', s \notin faulty'  PROVE AttachedOf(s)' /\ FeedOf(s)'
      <4>1. FeedOf(s)
        BY <1>2, <3>3 DEF AgreedInv
      <4> QED  BY <1>2, <2>1, <2>3, <3>2, <4>1, SameFeedAgrees DEF AttachedOf
    <3>4. \A p \in Periods : BoundOf(s, p)'
      BY <1>2, <1>3, <3>2, SameFeedBound DEF BoundInv
    <3> QED  BY <1>2, <1>3, <3>1, <3>3, <3>4, StepAgrees
  <2> QED  BY <2>2, <2>3
<1> QED  BY <1>4, <1>5

LEMMA AsideAgrees ==
  ASSUME IInv, Aside
  PROVE  AgreedInv' /\ BoundInv' /\ TrackInv'
<1> USE DEF IInv
<1>1. /\ call' = call /\ live' = live /\ attached' = attached /\ faulty' = faulty
      /\ failures' >= failures /\ failures' \in Nat
      /\ Serving' => Serving
      /\ phase' # "stopped" => /\ handles' = handles /\ subscribed' = subscribed
                               /\ clientSubscribed' = clientSubscribed /\ phase # "stopped"
      /\ handles' \subseteq handles
  BY AsideEffect
<1>2. CASE phase' # "stopped"
  <2>1. \A r \in Symbols : Untouched(r)
    BY <1>1, <1>2 DEF Untouched, SameFeed, Calling, Settling, Busy
  <2>2. AgreedInv'
    BY <1>1, <2>1, UntouchedAgrees DEF AgreedInv
  <2>3. BoundInv'
    BY <1>1, <1>2, <2>1, SameFeedBound DEF BoundInv, Untouched
  <2>4. TrackInv'
    <3>1. \A s \in Symbols : (tracker'[<<s, Parent>>] = "on") <=> (tracker[<<s, Parent>>] = "on")
      <4>1. CASE \E s \in Symbols, p \in Periods : Deliver(s, p)
        BY <4>1, ParentIsStream DEF Deliver, TypeInv, DataInv
      <4>2. CASE Ingest
        <5>1. PICK e \in queued : tracker' \in {tracker, [tracker EXCEPT ![e] = "on"]}
          BY <4>2 DEF Ingest
        <5>2. \A s \in Symbols : e # <<s, Parent>>
          BY ParentIsStream DEF TypeInv, DataInv
        <5> QED  BY <5>1, <5>2, ParentIsStream DEF TypeInv, DataInv
      <4>3. CASE ~Ingest /\ ~\E s \in Symbols, p \in Periods : Deliver(s, p)
        <5>1. tracker' = tracker
          BY <4>3 DEF Aside, Detach, Age, CoolDown, Connect, GoLive, BeginEvaluate, EndEvaluate,
                      BeginEvict, EndTick, Stop, vars, trackerVars
        <5> QED  BY <5>1
      <4> QED  BY <4>1, <4>2, <4>3
    <3> QED  BY <1>1, <1>2, <3>1 DEF TrackInv
  <2> QED  BY <2>2, <2>3, <2>4
<1>3. CASE phase' = "stopped"
  <2>1. AgreedInv' /\ TrackInv'
    BY <1>3 DEF AgreedInv, TrackInv, Serving
  <2>2. ASSUME NEW s \in Symbols, NEW p \in Periods  PROVE BoundOf(s, p)'
    <3>1. BoundOf(s, p) /\ live[s][p] \in Int /\ failures \in Nat
      BY DEF BoundInv, TypeInv, DataInv
    <3>2. \A u \in Threads : Owing(u, s, p)' => Owing(u, s, p)
      BY <1>1 DEF Owing, Calling, Busy
    <3> QED  BY <1>1, <1>3, <3>1, <3>2 DEF BoundOf
  <2> QED  BY <2>1, <2>2 DEF BoundInv
<1> QED  BY <1>2, <1>3

-----------------------------------------------------------------------------
(* The theorems.                                                           *)

LEMMA InitInv == Init => IInv
<1> SUFFICES ASSUME Init PROVE IInv
  OBVIOUS
<1>1. TypeInv
  BY InitTypes
<1>2. \A t \in Threads : ~Busy(t)
  BY IdleIsNoCall DEF Init, Busy
<1>3. CallerInv
  BY <1>2, LoopIsNoClient DEF CallerInv, LoopInv, ClientInv, UniqueInv, SyncInv
<1>4. AgreedInv
  BY <1>2 DEF Init, AgreedInv, AttachedOf, FeedOf, Calling, Unfed
<1>5. BoundInv
  BY <1>2 DEF Init, BoundInv, BoundOf, Owing, Calling
<1>6. TrackInv
  BY ParentIsStream DEF Init, TrackInv
<1> QED  BY <1>1, <1>3, <1>4, <1>5, <1>6 DEF IInv

LEMMA NextInv == IInv /\ [Next]_vars => IInv'
<1> SUFFICES ASSUME IInv, [Next]_vars PROVE IInv'
  OBVIOUS
<1>1. TypeInv' /\ CallerInv'
  BY TypeStep, CallerStep DEF IInv
<1>2. AgreedInv' /\ BoundInv' /\ TrackInv'
  BY Steps, SubscribeAgrees, UnsubscribeAgrees, MarkAgrees, MarkReleasedAgrees, SyncAgrees,
     SdkRaisesAgrees, AttachAgrees, StartAgrees, TickAgrees, AsideAgrees
<1> QED  BY <1>1, <1>2 DEF IInv

LEMMA Invariant == Spec => []IInv
BY InitInv, NextInv, PTL DEF Spec

\* Every variable holds what the code keeps there, and the SDK never has more
\* subscriptions of a period than the failures explain.
THEOREM FeedTypeCorrect == Spec => []TypeOK
<1>1. IInv => TypeOK
  <2> SUFFICES ASSUME IInv PROVE TypeOK
    OBVIOUS
  <2>1. ASSUME NEW s \in Symbols, NEW p \in Periods  PROVE live[s][p] \in 0..(1 + MaxFailures)
    <3>1. live[s][p] \in Int /\ failures \in Nat /\ failures <= MaxFailures
      BY DEF IInv, TypeInv, DataInv
    <3>2. live[s][p] >= 0 /\ live[s][p] <= failures + 1
      BY DEF IInv, BoundInv, BoundOf
    <3> QED  BY <3>1, <3>2, FeedAssumption
  <2>2. CallsType
    BY BusyHasCall DEF IInv, TypeInv, CallerInv, ClientInv, CallsType, Calls, Stages, Busy, Threads
  <2>3. failures \in 0..MaxFailures
    BY FeedAssumption DEF IInv, TypeInv, DataInv
  <2> QED  BY <2>1, <2>2, <2>3, ParentIsStream DEF TypeOK, IInv, TypeInv, DataInv, Phases, Places
<1> QED  BY <1>1, Invariant, PTL

\* One thread at a time is between the first and the last change of a
\* symbol's subscriptions, although the client, the manager and the tracker
\* lock nothing.
THEOREM OneCallerPerSymbol == Spec => []SoleCaller
<1>1. IInv => SoleCaller
  <2> SUFFICES ASSUME IInv, NEW t \in Threads, NEW u \in Threads,
                      Busy(t), call[t].stage # "sync", Busy(u), call[u].stage # "sync",
                      call[t].symbol = call[u].symbol
               PROVE  t = u
    BY DEF SoleCaller, Busy
  <2> QED  BY Alone DEF Calling, IInv, CallerInv
<1> QED  BY <1>1, Invariant, PTL

\* Between the calls, and unless one of them has failed, the SDK has each
\* period of a symbol once while the manager lists it and not at all
\* otherwise, the client has the handles and the runtime knows.
THEOREM FeedIsExact == Spec => []ExactlyOnce
<1>1. IInv => ExactlyOnce
  <2> SUFFICES ASSUME IInv, NEW s \in Symbols, Serving, ~InCall(s), s \notin faulty
               PROVE  /\ (s \in attached) = (s \in subscribed)
                      /\ \A p \in Periods :
                           /\ live[s][p] = IF s \in subscribed THEN 1 ELSE 0
                           /\ (<<s, p>> \in handles) = (s \in subscribed)
    BY DEF ExactlyOnce, Serving
  <2>1. ~Settling(s) /\ \A t \in Threads : ~Calling(t, s)
    BY DEF InCall, Settling, Calling, Busy
  <2>2. AttachedOf(s) /\ FeedOf(s)
    BY DEF IInv, AgreedInv
  <2> QED  BY <2>1, <2>2 DEF AttachedOf, FeedOf, Fed, Unfed
<1> QED  BY <1>1, Invariant, PTL

\* The tracker watches the symbols that are subscribed and no other.
THEOREM WatchIsExact == Spec => []WatchedIsSubscribed
<1>1. IInv => WatchedIsSubscribed
  BY DEF IInv, TrackInv, WatchedIsSubscribed, Serving
<1> QED  BY <1>1, Invariant, PTL
=============================================================================
