---- MODULE MarketState ----
(***************************************************************************)
(* What the terminal shows of one symbol in one trading session: the chart *)
(* of one-minute bars, the big-trade alerts and the broker queue, and the  *)
(* three copies of it.  OctopusCompute keeps a state per symbol that start,*)
(* hydration, recovery and seeds work on; SymbolRuntime keeps the snapshot *)
(* that live events work on and clients are given; Redis keeps what the    *)
(* next start finds.  Snapshot and state are one Python object or two:     *)
(* seed_snapshot makes them one, applying a processed event makes a copy.  *)
(*                                                                         *)
(* The historical store ends with the day before (the effective trade date *)
(* of every symbol during a session), the SDK knows every trade of today.  *)
(* A trade is its number, a bar the number of times each trade is counted  *)
(* in it; prices, volumes and turnovers are functions of these.  The steps *)
(* of one event on one state are atomic, as are those of a start up to its *)
(* subscription; the races between attach, detach, events and eviction are *)
(* the subject of SymbolRuntime.                                           *)
(***************************************************************************)
EXTENDS Integers, Sequences

CONSTANTS
  LastMinute,        \* minutes of the session: 1..LastMinute
  MaxTrades,         \* bound: trades of the session
  BigTrades,         \* those of them that is_big_trade takes for big
  Books,             \* the sides of the broker queue and the L2 order book, each
                     \* replaced as a whole
  MaxCrashes,        \* bound: crashes of the process
  MaxFailures,       \* bound: Redis calls that fail
  MaxSeeds,          \* bound: seeds asked for by a client
  StartupRecovery    \* config: startup_intraday_recovery

ASSUME MarketAssumption ==
  /\ {LastMinute, MaxTrades} \subseteq Nat \ {0}
  /\ BigTrades \subseteq 1..MaxTrades
  /\ {MaxCrashes, MaxFailures, MaxSeeds} \subseteq Nat
  /\ StartupRecovery \in BOOLEAN

Minutes == 1..LastMinute
Trades == 1..MaxTrades
OldTrade == 0                       \* a big trade of the day before

NoBar == [n |-> [t \in Trades |-> 0], confirmed |-> FALSE]
Bars == [n : [Trades -> 0..2], confirmed : BOOLEAN]
States ==
  [day : {"none", "old", "today"},  \* snapshot.tradeDate
   oldBars : BOOLEAN,               \* minute_bars has bars of the day before
   bars : [Minutes -> Bars],        \* minute_bars of today
   alerts : SUBSET (BigTrades \cup {OldTrade}),
   book : SUBSET Books,             \* the sides that have entries
   dated : BOOLEAN,                 \* source_dates.minute_bars is today
   gap : BOOLEAN]                   \* intraday_gap_before_attach

NoState ==
  [day |-> "none", oldBars |-> FALSE, bars |-> [m \in Minutes |-> NoBar],
   alerts |-> {}, book |-> {}, dated |-> FALSE, gap |-> FALSE]

VARIABLES
  now,         \* the current minute; LastMinute + 1 after the session
  trades,      \* the minute of each trade at the exchange
  phase,       \* of the runtime of the symbol: "down", "seeding" or "live"
  subscribed,  \* the SDK delivers callbacks
  ticks, due,  \* callbacks in the raw event queue: trades, closed minutes
  octopus,     \* octopus.state_by_symbol
  snapshot,    \* runtime.snapshot_payload
  aliased,     \* the two are one object
  cache,       \* Redis: terminal:<today>:snapshot
  seeder,      \* who seeds: "none", "startup", "attach" or "client"
  step,        \* the next step of that seed
  late,        \* history: minutes given a trade after, or confirmed before, they were whole
  overlapped,  \* history: an event was processed between two steps of a seed
  crashes, failures, seeds

exchangeVars == <<now, trades>>
queueVars == <<subscribed, ticks, due>>
stateVars == <<octopus, snapshot, aliased>>
seedVars == <<seeder, step>>
boundVars == <<crashes, seeds>>
historyVars == <<late, overlapped>>
vars == <<exchangeVars, phase, queueVars, stateVars, cache, seedVars, historyVars,
          failures, boundVars>>

-----------------------------------------------------------------------------
(* Operators on a state. *)

HasBar(s, m) == s.bars[m] # NoBar
HasBars(s) == s.oldBars \/ \E m \in Minutes : HasBar(s, m)

\* realtime_freshness: the gap is closed by a dated chart that has bars
Refreshed(s) == [s EXCEPT !.gap = @ /\ ~(HasBars(s) /\ s.dated)]

\* rollover_realtime_session: book and L2 stay
RolledOver(s) ==
  IF s.day = "today" THEN s
  ELSE [s EXCEPT !.day = "today", !.oldBars = FALSE, !.alerts = {}, !.dated = FALSE,
                 !.bars = [m \in Minutes |-> NoBar]]

Capped(n) == IF n > 2 THEN 2 ELSE n

\* upsert_minute_bar: a trade is merged into the bar of its minute, confirmed or not
UpsertedTrade(s, t) ==
  [s EXCEPT !.bars[trades[t]].n[t] = Capped(@ + 1)]

\* upsert_confirmed_minute_bar: the bar of the exchange replaces the one there is
Confirmed(n) == [n |-> n, confirmed |-> TRUE]

\* Mutant of UpsertedBars: the trades of the bar are added to those merged before
UpsertedBarsAdding(s, new) ==
  [s EXCEPT !.bars =
     [m \in Minutes |-> IF m \in DOMAIN new
                        THEN Confirmed([t \in Trades |-> Capped(@[m].n[t] + new[m][t])])
                        ELSE @[m]],
            !.dated = TRUE]

UpsertedBars(s, new) ==
  [s EXCEPT !.bars = [m \in Minutes |-> IF m \in DOMAIN new THEN Confirmed(new[m]) ELSE @[m]],
            !.dated = TRUE]

\* apply_tick_to_state of an hktransaction
AppliedTick(s, t) ==
  LET charted == UpsertedTrade(RolledOver(s), t)
  IN [Refreshed(charted) EXCEPT !.alerts = @ \cup (BigTrades \cap {t})]

\* apply_tick_to_state of a full tick: neither chart nor alerts
AppliedFullTick(s) == Refreshed(RolledOver(s))

\* is_current_or_future_minute_bar, when the bar is processed
Unclosed(m) == m >= now

\* apply_minute_bar_to_state
AppliedBar(s, bar) ==
  LET today == RolledOver(s)
  IN IF Unclosed(bar.minute) THEN today
     ELSE Refreshed(UpsertedBars(today, [m \in {bar.minute} |-> bar.n]))

\* what the exchange's bar of a minute counts up to now
BarOf(m) == [t \in Trades |-> IF t <= Len(trades) /\ trades[t] = m THEN 1 ELSE 0]

\* process_minute_bar_backfill with all bars of the day up to now
Backfilled(s) ==
  LET closed == {m \in Minutes : ~Unclosed(m)}
  IN IF closed = {} THEN s
     ELSE Refreshed(UpsertedBars(RolledOver(s), [m \in closed |-> BarOf(m)]))

\* Mutant of AppliedBook: a one-sided update empties the other side
AppliedBookWhole(s, b) == Refreshed([RolledOver(s) EXCEPT !.book = {b}])

\* merge_broker_queue of a one-sided update, or a new order book
AppliedBook(s, b) == Refreshed([RolledOver(s) EXCEPT !.book = @ \cup {b}])

\* Mutant of Merged: of two bars of one minute the one in Redis stays
MergedKeeping(s, c) ==
  CASE ~c.dated -> s
    [] c.dated /\ s.day # "today" -> c
    [] c.dated /\ s.day = "today" ->
         IF ~HasBars(c) THEN s
         ELSE [s EXCEPT !.bars = [m \in Minutes |-> IF HasBar(c, m) THEN c.bars[m] ELSE @[m]],
                        !.dated = TRUE]

\* merge_existing_minute_bars: what a write of s leaves in Redis where c was
Merged(s, c) ==
  CASE ~c.dated -> s
    [] c.dated /\ s.day # "today" -> c
    [] c.dated /\ s.day = "today" ->
         IF ~HasBars(c) THEN s
         ELSE [s EXCEPT !.bars = [m \in Minutes |-> IF HasBar(s, m) THEN @[m] ELSE c.bars[m]],
                        !.dated = TRUE]

-----------------------------------------------------------------------------
(* The exchange and the callbacks of the SDK. *)

Init ==
  /\ now = 1 /\ trades = <<>>
  /\ phase = "down" /\ subscribed = FALSE /\ ticks = <<>> /\ due = <<>>
  /\ octopus = NoState /\ snapshot = NoState /\ aliased = FALSE /\ cache = NoState
  /\ seeder = "none" /\ step = "none" /\ late = {} /\ overlapped = FALSE
  /\ crashes = 0 /\ failures = 0 /\ seeds = 0

InSession == now <= LastMinute

Delivered(queue, item) == IF subscribed THEN Append(queue, item) ELSE queue

Trade ==
  /\ InSession /\ Len(trades) < MaxTrades
  /\ trades' = Append(trades, now)
  /\ ticks' = Delivered(ticks, Len(trades) + 1)
  /\ UNCHANGED <<now, phase, subscribed, due, stateVars, cache, seedVars, historyVars,
                 failures, boundVars>>

\* the bar of the current minute is delivered as it grows
PushForming ==
  /\ InSession /\ subscribed /\ \E t \in Trades : BarOf(now)[t] = 1
  /\ \A i \in DOMAIN due : due[i].minute # now
  /\ due' = Append(due, [minute |-> now, n |-> BarOf(now)])
  /\ UNCHANGED <<exchangeVars, phase, subscribed, ticks, stateVars, cache, seedVars, historyVars,
                 failures, boundVars>>

CloseMinute ==
  /\ InSession /\ now' = now + 1
  /\ due' = Delivered(due, [minute |-> now, n |-> BarOf(now)])
  /\ UNCHANGED <<trades, phase, subscribed, ticks, stateVars, cache, seedVars, historyVars,
                 failures, boundVars>>

-----------------------------------------------------------------------------
(* Live events: apply_raw_event works on the snapshot, and on the state of *)
(* octopus as far as it is the same object.                                *)

\* _cache_set_terminal_snapshot: a failure is recorded as degraded health.  The
\* snapshot sink writes only where Redis has none, and a start has written one
Stored(s) ==
  \/ cache' = Merged(s, cache) /\ UNCHANGED failures
  \/ failures < MaxFailures /\ failures' = failures + 1 /\ UNCHANGED cache

Live(s) ==
  /\ snapshot' = s
  /\ octopus' = IF aliased THEN s ELSE octopus
  /\ overlapped' = (overlapped \/ step # "none")
  /\ UNCHANGED aliased

\* process_trade_tick_alert_event: a snapshot is published at most every few
\* seconds, and Redis is written only with something published
ProcessTick ==
  /\ phase = "live" /\ ticks # <<>> /\ ticks' = Tail(ticks)
  /\ LET t == Head(ticks)
         s == AppliedTick(snapshot, t)
     IN /\ Live(s)
        /\ late' = IF snapshot.bars[trades[t]].confirmed
                   THEN late \cup {trades[t]} ELSE late
        /\ \/ Stored(s)
           \/ t \notin BigTrades /\ UNCHANGED <<cache, failures>>
  /\ UNCHANGED <<exchangeVars, phase, subscribed, due, seedVars, boundVars>>

\* process_minute_bar_event
ProcessBar ==
  /\ phase = "live" /\ due # <<>> /\ due' = Tail(due)
  /\ LET bar == Head(due)
         s == AppliedBar(snapshot, bar)
     IN /\ Live(s) /\ Stored(s)
        /\ late' = IF ~Unclosed(bar.minute) /\ bar.n # BarOf(bar.minute)
                   THEN late \cup {bar.minute} ELSE late
  /\ UNCHANGED <<exchangeVars, phase, subscribed, ticks, seedVars, boundVars>>

\* _process_broker_queue, _process_l2_order_book
ProcessBook ==
  /\ phase = "live"
  /\ \E b \in Books : LET s == AppliedBook(snapshot, b) IN Live(s) /\ Stored(s)
  /\ UNCHANGED <<exchangeVars, phase, queueVars, seedVars, late, boundVars>>

-----------------------------------------------------------------------------
(* Starts, hydration and seeds. *)

\* is_terminal_snapshot_usable
Usable(s) == s.dated /\ HasBars(s)

\* preload_bod from the historical store, which ends the day before
Preloaded == [NoState EXCEPT !.day = "old", !.oldBars = TRUE]

\* startup_cached_snapshot: NoState when Redis has none or fails
CacheRead(s) ==
  \/ s = cache /\ UNCHANGED failures
  \/ s = NoState /\ failures < MaxFailures /\ failures' = failures + 1

\* set_state of a usable snapshot, or preload_bod
Loaded(cached) == IF Usable(cached) THEN cached ELSE Preloaded

\* recover_symbol_intraday with the effective trade date, on the state of today
\* or of the day before: the raw events of that day (its 1m bars roll the state
\* over and date it, its ticks give alerts), or else its ticks in the store
Recovered(s) ==
  {s} \cup
  IF ~StartupRecovery THEN {}
  ELSE {[s EXCEPT !.alerts = @ \cup {OldTrade}],
        Refreshed([RolledOver(s) EXCEPT !.dated = TRUE, !.alerts = @ \cup {OldTrade}])}

\* Mutant of Promoted: the gap is marked but the session is not rolled over
PromotedUnrolled(s) == IF s.day = "today" THEN s ELSE [s EXCEPT !.day = "today", !.gap = TRUE]

\* promote_snapshot_to_realtime_session
Promoted(s) == IF s.day = "today" THEN s ELSE [RolledOver(s) EXCEPT !.gap = TRUE]

Adopted(s) == octopus' = s /\ snapshot' = s /\ aliased' = TRUE

\* BeastMarketRuntimeSupervisor.start up to activate_symbol
Start ==
  /\ phase = "down" /\ phase' = "seeding"
  /\ \E cached \in {cache, NoState} :
       /\ CacheRead(cached)
       /\ \E s \in Recovered(Loaded(cached)) :
            /\ Adopted(Promoted(s))
            /\ cache' = Merged(Promoted(s), Merged(Loaded(cached), cache))
  /\ subscribed' = TRUE /\ seeder' = "startup" /\ step' = "backfill"
  /\ UNCHANGED <<exchangeVars, ticks, due, historyVars, boundVars>>

\* hydrate_symbol_snapshot for the first client of a symbol; a preloaded one is
\* seeded before it is subscribed
Attach ==
  /\ phase = "down"
  /\ \E cached \in {cache, NoState} :
       /\ CacheRead(cached)
       /\ LET s == Promoted(Loaded(cached))
          IN Adopted(s) /\ cache' = Merged(s, Merged(Loaded(cached), cache))
       /\ IF Usable(cached)
          THEN phase' = "live" /\ subscribed' = TRUE /\ UNCHANGED seedVars
          ELSE phase' = "seeding" /\ seeder' = "attach" /\ step' = "backfill" /\ UNCHANGED subscribed
  /\ UNCHANGED <<exchangeVars, ticks, due, historyVars, boundVars>>

\* snapshot_needs_realtime_seed: a chart with bars of today is dated
NeedsSeed(s) == s.gap \/ ~HasBars(s)

\* _active_runtime_snapshot of a further client's subscribe, on its own thread
ClientSeed ==
  /\ phase = "live" /\ seeder = "none" /\ seeds < MaxSeeds /\ NeedsSeed(snapshot)
  /\ seeds' = seeds + 1 /\ seeder' = "client" /\ step' = "backfill"
  /\ UNCHANGED <<exchangeVars, phase, queueVars, stateVars, cache, historyVars, failures, crashes>>

\* a change of octopus' state is one of the snapshot while they are one object
OctopusBecomes(s) ==
  /\ octopus' = s
  /\ snapshot' = IF aliased THEN s ELSE snapshot
  /\ UNCHANGED aliased

seedFrame == <<exchangeVars, queueVars, seeder, phase, historyVars, boundVars>>

\* backfill_symbol_from_market_minute_bars up to the processed event; the SDK may
\* raise or return nothing
Backfill ==
  /\ step = "backfill"
  /\ \/ /\ OctopusBecomes(Backfilled(octopus)) /\ step' = "publish"
        /\ IF Backfilled(octopus) = octopus THEN UNCHANGED <<cache, failures>> ELSE Stored(Backfilled(octopus))
     \/ step' = "fulltick" /\ UNCHANGED <<stateVars, cache, failures>>
  /\ UNCHANGED seedFrame

\* apply_processed_events, then seed_snapshot
Publish ==
  /\ step = "publish" /\ step' = "fulltick" /\ Adopted(octopus)
  /\ UNCHANGED <<seedFrame, cache, failures>>

\* seed_symbol_from_market_full_tick up to the processed event
FullTick ==
  /\ step = "fulltick"
  /\ \/ /\ OctopusBecomes(AppliedFullTick(octopus)) /\ step' = "copy"
        /\ Stored(AppliedFullTick(octopus))
     \/ step' = "done" /\ UNCHANGED <<stateVars, cache, failures>>
  /\ UNCHANGED seedFrame

\* apply_processed_events: the snapshot is a copy of octopus' state from here on
Copy ==
  /\ step = "copy" /\ step' = "done"
  /\ snapshot' = octopus /\ aliased' = FALSE /\ UNCHANGED octopus
  /\ UNCHANGED <<seedFrame, cache, failures>>

\* the seed returns; an attach takes the hydrated state and subscribes it
Seeded ==
  /\ step = "done" /\ step' = "none" /\ seeder' = "none" /\ phase' = "live"
  /\ IF seeder = "attach" THEN Adopted(octopus) /\ subscribed' = TRUE
                          ELSE UNCHANGED <<stateVars, subscribed>>
  /\ UNCHANGED <<exchangeVars, ticks, due, cache, historyVars, failures, boundVars>>

Crash ==
  /\ phase # "down" /\ crashes < MaxCrashes /\ crashes' = crashes + 1
  /\ phase' = "down" /\ subscribed' = FALSE /\ ticks' = <<>> /\ due' = <<>>
  /\ octopus' = NoState /\ snapshot' = NoState /\ aliased' = FALSE
  /\ seeder' = "none" /\ step' = "none"
  /\ UNCHANGED <<exchangeVars, cache, historyVars, failures, seeds>>

-----------------------------------------------------------------------------

Process == ProcessTick \/ ProcessBar \/ ProcessBook
Seed == Backfill \/ Publish \/ FullTick \/ Copy \/ Seeded

Next ==
  \/ Trade \/ PushForming \/ CloseMinute
  \/ Process
  \/ Start \/ Attach \/ ClientSeed \/ Seed
  \/ Crash

Spec == Init /\ [][Next]_vars

-----------------------------------------------------------------------------
(* Properties. *)

\* Types and bounds of the state.
TypeOK ==
  /\ now \in 1..(LastMinute + 1)
  /\ Len(trades) <= MaxTrades /\ \A i \in DOMAIN trades : trades[i] \in Minutes
  /\ phase \in {"down", "seeding", "live"} /\ {subscribed, aliased} \subseteq BOOLEAN
  /\ \A i \in DOMAIN ticks : ticks[i] \in Trades
  /\ \A i \in DOMAIN due : due[i] \in [minute : Minutes, n : [Trades -> 0..1]]
  /\ {octopus, snapshot, cache} \subseteq States
  /\ seeder \in {"none", "startup", "attach", "client"}
  /\ step \in {"none", "backfill", "publish", "fulltick", "copy", "done"}
  /\ late \subseteq Minutes /\ overlapped \in BOOLEAN
  /\ crashes \in 0..MaxCrashes
  /\ failures \in 0..MaxFailures /\ seeds \in 0..MaxSeeds

\* A bar marked is_confirmed_minute_bar counts every trade of its minute once,
\* in each of the three copies, however ticks, bars, seeds, restarts and merging
\* writes are interleaved; excepted are the minutes to which the code gives a late
\* tick or whose half-grown bar it takes after the minute has closed
\* (apply_minute_bar_to_state, upsert_minute_bar, merge_existing_minute_bars).
ConfirmedExact ==
  \A s \in {octopus, snapshot, cache} : \A m \in Minutes \ late :
    s.bars[m].confirmed => ~Unclosed(m) /\ s.bars[m].n = BarOf(m)

\* A live symbol never shows the day before as the chart of today, and no snapshot
\* a restart would take as today's does (rollover_realtime_session,
\* promote_snapshot_to_realtime_session, is_terminal_snapshot_usable).
SameDayChart ==
  /\ phase = "live" => snapshot.day = "today" /\ ~snapshot.oldBars
  /\ Usable(cache) => cache.day = "today" /\ ~cache.oldBars

\* a shows what b shows: alerts, confirmed bars, sides of the book
Covers(a, b) ==
  /\ b.alerts \subseteq a.alerts
  /\ \A m \in Minutes : b.bars[m].confirmed => a.bars[m].confirmed
  /\ b.book \subseteq a.book

\* What clients are shown of alerts, confirmed bars and books is in Redis before
\* the next event, so that a crash takes nothing that was not in flight; as long
\* as Redis has not failed and no seed was overlapped by events (_cache_set_terminal_snapshot,
\* process_trade_tick_alert_event's throttled write).
CacheCovers ==
  phase = "live" /\ step = "none" /\ failures = 0 /\ ~overlapped => Covers(cache, snapshot)

\* While a symbol is live no event takes an alert, a confirmed bar or a side of the
\* book from what it shows; only a seed that replaces the snapshot by a state of
\* octopus that has fallen behind does (merge_broker_queue, prepend of alerts,
\* rollover within the session, seed_snapshot of an aliased state).
Kept ==
  [][phase = "live" /\ phase' = "live" /\ (aliased \/ step \notin {"publish", "copy"})
       => Covers(snapshot', snapshot)]_vars

\* The alerts of a live symbol are trades of its session: "recovery must not expose
\* previous-day" facts as today's (recover_symbol_intraday).
OwnSession == phase = "live" => OldTrade \notin snapshot.alerts
====
