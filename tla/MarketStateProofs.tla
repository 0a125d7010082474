------------------------- MODULE MarketStateProofs -------------------------
(***************************************************************************)
(* Theorems about MarketState for every length of the session, number of   *)
(* trades, crashes, failures and seeds: what is marked confirmed is exact, *)
(* the chart is of the day, and Redis covers what clients are shown.       *)
(***************************************************************************)
EXTENDS MarketState, TLAPS

-----------------------------------------------------------------------------
(* The invariants.                                                         *)

\* A state of today has no bars of the day before, and only one of today is dated.
Sound(s) ==
  /\ s \in States
  /\ s.day = "today" => ~s.oldBars
  /\ s.dated => s.day = "today"

DueBars == [minute : Minutes, n : [Trades -> 0..1]]

ExchangeOK ==
  /\ now \in 1..(LastMinute + 1)
  /\ trades \in Seq(Minutes) /\ Len(trades) <= MaxTrades

QueuesOK ==
  /\ subscribed \in BOOLEAN
  /\ ticks \in Seq(Trades) /\ \A i \in 1..Len(ticks) : ticks[i] <= Len(trades)
  /\ due \in Seq(DueBars)

CopiesOK == Sound(octopus) /\ Sound(snapshot) /\ Sound(cache)

SeedOK ==
  /\ phase \in {"down", "seeding", "live"}
  /\ seeder \in {"none", "startup", "attach", "client"}
  /\ step \in {"none", "backfill", "publish", "fulltick", "copy", "done"}
  /\ seeder = "attach" => phase = "seeding"
  /\ step # "none" => phase # "down"
  /\ step = "none" <=> seeder = "none"

\* A symbol that is up is in today's session, whichever object is asked.
AliasOK ==
  /\ aliased \in BOOLEAN
  /\ aliased => octopus = snapshot
  /\ phase # "down" => octopus.day = "today" /\ snapshot.day = "today"

BoundsOK ==
  /\ late \subseteq Minutes /\ overlapped \in BOOLEAN
  /\ crashes \in 0..MaxCrashes
  /\ failures \in 0..MaxFailures /\ seeds \in 0..MaxSeeds

MInv == ExchangeOK /\ QueuesOK /\ CopiesOK /\ SeedOK /\ AliasOK /\ BoundsOK

\* But for the minutes of L, a confirmed bar is over and exact.
Exact(s, L) ==
  \A m \in Minutes \ L : s.bars[m].confirmed => m < now /\ s.bars[m].n = BarOf(m)

ExactInv == Exact(octopus, late) /\ Exact(snapshot, late) /\ Exact(cache, late)

\* Redis covers what clients are shown, and that covers what a seed works on;
\* between the seed's write and the swap of the snapshot, Redis covers what the
\* swap will show.
CoverInv ==
  phase # "down" /\ failures = 0 /\ ~overlapped =>
    IF step \in {"publish", "copy"}
    THEN Covers(cache, octopus)
    ELSE Covers(snapshot, octopus) /\ Covers(cache, snapshot)

-----------------------------------------------------------------------------
(* The operators on states.                                                *)

LEMMA Numbers == LastMinute \in Nat \ {0} /\ MaxTrades \in Nat \ {0}
                 /\ MaxCrashes \in Nat /\ MaxFailures \in Nat /\ MaxSeeds \in Nat
BY MarketAssumption

LEMMA CoversItself ==
  ASSUME NEW s \in States
  PROVE  Covers(s, s)
BY DEF Covers

LEMMA CoversOnward ==
  ASSUME NEW a, NEW b, NEW c, Covers(a, b), Covers(b, c)
  PROVE  Covers(a, c)
BY DEF Covers

LEMMA NoBarIsBar == NoBar \in Bars /\ ~NoBar.confirmed
BY DEF NoBar, Bars

LEMMA NothingIsSound == Sound(NoState) /\ Sound(Preloaded)
                        /\ \A L : Exact(NoState, L) /\ Exact(Preloaded, L)
<1>1. NoState \in States
  BY NoBarIsBar DEF NoState, States
<1>2. Preloaded \in States /\ Preloaded.bars = NoState.bars
      /\ Preloaded.day = "old" /\ ~Preloaded.dated
  BY <1>1 DEF Preloaded, States, NoState
<1>3. \A m \in Minutes : ~NoState.bars[m].confirmed
  BY NoBarIsBar DEF NoState
<1>4. NoState.day = "none" /\ ~NoState.dated
  BY DEF NoState
<1> QED  BY <1>1, <1>2, <1>3, <1>4 DEF Sound, Exact

LEMMA RolledOverIs ==
  ASSUME NEW s, Sound(s)
  PROVE  /\ Sound(RolledOver(s)) /\ RolledOver(s).day = "today"
         /\ s.day = "today" => RolledOver(s) = s
         /\ \A L : Exact(s, L) => Exact(RolledOver(s), L)
<1>1. CASE s.day = "today"
  BY <1>1 DEF RolledOver
<1>2. CASE s.day # "today"
  <2> DEFINE r == [s EXCEPT !.day = "today", !.oldBars = FALSE, !.alerts = {}, !.dated = FALSE,
                            !.bars = [m \in Minutes |-> NoBar]]
  <2>1. r \in States
    BY NoBarIsBar DEF Sound, States
  <2>2. r.day = "today" /\ ~r.oldBars /\ ~r.dated /\ \A m \in Minutes : r.bars[m] = NoBar
    BY DEF Sound, States
  <2>3. RolledOver(s) = r
    BY <1>2 DEF RolledOver
  <2> HIDE DEF r
  <2> QED  BY <1>2, <2>1, <2>2, <2>3, NoBarIsBar DEF Sound, Exact
<1> QED  BY <1>1, <1>2

\* Same chart, alerts and book: only whether there is a gap differs.
LEMMA RefreshedIs ==
  ASSUME NEW s, Sound(s)
  PROVE  /\ Sound(Refreshed(s)) /\ Refreshed(s).day = s.day /\ Refreshed(s).bars = s.bars
         /\ Refreshed(s).alerts = s.alerts /\ Refreshed(s).book = s.book
<1> DEFINE gap == s.gap /\ ~(HasBars(s) /\ s.dated)
<1>1. gap \in BOOLEAN
  BY DEF Sound, States
<1>2. Refreshed(s) = [s EXCEPT !.gap = gap]
  BY DEF Refreshed
<1> HIDE DEF gap
<1> QED  BY <1>1, <1>2 DEF Sound, States

LEMMA SameChartExact ==
  ASSUME NEW s, NEW r, r.bars = s.bars
  PROVE  \A L : Exact(s, L) => Exact(r, L)
BY DEF Exact

LEMMA AppliedTickIs ==
  ASSUME ExchangeOK, NEW s, Sound(s), NEW t \in Trades, t <= Len(trades)
  PROVE  LET r == AppliedTick(s, t)
         IN  /\ Sound(r) /\ r.day = "today"
             /\ s.day = "today" =>
                  /\ Covers(r, s)
                  /\ t \notin BigTrades => r.alerts = s.alerts
                  /\ r.book = s.book
                  /\ \A m \in Minutes : r.bars[m].confirmed = s.bars[m].confirmed
             /\ \A L : Exact(s, L) /\ (s.bars[trades[t]].confirmed => trades[t] \in L) => Exact(r, L)
<1> DEFINE rolled == RolledOver(s)
           minute == trades[t]
           upserted == UpsertedTrade(rolled, t)
           fresh == Refreshed(upserted)
           r == AppliedTick(s, t)
<1>1. /\ Sound(rolled) /\ rolled.day = "today" /\ (s.day = "today" => rolled = s)
      /\ \A L : Exact(s, L) => Exact(rolled, L)
  BY RolledOverIs
<1>2. minute \in Minutes
  BY Numbers DEF ExchangeOK, Trades
<1>3. rolled.bars[minute].confirmed => s.bars[minute].confirmed
  <2>1. CASE s.day = "today"
    BY <1>1, <2>1
  <2>2. CASE s.day # "today"
    BY <1>2, <2>2, NoBarIsBar DEF RolledOver, Sound, States
  <2> QED  BY <2>1, <2>2
<1>4. r = [fresh EXCEPT !.alerts = @ \cup (BigTrades \cap {t})]
  BY DEF AppliedTick
<1> HIDE DEF rolled, r
<1>5. /\ upserted \in States /\ upserted.day = rolled.day /\ upserted.oldBars = rolled.oldBars
      /\ upserted.dated = rolled.dated /\ upserted.alerts = rolled.alerts /\ upserted.book = rolled.book
      /\ \A m \in Minutes : upserted.bars[m].confirmed = rolled.bars[m].confirmed
      /\ \A m \in Minutes : m # minute => upserted.bars[m] = rolled.bars[m]
  <2> DEFINE count == Capped(rolled.bars[minute].n[t] + 1)
             bar == [rolled.bars[minute] EXCEPT !.n[t] = count]
             bars == [rolled.bars EXCEPT ![minute] = bar]
  <2>1. rolled.bars \in [Minutes -> Bars] /\ rolled.bars[minute] \in Bars
    BY <1>1, <1>2 DEF Sound, States
  <2>2. rolled.bars[minute].n \in [Trades -> 0..2]
    BY <2>1 DEF Bars
  <2>3. count \in 0..2
    <3>1. rolled.bars[minute].n[t] \in 0..2
      BY <2>2
    <3> QED  BY <3>1 DEF Capped
  <2> HIDE DEF count
  <2>4. bar \in Bars /\ bar.confirmed = rolled.bars[minute].confirmed
    BY <2>1, <2>2, <2>3 DEF Bars
  <2>5. upserted = [rolled EXCEPT !.bars = bars]
    BY DEF UpsertedTrade, count
  <2> HIDE DEF bar
  <2>6. /\ bars \in [Minutes -> Bars]
        /\ bars[minute] = bar /\ \A m \in Minutes : m # minute => bars[m] = rolled.bars[m]
    BY <1>2, <2>1, <2>4
  <2> HIDE DEF bars, upserted, minute
  <2>7. upserted.bars = bars
    BY <1>1, <2>5 DEF Sound, States
  <2>8. /\ upserted \in States /\ upserted.day = rolled.day /\ upserted.oldBars = rolled.oldBars
        /\ upserted.dated = rolled.dated /\ upserted.alerts = rolled.alerts
        /\ upserted.book = rolled.book
    BY <1>1, <2>5, <2>6 DEF Sound, States
  <2> QED  BY <2>4, <2>6, <2>7, <2>8
<1> HIDE DEF upserted
<1>6. Sound(upserted)
  BY <1>1, <1>5 DEF Sound
<1>7. /\ Sound(fresh) /\ fresh.day = upserted.day /\ fresh.bars = upserted.bars
      /\ fresh.alerts = upserted.alerts /\ fresh.book = upserted.book
  BY <1>6, RefreshedIs
<1> HIDE DEF fresh
<1>8. /\ r \in States /\ r.day = fresh.day /\ r.oldBars = fresh.oldBars /\ r.dated = fresh.dated
      /\ r.bars = fresh.bars /\ r.book = fresh.book
      /\ r.alerts = fresh.alerts \cup (BigTrades \cap {t})
  BY <1>4, <1>7 DEF Sound, States
<1>9. Sound(r) /\ r.day = "today"
  BY <1>1, <1>5, <1>7, <1>8 DEF Sound
<1>10. s.day = "today" =>
         /\ Covers(r, s)
         /\ t \notin BigTrades => r.alerts = s.alerts
         /\ r.book = s.book
         /\ \A m \in Minutes : r.bars[m].confirmed = s.bars[m].confirmed
  BY <1>1, <1>5, <1>7, <1>8 DEF Covers
<1>11. ASSUME NEW L, Exact(s, L), s.bars[minute].confirmed => minute \in L
       PROVE  Exact(r, L)
  <2>1. Exact(rolled, L)
    BY <1>1, <1>11
  <2>2. ASSUME NEW m \in Minutes \ L, r.bars[m].confirmed
        PROVE  m < now /\ r.bars[m].n = BarOf(m)
    <3>1. r.bars[m] = upserted.bars[m] /\ rolled.bars[m].confirmed
      BY <1>5, <1>7, <1>8, <2>2
    <3>2. m # minute
      BY <1>3, <1>11, <3>1
    <3> QED  BY <1>5, <2>1, <3>1, <3>2 DEF Exact
  <2> QED  BY <2>2 DEF Exact
<1> QED  BY <1>9, <1>10, <1>11 DEF r, minute

LEMMA AppliedFullTickIs ==
  ASSUME NEW s, Sound(s)
  PROVE  LET r == AppliedFullTick(s)
         IN  /\ Sound(r) /\ r.day = "today"
             /\ s.day = "today" => Covers(r, s)
             /\ \A L : Exact(s, L) => Exact(r, L)
<1> DEFINE rolled == RolledOver(s)
           r == Refreshed(rolled)
<1>1. /\ Sound(rolled) /\ rolled.day = "today" /\ (s.day = "today" => rolled = s)
      /\ \A L : Exact(s, L) => Exact(rolled, L)
  BY RolledOverIs
<1> HIDE DEF rolled
<1>2. /\ Sound(r) /\ r.day = rolled.day /\ r.bars = rolled.bars
      /\ r.alerts = rolled.alerts /\ r.book = rolled.book
  BY <1>1, RefreshedIs
<1>3. AppliedFullTick(s) = r
  BY DEF AppliedFullTick, rolled
<1> HIDE DEF r
<1>4. \A L : Exact(s, L) => Exact(r, L)
  BY <1>1, <1>2, SameChartExact
<1> QED  BY <1>1, <1>2, <1>3, <1>4 DEF Covers

\* What the exchange says of the minutes it has closed.
LEMMA BarIsCounts ==
  ASSUME NEW m
  PROVE  BarOf(m) \in [Trades -> 0..1]
BY DEF BarOf

LEMMA UpsertedBarsIs ==
  ASSUME NEW s, Sound(s), s.day = "today", NEW D \in SUBSET Minutes, NEW new \in [D -> [Trades -> 0..1]]
  PROVE  LET r == UpsertedBars(s, new)
         IN  /\ Sound(r) /\ r.day = "today" /\ Covers(r, s)
             /\ \A L : /\ Exact(s, L)
                       /\ \A m \in D \ L : m < now /\ new[m] = BarOf(m)
                       => Exact(r, L)
<1> DEFINE bars == [m \in Minutes |-> IF m \in D THEN Confirmed(new[m]) ELSE s.bars[m]]
           r == [s EXCEPT !.bars = bars, !.dated = TRUE]
<1>1. bars \in [Minutes -> Bars]
  <2>1. \A m \in D : Confirmed(new[m]) \in Bars
    <3>1. \A f \in [Trades -> 0..1] : f \in [Trades -> 0..2]
      OBVIOUS
    <3> QED  BY <3>1 DEF Confirmed, Bars
  <2> QED  BY <2>1 DEF Sound, States
<1>2. UpsertedBars(s, new) = r
  BY DEF UpsertedBars, Sound, States
<1>3. \A m \in Minutes :
        /\ m \in D => bars[m].confirmed /\ bars[m].n = new[m]
        /\ m \notin D => bars[m] = s.bars[m]
  BY DEF Confirmed
<1> HIDE DEF bars
<1>4. /\ r \in States /\ r.day = s.day /\ r.oldBars = s.oldBars /\ r.bars = bars
      /\ r.alerts = s.alerts /\ r.book = s.book
  BY <1>1 DEF Sound, States
<1> HIDE DEF r
<1>5. Sound(r) /\ r.day = "today"
  BY <1>4 DEF Sound
<1>6. Covers(r, s)
  BY <1>3, <1>4 DEF Covers
<1>7. ASSUME NEW L, Exact(s, L), \A m \in D \ L : m < now /\ new[m] = BarOf(m)
      PROVE  Exact(r, L)
  BY <1>3, <1>4, <1>7 DEF Exact
<1> QED  BY <1>2, <1>5, <1>6, <1>7

LEMMA AppliedBarIs ==
  ASSUME ExchangeOK, NEW s, Sound(s), NEW bar \in DueBars
  PROVE  LET r == AppliedBar(s, bar)
         IN  /\ Sound(r) /\ r.day = "today"
             /\ s.day = "today" => Covers(r, s)
             /\ \A L : /\ Exact(s, L)
                       /\ ~Unclosed(bar.minute) /\ bar.n # BarOf(bar.minute) => bar.minute \in L
                       => Exact(r, L)
<1> DEFINE rolled == RolledOver(s)
           new == [m \in {bar.minute} |-> bar.n]
           charted == UpsertedBars(rolled, new)
           r == AppliedBar(s, bar)
<1>1. /\ Sound(rolled) /\ rolled.day = "today" /\ (s.day = "today" => rolled = s)
      /\ \A L : Exact(s, L) => Exact(rolled, L)
  BY RolledOverIs
<1>2. r = IF Unclosed(bar.minute) THEN rolled ELSE Refreshed(charted)
  BY DEF AppliedBar
<1>3. bar.minute \in Minutes /\ bar.n \in [Trades -> 0..1]
  BY DEF DueBars
<1>4. {bar.minute} \in SUBSET Minutes /\ new \in [{bar.minute} -> [Trades -> 0..1]]
      /\ new[bar.minute] = bar.n
  BY <1>3
<1> HIDE DEF rolled, new, r
<1>5. /\ Sound(charted) /\ charted.day = "today" /\ Covers(charted, rolled)
      /\ \A L : /\ Exact(rolled, L)
                /\ \A m \in {bar.minute} \ L : m < now /\ new[m] = BarOf(m)
                => Exact(charted, L)
  BY <1>1, <1>4, UpsertedBarsIs
<1> HIDE DEF charted
<1>6. CASE Unclosed(bar.minute)
  <2>1. r = rolled
    BY <1>2, <1>6
  <2> QED  BY <1>1, <2>1, CoversItself DEF r, Sound
<1>7. CASE ~Unclosed(bar.minute)
  <2>1. r = Refreshed(charted)
    BY <1>2, <1>7
  <2>2. /\ Sound(r) /\ r.day = "today" /\ r.bars = charted.bars
        /\ r.alerts = charted.alerts /\ r.book = charted.book
    BY <1>5, <2>1, RefreshedIs
  <2>3. s.day = "today" => Covers(r, s)
    BY <1>1, <1>5, <2>2 DEF Covers
  <2>4. bar.minute < now
    BY <1>3, <1>7, Numbers DEF Unclosed, Minutes, ExchangeOK
  <2>5. ASSUME NEW L, Exact(s, L), bar.n # BarOf(bar.minute) => bar.minute \in L
        PROVE  Exact(r, L)
    <3>1. Exact(charted, L)
      BY <1>1, <1>4, <1>5, <2>4, <2>5
    <3> QED  BY <2>2, <3>1, SameChartExact
  <2> QED  BY <1>7, <2>2, <2>3, <2>5 DEF r
<1> QED  BY <1>6, <1>7

LEMMA BackfilledIs ==
  ASSUME ExchangeOK, NEW s, Sound(s), s.day = "today"
  PROVE  LET r == Backfilled(s)
         IN  /\ Sound(r) /\ r.day = "today" /\ Covers(r, s)
             /\ \A L : Exact(s, L) => Exact(r, L)
<1> DEFINE closed == {m \in Minutes : ~Unclosed(m)}
           new == [m \in closed |-> BarOf(m)]
           charted == UpsertedBars(RolledOver(s), new)
<1>1. RolledOver(s) = s
  BY RolledOverIs
<1>2. closed \in SUBSET Minutes /\ new \in [closed -> [Trades -> 0..1]]
  BY BarIsCounts
<1>3. \A m \in closed : m < now /\ new[m] = BarOf(m)
  BY Numbers DEF Unclosed, Minutes, ExchangeOK
<1>4. Backfilled(s) = IF closed = {} THEN s ELSE Refreshed(charted)
  BY DEF Backfilled
<1> HIDE DEF closed, new
<1>5. /\ Sound(charted) /\ charted.day = "today" /\ Covers(charted, s)
      /\ \A L : Exact(s, L) => Exact(charted, L)
  BY <1>1, <1>2, <1>3, UpsertedBarsIs
<1> HIDE DEF charted
<1>6. CASE closed = {}
  BY <1>4, <1>6, CoversItself DEF Sound
<1>7. CASE closed # {}
  <2> DEFINE r == Refreshed(charted)
  <2>1. /\ Sound(r) /\ r.day = "today" /\ r.bars = charted.bars
        /\ r.alerts = charted.alerts /\ r.book = charted.book
    BY <1>5, RefreshedIs
  <2>2. Backfilled(s) = r
    BY <1>4, <1>7
  <2> HIDE DEF r
  <2>3. \A L : Exact(s, L) => Exact(r, L)
    BY <1>5, <2>1, SameChartExact
  <2> QED  BY <1>5, <2>1, <2>2, <2>3 DEF Covers
<1> QED  BY <1>6, <1>7

LEMMA AppliedBookIs ==
  ASSUME NEW s, Sound(s), NEW b \in Books
  PROVE  LET r == AppliedBook(s, b)
         IN  /\ Sound(r) /\ r.day = "today"
             /\ s.day = "today" => Covers(r, s)
             /\ \A L : Exact(s, L) => Exact(r, L)
<1> DEFINE rolled == RolledOver(s)
           booked == [rolled EXCEPT !.book = @ \cup {b}]
           r == Refreshed(booked)
<1>1. /\ Sound(rolled) /\ rolled.day = "today" /\ (s.day = "today" => rolled = s)
      /\ \A L : Exact(s, L) => Exact(rolled, L)
  BY RolledOverIs
<1>2. AppliedBook(s, b) = r
  BY DEF AppliedBook
<1> HIDE DEF rolled
<1>3. /\ Sound(booked) /\ booked.day = "today" /\ booked.bars = rolled.bars
      /\ booked.alerts = rolled.alerts /\ rolled.book \subseteq booked.book
  BY <1>1 DEF Sound, States
<1> HIDE DEF booked
<1>4. /\ Sound(r) /\ r.day = booked.day /\ r.bars = booked.bars
      /\ r.alerts = booked.alerts /\ r.book = booked.book
  BY <1>3, RefreshedIs
<1> HIDE DEF r
<1>5. \A L : Exact(s, L) => Exact(r, L)
  BY <1>1, <1>3, <1>4, SameChartExact
<1> QED  BY <1>1, <1>2, <1>3, <1>4, <1>5 DEF Covers

\* What a write of s leaves in Redis.
LEMMA MergedIs ==
  ASSUME NEW s, Sound(s), NEW c, Sound(c)
  PROVE  LET r == Merged(s, c)
         IN  /\ Sound(r)
             /\ s.day = "today" => Covers(r, s)
             /\ \A L : Exact(s, L) /\ Exact(c, L) => Exact(r, L)
<1> DEFINE r == Merged(s, c)
<1>1. c.dated \in BOOLEAN /\ s \in States /\ c \in States
  BY DEF Sound, States
<1>2. CASE ~c.dated
  <2>1. r = s
    BY <1>2 DEF Merged
  <2> QED  BY <1>1, <2>1, CoversItself
<1>3. CASE c.dated /\ s.day # "today"
  <2>1. r = c
    BY <1>3 DEF Merged
  <2> QED  BY <1>3, <2>1
<1>4. CASE c.dated /\ s.day = "today" /\ ~HasBars(c)
  <2>1. r = s
    BY <1>4 DEF Merged
  <2> QED  BY <1>1, <2>1, CoversItself
<1>5. CASE c.dated /\ s.day = "today" /\ HasBars(c)
  <2> DEFINE bars == [m \in Minutes |-> IF HasBar(s, m) THEN s.bars[m] ELSE c.bars[m]]
             q == [s EXCEPT !.bars = bars, !.dated = TRUE]
  <2>1. r = q
    BY <1>1, <1>5 DEF Merged, States
  <2>2. bars \in [Minutes -> Bars]
    BY <1>1 DEF States
  <2>3. \A m \in Minutes : /\ s.bars[m].confirmed => bars[m] = s.bars[m]
                           /\ bars[m] \in {s.bars[m], c.bars[m]}
    BY NoBarIsBar DEF HasBar
  <2> HIDE DEF bars
  <2>4. /\ q \in States /\ q.day = s.day /\ q.oldBars = s.oldBars /\ q.bars = bars
        /\ q.alerts = s.alerts /\ q.book = s.book
    BY <1>1, <2>2 DEF States
  <2> HIDE DEF q
  <2>5. Sound(q)
    BY <1>5, <2>4 DEF Sound
  <2>6. Covers(q, s)
    BY <2>3, <2>4 DEF Covers
  <2>7. \A L : Exact(s, L) /\ Exact(c, L) => Exact(q, L)
    BY <2>3, <2>4 DEF Exact
  <2> QED  BY <2>1, <2>5, <2>6, <2>7
<1> QED  BY <1>1, <1>2, <1>3, <1>4, <1>5

LEMMA PromotedIs ==
  ASSUME NEW s, Sound(s)
  PROVE  /\ Sound(Promoted(s)) /\ Promoted(s).day = "today"
         /\ s.day = "today" => Promoted(s) = s
         /\ \A L : Exact(s, L) => Exact(Promoted(s), L)
<1> DEFINE rolled == RolledOver(s)
           r == [rolled EXCEPT !.gap = TRUE]
<1>1. /\ Sound(rolled) /\ rolled.day = "today"
      /\ \A L : Exact(s, L) => Exact(rolled, L)
  BY RolledOverIs
<1>2. Promoted(s) = IF s.day = "today" THEN s ELSE r
  BY DEF Promoted
<1> HIDE DEF rolled
<1>3. Sound(r) /\ r.day = "today" /\ r.bars = rolled.bars
  BY <1>1 DEF Sound, States
<1> HIDE DEF r
<1>4. \A L : Exact(s, L) => Exact(r, L)
  BY <1>1, <1>3, SameChartExact
<1> QED  BY <1>2, <1>3, <1>4

LEMMA LoadedIs ==
  ASSUME NEW c, Sound(c)
  PROVE  Sound(Loaded(c)) /\ \A L : Exact(c, L) => Exact(Loaded(c), L)
BY NothingIsSound DEF Loaded

LEMMA RecoveredIs ==
  ASSUME NEW s, Sound(s), NEW r \in Recovered(s)
  PROVE  Sound(r) /\ \A L : Exact(s, L) => Exact(r, L)
<1> DEFINE rolled == RolledOver(s)
           dated == [rolled EXCEPT !.dated = TRUE, !.alerts = @ \cup {OldTrade}]
           alerted == [s EXCEPT !.alerts = @ \cup {OldTrade}]
<1>1. r \in {s, alerted, Refreshed(dated)}
  BY DEF Recovered
<1>2. /\ Sound(rolled) /\ rolled.day = "today" /\ \A L : Exact(s, L) => Exact(rolled, L)
  BY RolledOverIs
<1> HIDE DEF rolled
<1>3. Sound(alerted) /\ alerted.bars = s.bars
  BY DEF Sound, States
<1>4. Sound(dated) /\ dated.bars = rolled.bars
  BY <1>2 DEF Sound, States
<1> HIDE DEF alerted, dated
<1>5. Sound(Refreshed(dated)) /\ Refreshed(dated).bars = rolled.bars
  BY <1>4, RefreshedIs
<1>6. \A L : Exact(s, L) => Exact(alerted, L) /\ Exact(Refreshed(dated), L)
  BY <1>2, <1>3, <1>5, SameChartExact
<1> QED  BY <1>1, <1>3, <1>5, <1>6

-----------------------------------------------------------------------------
(* Frames.                                                                 *)

AllInv == MInv /\ ExactInv /\ CoverInv

LEMMA ExactWider ==
  ASSUME NEW s, NEW L, NEW K, L \subseteq K, Exact(s, L)
  PROVE  Exact(s, K)
BY DEF Exact

LEMMA ExactStays ==
  ASSUME UNCHANGED exchangeVars,
         Exact(octopus', late'), Exact(snapshot', late'), Exact(cache', late')
  PROVE  ExactInv'
<1>1. now' = now /\ \A m \in Minutes : BarOf(m)' = BarOf(m)
  BY DEF exchangeVars, BarOf
<1> QED  BY <1>1 DEF Exact, ExactInv

LEMMA ExchangeStays ==
  ASSUME ExchangeOK, UNCHANGED exchangeVars
  PROVE  ExchangeOK'
BY DEF ExchangeOK, exchangeVars

LEMMA QueuesStay ==
  ASSUME QueuesOK, UNCHANGED exchangeVars, subscribed' \in BOOLEAN,
         ticks' \in {ticks, <<>>}, due' \in {due, <<>>}
  PROVE  QueuesOK'
<1>1. trades' = trades /\ ticks \in Seq(Trades) /\ due \in Seq(DueBars)
      /\ \A i \in 1..Len(ticks) : ticks[i] <= Len(trades)
  BY DEF QueuesOK, exchangeVars
<1>2. <<>> \in Seq(Trades) /\ <<>> \in Seq(DueBars) /\ Len(<<>>) = 0
  OBVIOUS
<1>3. due' \in Seq(DueBars)
  BY <1>1, <1>2
<1>4. ticks' \in Seq(Trades) /\ \A i \in 1..Len(ticks') : ticks'[i] <= Len(trades')
  <2>1. CASE ticks' = ticks
    BY <1>1, <2>1
  <2>2. CASE ticks' = <<>>
    <3>1. Len(ticks') = 0 /\ 1..Len(ticks') = {}
      BY <1>2, <2>2
    <3> QED  BY <1>2, <2>2, <3>1
  <2> QED  BY <2>1, <2>2
<1> QED  BY <1>3, <1>4 DEF QueuesOK

\* A write of s: done, or recorded as failed.
LEMMA StoredIs ==
  ASSUME NEW s, Sound(s), s.day = "today", Sound(cache), failures \in 0..MaxFailures, Stored(s)
  PROVE  /\ Sound(cache') /\ failures' \in 0..MaxFailures
         /\ \A L : Exact(s, L) /\ Exact(cache, L) => Exact(cache', L)
         /\ failures' = 0 => failures = 0 /\ Covers(cache', s)
<1>1. CASE cache' = Merged(s, cache) /\ UNCHANGED failures
  BY <1>1, MergedIs
<1>2. CASE failures < MaxFailures /\ failures' = failures + 1 /\ UNCHANGED cache
  <2>1. failures' \in 0..MaxFailures /\ failures' # 0
    BY <1>2, Numbers
  <2> QED  BY <1>2, <2>1
<1> QED  BY <1>1, <1>2 DEF Stored

\* An event that makes the snapshot s.
LEMMA LiveKeeps ==
  ASSUME AllInv, phase = "live", UNCHANGED <<exchangeVars, phase, seedVars, boundVars>>,
         QueuesOK', NEW s, Live(s),
         Sound(s), s.day = "today", Covers(s, snapshot),
         late \subseteq late', late' \subseteq Minutes, Exact(s, late'),
         Sound(cache'), failures' \in 0..MaxFailures, Exact(cache', late'),
         failures' = 0 /\ step = "none" /\ ~overlapped => failures = 0 /\ Covers(cache', s)
  PROVE  AllInv'
<1>1. /\ snapshot' = s /\ octopus' \in {s, octopus} /\ (aliased => octopus' = s)
      /\ aliased' = aliased /\ overlapped' = (overlapped \/ step # "none")
  BY DEF Live
<1>2. MInv'
  <2>1. ExchangeOK'
    BY ExchangeStays DEF AllInv, MInv
  <2>2. CopiesOK'
    BY <1>1 DEF AllInv, MInv, CopiesOK
  <2>3. SeedOK'
    BY DEF AllInv, MInv, SeedOK, seedVars
  <2>4. AliasOK'
    BY <1>1 DEF AllInv, MInv, AliasOK
  <2>5. BoundsOK'
    BY <1>1 DEF AllInv, MInv, BoundsOK, boundVars
  <2> QED  BY <2>1, <2>2, <2>3, <2>4, <2>5 DEF MInv
<1>3. ExactInv'
  <2>1. Exact(octopus, late')
    BY ExactWider DEF AllInv, ExactInv
  <2>2. Exact(octopus', late') /\ Exact(snapshot', late')
    BY <1>1, <2>1
  <2> QED  BY <2>2, ExactStays
<1>4. CoverInv'
  <2>1. SUFFICES ASSUME failures' = 0, ~overlapped'
                 PROVE  step' = "none" /\ Covers(snapshot', octopus') /\ Covers(cache', snapshot')
    BY DEF CoverInv
  <2>2. step = "none" /\ step' = "none" /\ ~overlapped
    BY <1>1, <2>1 DEF seedVars, AllInv, MInv, BoundsOK
  <2>3. Covers(cache', snapshot') /\ failures = 0
    BY <1>1, <2>1, <2>2
  <2>4. Covers(snapshot, octopus)
    BY <2>2, <2>3 DEF AllInv, CoverInv
  <2>5. CASE octopus' = s
    BY <1>1, <2>2, <2>3, <2>5, CoversItself DEF Sound
  <2>6. CASE octopus' = octopus
    <3>1. Covers(s, octopus)
      BY <2>4, CoversOnward
    <3> QED  BY <1>1, <2>2, <2>3, <2>6, <3>1
  <2> QED  BY <1>1, <2>5, <2>6
<1> QED  BY <1>2, <1>3, <1>4 DEF AllInv

-----------------------------------------------------------------------------
(* The exchange.                                                           *)

LEMMA DeliveredDue ==
  ASSUME MInv, NEW m \in Minutes
  PROVE  LET bar == [minute |-> m, n |-> BarOf(m)]
         IN  Append(due, bar) \in Seq(DueBars) /\ Delivered(due, bar) \in Seq(DueBars)
<1> DEFINE bar == [minute |-> m, n |-> BarOf(m)]
<1>1. bar \in DueBars
  BY BarIsCounts DEF DueBars
<1> HIDE DEF bar
<1>2. due \in Seq(DueBars)
  BY DEF MInv, QueuesOK
<1>3. Append(due, bar) \in Seq(DueBars) /\ Delivered(due, bar) \in Seq(DueBars)
  BY <1>1, <1>2 DEF Delivered
<1> QED  BY <1>3 DEF bar

\* A trade counts in no minute that is over.
LEMMA TradeKeeps ==
  ASSUME AllInv, Trade
  PROVE  AllInv'
<1>1. /\ now \in Minutes /\ Len(trades) < MaxTrades
      /\ trades' = Append(trades, now) /\ now' = now
      /\ ticks' = Delivered(ticks, Len(trades) + 1)
      /\ UNCHANGED <<phase, subscribed, due, stateVars, cache, seedVars, historyVars, failures, boundVars>>
  <2>1. now \in 1..(LastMinute + 1) /\ now <= LastMinute
    BY DEF Trade, InSession, AllInv, MInv, ExchangeOK
  <2>2. now \in Minutes
    BY <2>1, Numbers DEF Minutes
  <2> QED  BY <2>2 DEF Trade
<1>2. /\ trades' \in Seq(Minutes) /\ Len(trades') = Len(trades) + 1
      /\ \A t \in 1..Len(trades) : trades'[t] = trades[t]
      /\ trades'[Len(trades) + 1] = now /\ Len(trades) \in Nat
  BY <1>1 DEF AllInv, MInv, ExchangeOK
<1>3. ExchangeOK'
  BY <1>1, <1>2, Numbers DEF AllInv, MInv, ExchangeOK
<1>4. QueuesOK'
  <2>1. Len(trades) + 1 \in Trades
    BY <1>1, <1>2, Numbers DEF Trades
  <2>2. ticks \in Seq(Trades) /\ \A i \in 1..Len(ticks) : ticks[i] <= Len(trades)
    BY DEF AllInv, MInv, QueuesOK
  <2>3. CASE ticks' = ticks
    <3>1. \A i \in 1..Len(ticks) : ticks[i] \in Nat /\ ticks[i] <= Len(trades) + 1
      BY <1>2, <2>2, Numbers DEF Trades
    <3> QED  BY <1>1, <1>2, <2>2, <2>3, <3>1 DEF AllInv, MInv, QueuesOK
  <2>4. CASE ticks' = Append(ticks, Len(trades) + 1)
    <3>1. ticks' \in Seq(Trades) /\ Len(ticks') = Len(ticks) + 1
      BY <2>1, <2>2, <2>4
    <3>2. ASSUME NEW i \in 1..Len(ticks') PROVE ticks'[i] <= Len(trades')
      <4>1. ticks'[i] = IF i <= Len(ticks) THEN ticks[i] ELSE Len(trades) + 1
        BY <2>1, <2>2, <2>4, <3>2
      <4>2. CASE i <= Len(ticks)
        <5>1. i \in 1..Len(ticks)
          BY <3>2, <4>2, <2>2
        <5>2. ticks[i] \in Nat /\ ticks[i] <= Len(trades)
          BY <2>2, <5>1, Numbers DEF Trades
        <5> QED  BY <1>2, <4>1, <4>2, <5>2
      <4>3. CASE ~(i <= Len(ticks))
        BY <1>2, <4>1, <4>3
      <4> QED  BY <4>2, <4>3
    <3> QED  BY <1>1, <3>1, <3>2 DEF AllInv, MInv, QueuesOK
  <2> QED  BY <1>1, <2>3, <2>4 DEF Delivered
<1>5. MInv'
  BY <1>1, <1>3, <1>4 DEF AllInv, MInv, CopiesOK, SeedOK, AliasOK, BoundsOK, stateVars, seedVars,
                          historyVars, boundVars
<1>6. ExactInv'
  <2>1. ASSUME NEW m \in Minutes, m < now PROVE BarOf(m)' = BarOf(m)
    <3>1. ASSUME NEW t \in Trades
          PROVE  (t <= Len(trades') /\ trades'[t] = m) <=> (t <= Len(trades) /\ trades[t] = m)
      <4>1. m # now /\ t \in Nat \ {0}
        BY <1>1, <2>1, Numbers DEF Minutes, Trades
      <4>2. CASE t <= Len(trades)
        <5>1. t \in 1..Len(trades) /\ t <= Len(trades')
          BY <1>2, <4>1, <4>2
        <5> QED  BY <1>2, <4>2, <5>1
      <4>3. CASE t = Len(trades) + 1
        BY <1>2, <4>1, <4>3
      <4>4. CASE t > Len(trades) + 1
        BY <1>2, <4>1, <4>4
      <4> QED  BY <1>2, <4>1, <4>2, <4>3, <4>4
    <3> QED  BY <3>1 DEF BarOf
  <2>2. ASSUME NEW s, Exact(s, late)
        PROVE  \A m \in Minutes \ late : s.bars[m].confirmed => m < now' /\ s.bars[m].n = BarOf(m)'
    BY <1>1, <2>1, <2>2 DEF Exact
  <2> QED  BY <1>1, <2>2 DEF AllInv, ExactInv, Exact, stateVars, historyVars
<1>7. CoverInv'
  BY <1>1 DEF AllInv, CoverInv, stateVars, seedVars, historyVars
<1> QED  BY <1>5, <1>6, <1>7 DEF AllInv

LEMMA PushFormingKeeps ==
  ASSUME AllInv, PushForming
  PROVE  AllInv'
<1>1. now \in Minutes
  <2>1. now \in 1..(LastMinute + 1) /\ now <= LastMinute
    BY DEF PushForming, InSession, AllInv, MInv, ExchangeOK
  <2> QED  BY <2>1, Numbers DEF Minutes
<1>2. due' \in Seq(DueBars)
  BY <1>1, DeliveredDue DEF PushForming, AllInv
<1>3. UNCHANGED <<exchangeVars, phase, subscribed, ticks, stateVars, cache, seedVars, historyVars,
                  failures, boundVars>>
  BY DEF PushForming
<1>4. MInv'
  BY <1>2, <1>3, ExchangeStays
  DEF AllInv, MInv, QueuesOK, CopiesOK, SeedOK, AliasOK, BoundsOK, stateVars, seedVars, historyVars,
      boundVars, exchangeVars
<1>5. ExactInv'
  BY <1>3, ExactStays DEF AllInv, ExactInv, stateVars, historyVars
<1>6. CoverInv'
  BY <1>3 DEF AllInv, CoverInv, stateVars, seedVars, historyVars
<1> QED  BY <1>4, <1>5, <1>6 DEF AllInv

LEMMA CloseMinuteKeeps ==
  ASSUME AllInv, CloseMinute
  PROVE  AllInv'
<1>1. now \in Minutes /\ now' \in 1..(LastMinute + 1) /\ now' = now + 1
  <2>1. now \in 1..(LastMinute + 1) /\ now <= LastMinute
    BY DEF CloseMinute, InSession, AllInv, MInv, ExchangeOK
  <2> QED  BY <2>1, Numbers DEF Minutes, CloseMinute
<1>2. due' \in Seq(DueBars)
  BY <1>1, DeliveredDue DEF CloseMinute, AllInv
<1>3. UNCHANGED <<trades, phase, subscribed, ticks, stateVars, cache, seedVars, historyVars,
                  failures, boundVars>>
  BY DEF CloseMinute
<1>4. MInv'
  BY <1>1, <1>2, <1>3
  DEF AllInv, MInv, ExchangeOK, QueuesOK, CopiesOK, SeedOK, AliasOK, BoundsOK, stateVars, seedVars,
      historyVars, boundVars
<1>5. ExactInv'
  <2>1. \A m \in Minutes : BarOf(m)' = BarOf(m) /\ (m < now => m < now')
    BY <1>1, <1>3, Numbers DEF BarOf, Minutes
  <2>2. ASSUME NEW s, Exact(s, late)
        PROVE  \A m \in Minutes \ late : s.bars[m].confirmed => m < now' /\ s.bars[m].n = BarOf(m)'
    BY <2>1, <2>2 DEF Exact
  <2> QED  BY <1>3, <2>2 DEF AllInv, ExactInv, Exact, stateVars, historyVars
<1>6. CoverInv'
  BY <1>3 DEF AllInv, CoverInv, stateVars, seedVars, historyVars
<1> QED  BY <1>4, <1>5, <1>6 DEF AllInv

-----------------------------------------------------------------------------
(* Live events.                                                            *)

\* The head of the ticks is a trade of the session, the rest are ticks.
LEMMA TickTaken ==
  ASSUME QueuesOK, ticks # <<>>
  PROVE  /\ Head(ticks) \in Trades /\ Head(ticks) <= Len(trades)
         /\ Tail(ticks) \in Seq(Trades)
         /\ \A i \in 1..Len(Tail(ticks)) : Tail(ticks)[i] <= Len(trades)
<1>1. /\ ticks \in Seq(Trades) /\ Len(ticks) \in Nat \ {0}
      /\ \A i \in 1..Len(ticks) : ticks[i] <= Len(trades)
  BY DEF QueuesOK
<1>2. Head(ticks) = ticks[1] /\ 1 \in 1..Len(ticks) /\ ticks[1] \in Trades
  BY <1>1
<1>3. Tail(ticks) \in Seq(Trades) /\ Len(Tail(ticks)) = Len(ticks) - 1
      /\ \A i \in 1..Len(Tail(ticks)) : Tail(ticks)[i] = ticks[i + 1]
  BY <1>1
<1>4. \A i \in 1..Len(Tail(ticks)) : i + 1 \in 1..Len(ticks)
  BY <1>1, <1>3
<1> QED  BY <1>1, <1>2, <1>3, <1>4

LEMMA ProcessTickKeeps ==
  ASSUME AllInv, ProcessTick
  PROVE  AllInv'
<1> DEFINE t == Head(ticks)
           s == AppliedTick(snapshot, t)
           minute == trades[t]
<1>1. /\ phase = "live" /\ ticks # <<>> /\ ticks' = Tail(ticks) /\ Live(s)
      /\ late' = IF snapshot.bars[minute].confirmed THEN late \cup {minute} ELSE late
      /\ Stored(s) \/ (t \notin BigTrades /\ UNCHANGED <<cache, failures>>)
      /\ UNCHANGED <<exchangeVars, phase, subscribed, due, seedVars, boundVars>>
  BY DEF ProcessTick
<1>2. /\ ExchangeOK /\ QueuesOK /\ Sound(snapshot) /\ Sound(cache) /\ snapshot.day = "today"
      /\ failures \in 0..MaxFailures /\ late \subseteq Minutes
      /\ Exact(snapshot, late) /\ Exact(cache, late)
  BY <1>1 DEF AllInv, MInv, CopiesOK, AliasOK, BoundsOK, ExactInv
<1>3. t \in Trades /\ t <= Len(trades)
  BY <1>1, <1>2, TickTaken
<1>4. minute \in Minutes
  BY <1>2, <1>3, Numbers DEF ExchangeOK, Trades
<1>5. late \subseteq late' /\ late' \subseteq Minutes /\ (snapshot.bars[minute].confirmed => minute \in late')
  BY <1>1, <1>2, <1>4
<1>6. QueuesOK'
  BY <1>1, <1>2, TickTaken DEF QueuesOK, exchangeVars
<1>7. /\ Sound(s) /\ s.day = "today" /\ Covers(s, snapshot)
      /\ t \notin BigTrades => s.alerts = snapshot.alerts
      /\ s.book = snapshot.book
      /\ \A m \in Minutes : s.bars[m].confirmed = snapshot.bars[m].confirmed
      /\ \A L : Exact(snapshot, L) /\ (snapshot.bars[minute].confirmed => minute \in L) => Exact(s, L)
  BY <1>2, <1>3, AppliedTickIs
<1> HIDE DEF s, t, minute
<1>8. Exact(snapshot, late') /\ Exact(cache, late')
  BY <1>2, <1>5, ExactWider
<1>9. Exact(s, late')
  BY <1>5, <1>7, <1>8
<1>10. /\ Sound(cache') /\ failures' \in 0..MaxFailures /\ Exact(cache', late')
       /\ failures' = 0 /\ step = "none" /\ ~overlapped => failures = 0 /\ Covers(cache', s)
  <2>1. CASE Stored(s)
    BY <1>2, <1>7, <1>8, <1>9, <2>1, StoredIs
  <2>2. CASE t \notin BigTrades /\ UNCHANGED <<cache, failures>>
    <3>1. ASSUME Covers(cache, snapshot) PROVE Covers(cache, s)
      BY <1>7, <2>2, <3>1 DEF Covers
    <3>2. failures = 0 /\ step = "none" /\ ~overlapped => Covers(cache, snapshot)
      BY <1>1 DEF AllInv, CoverInv
    <3> QED  BY <1>2, <1>8, <2>2, <3>1, <3>2
  <2> QED  BY <1>1, <2>1, <2>2
<1> QED  BY <1>1, <1>5, <1>6, <1>7, <1>9, <1>10, LiveKeeps

LEMMA ProcessBarKeeps ==
  ASSUME AllInv, ProcessBar
  PROVE  AllInv'
<1> DEFINE bar == Head(due)
           s == AppliedBar(snapshot, bar)
<1>1. /\ phase = "live" /\ due # <<>> /\ due' = Tail(due) /\ Live(s) /\ Stored(s)
      /\ late' = IF ~Unclosed(bar.minute) /\ bar.n # BarOf(bar.minute)
                 THEN late \cup {bar.minute} ELSE late
      /\ UNCHANGED <<exchangeVars, phase, subscribed, ticks, seedVars, boundVars>>
  BY DEF ProcessBar
<1>2. /\ ExchangeOK /\ QueuesOK /\ Sound(snapshot) /\ Sound(cache) /\ snapshot.day = "today"
      /\ failures \in 0..MaxFailures /\ late \subseteq Minutes
      /\ Exact(snapshot, late) /\ Exact(cache, late)
  BY <1>1 DEF AllInv, MInv, CopiesOK, AliasOK, BoundsOK, ExactInv
<1>3. bar \in DueBars /\ Tail(due) \in Seq(DueBars)
  BY <1>1, <1>2 DEF QueuesOK
<1>4. bar.minute \in Minutes
  BY <1>3 DEF DueBars
<1>5. /\ late \subseteq late' /\ late' \subseteq Minutes
      /\ ~Unclosed(bar.minute) /\ bar.n # BarOf(bar.minute) => bar.minute \in late'
  BY <1>1, <1>2, <1>4
<1>6. QueuesOK'
  BY <1>1, <1>2, <1>3 DEF QueuesOK, exchangeVars
<1>7. /\ Sound(s) /\ s.day = "today" /\ Covers(s, snapshot)
      /\ \A L : /\ Exact(snapshot, L)
                /\ ~Unclosed(bar.minute) /\ bar.n # BarOf(bar.minute) => bar.minute \in L
                => Exact(s, L)
  BY <1>2, <1>3, AppliedBarIs
<1> HIDE DEF s, bar
<1>8. Exact(snapshot, late') /\ Exact(cache, late')
  BY <1>2, <1>5, ExactWider
<1>9. Exact(s, late')
  BY <1>5, <1>7, <1>8
<1>10. /\ Sound(cache') /\ failures' \in 0..MaxFailures /\ Exact(cache', late')
       /\ failures' = 0 => failures = 0 /\ Covers(cache', s)
  BY <1>1, <1>2, <1>7, <1>8, <1>9, StoredIs
<1> QED  BY <1>1, <1>5, <1>6, <1>7, <1>9, <1>10, LiveKeeps

LEMMA ProcessBookKeeps ==
  ASSUME AllInv, ProcessBook
  PROVE  AllInv'
<1>1. PICK b \in Books : Live(AppliedBook(snapshot, b)) /\ Stored(AppliedBook(snapshot, b))
  BY DEF ProcessBook
<1> DEFINE s == AppliedBook(snapshot, b)
<1>2. /\ phase = "live" /\ Live(s) /\ Stored(s) /\ late' = late
      /\ UNCHANGED <<exchangeVars, phase, queueVars, seedVars, boundVars>>
  BY <1>1 DEF ProcessBook
<1>3. /\ Sound(snapshot) /\ Sound(cache) /\ snapshot.day = "today" /\ QueuesOK
      /\ failures \in 0..MaxFailures /\ late \subseteq Minutes
      /\ Exact(snapshot, late) /\ Exact(cache, late)
  BY <1>2 DEF AllInv, MInv, CopiesOK, AliasOK, BoundsOK, ExactInv
<1>4. QueuesOK'
  BY <1>2, <1>3 DEF QueuesOK, queueVars, exchangeVars
<1>5. Sound(s) /\ s.day = "today" /\ Covers(s, snapshot) /\ Exact(s, late)
  BY <1>3, AppliedBookIs
<1> HIDE DEF s
<1>6. /\ Sound(cache') /\ failures' \in 0..MaxFailures /\ Exact(cache', late')
      /\ failures' = 0 => failures = 0 /\ Covers(cache', s)
  BY <1>2, <1>3, <1>5, StoredIs
<1> QED  BY <1>2, <1>3, <1>4, <1>5, <1>6, LiveKeeps

-----------------------------------------------------------------------------
(* Starts, hydration and seeds.                                            *)

\* Redis is read, or the read fails and is counted.
LEMMA CacheReadIs ==
  ASSUME AllInv, NEW cached \in {cache, NoState}, CacheRead(cached)
  PROVE  /\ Sound(cached) /\ Exact(cached, late)
         /\ failures' \in 0..MaxFailures /\ (failures' = 0 => failures = 0)
<1>1. Sound(cache) /\ Exact(cache, late) /\ failures \in 0..MaxFailures
  BY DEF AllInv, MInv, CopiesOK, ExactInv, BoundsOK
<1>2. Sound(cached) /\ Exact(cached, late)
  BY <1>1, NothingIsSound
<1>3. failures' \in {failures, failures + 1} /\ (failures' = failures + 1 => failures < MaxFailures)
  BY <1>1, Numbers DEF CacheRead
<1> QED  BY <1>1, <1>2, <1>3, Numbers

\* A hydrated state of today is adopted and written.
LEMMA HydratedKeeps ==
  ASSUME AllInv, UNCHANGED <<exchangeVars, ticks, due, historyVars>>,
         NEW s, Sound(s), s.day = "today", Exact(s, late),
         NEW loaded, Sound(loaded), Exact(loaded, late),
         Adopted(s), cache' = Merged(s, Merged(loaded, cache)),
         failures' \in 0..MaxFailures, boundVars' = boundVars,
         subscribed' \in BOOLEAN, SeedOK', step' \notin {"publish", "copy"}
  PROVE  AllInv'
<1>1. octopus' = s /\ snapshot' = s /\ aliased' = TRUE
  BY DEF Adopted
<1>2. Sound(cache) /\ Exact(cache, late)
  BY DEF AllInv, MInv, CopiesOK, ExactInv
<1>3. Sound(Merged(loaded, cache)) /\ Exact(Merged(loaded, cache), late)
  BY <1>2, MergedIs
<1>4. Sound(cache') /\ Exact(cache', late) /\ Covers(cache', s)
  BY <1>3, MergedIs
<1>5. MInv'
  <2>1. ExchangeOK'
    BY ExchangeStays DEF AllInv, MInv
  <2>2. QueuesOK'
    BY QueuesStay DEF AllInv, MInv
  <2>3. CopiesOK'
    BY <1>1, <1>4 DEF CopiesOK
  <2>4. AliasOK'
    BY <1>1 DEF AliasOK
  <2>5. BoundsOK'
    BY DEF AllInv, MInv, BoundsOK, boundVars, historyVars
  <2> QED  BY <2>1, <2>2, <2>3, <2>4, <2>5 DEF MInv
<1>6. ExactInv'
  <2>1. late' = late
    BY DEF historyVars
  <2> QED  BY <1>1, <1>4, <2>1, ExactStays
<1>7. CoverInv'
  <2>1. Covers(s, s)
    BY CoversItself DEF Sound
  <2> QED  BY <1>1, <1>4, <2>1 DEF CoverInv
<1> QED  BY <1>5, <1>6, <1>7 DEF AllInv

LEMMA StartKeeps ==
  ASSUME AllInv, Start
  PROVE  AllInv'
<1>1. PICK cached \in {cache, NoState} :
        /\ CacheRead(cached)
        /\ \E s \in Recovered(Loaded(cached)) :
             /\ Adopted(Promoted(s))
             /\ cache' = Merged(Promoted(s), Merged(Loaded(cached), cache))
  BY DEF Start
<1>2. PICK s \in Recovered(Loaded(cached)) :
        /\ Adopted(Promoted(s))
        /\ cache' = Merged(Promoted(s), Merged(Loaded(cached), cache))
  BY <1>1
<1> DEFINE loaded == Loaded(cached)
           today == Promoted(s)
<1>3. Sound(loaded) /\ Exact(loaded, late)
  BY <1>1, CacheReadIs, LoadedIs
<1>4. s \in Recovered(loaded)
  BY <1>2
<1> HIDE DEF loaded
<1>5. Sound(s) /\ Exact(s, late)
  BY <1>3, <1>4, RecoveredIs
<1>6. Sound(today) /\ today.day = "today" /\ Exact(today, late)
  BY <1>5, PromotedIs
<1>7. Adopted(today) /\ cache' = Merged(today, Merged(loaded, cache))
  BY <1>2 DEF loaded
<1> HIDE DEF today
<1>8. failures' \in 0..MaxFailures
  BY <1>1, CacheReadIs
<1>9. /\ UNCHANGED <<exchangeVars, ticks, due, historyVars>> /\ boundVars' = boundVars
      /\ subscribed' \in BOOLEAN /\ step' = "backfill" /\ SeedOK'
  BY DEF Start, SeedOK
<1> QED  BY <1>3, <1>6, <1>7, <1>8, <1>9, HydratedKeeps

LEMMA AttachKeeps ==
  ASSUME AllInv, Attach
  PROVE  AllInv'
<1>1. PICK cached \in {cache, NoState} :
        /\ CacheRead(cached)
        /\ Adopted(Promoted(Loaded(cached)))
        /\ cache' = Merged(Promoted(Loaded(cached)), Merged(Loaded(cached), cache))
        /\ \/ phase' = "live" /\ subscribed' = TRUE /\ UNCHANGED seedVars
           \/ phase' = "seeding" /\ seeder' = "attach" /\ step' = "backfill" /\ UNCHANGED subscribed
  BY DEF Attach
<1> DEFINE loaded == Loaded(cached)
           today == Promoted(loaded)
<1>2. Sound(loaded) /\ Exact(loaded, late)
  BY <1>1, CacheReadIs, LoadedIs
<1> HIDE DEF loaded
<1>3. Sound(today) /\ today.day = "today" /\ Exact(today, late)
  BY <1>2, PromotedIs
<1>4. Adopted(today) /\ cache' = Merged(today, Merged(loaded, cache))
  BY <1>1 DEF loaded
<1> HIDE DEF today
<1>5. failures' \in 0..MaxFailures
  BY <1>1, CacheReadIs
<1>6. UNCHANGED <<exchangeVars, ticks, due, historyVars>> /\ boundVars' = boundVars
  BY DEF Attach
<1>7. subscribed' \in BOOLEAN /\ step' \notin {"publish", "copy"} /\ SeedOK'
  <2>1. phase = "down" /\ step = "none" /\ seeder = "none" /\ subscribed \in BOOLEAN
    BY DEF Attach, AllInv, MInv, SeedOK, QueuesOK
  <2>2. CASE phase' = "live" /\ subscribed' = TRUE /\ UNCHANGED seedVars
    BY <2>1, <2>2 DEF SeedOK, seedVars
  <2>3. CASE phase' = "seeding" /\ seeder' = "attach" /\ step' = "backfill" /\ UNCHANGED subscribed
    BY <2>1, <2>3 DEF SeedOK
  <2> QED  BY <1>1, <2>2, <2>3
<1> QED  BY <1>2, <1>3, <1>4, <1>5, <1>6, <1>7, HydratedKeeps

LEMMA ClientSeedKeeps ==
  ASSUME AllInv, ClientSeed
  PROVE  AllInv'
<1>1. /\ phase = "live" /\ seeds < MaxSeeds /\ seeds' = seeds + 1 /\ seeder = "none"
      /\ seeder' = "client" /\ step' = "backfill"
      /\ UNCHANGED <<exchangeVars, phase, queueVars, stateVars, cache, historyVars, failures, crashes>>
  BY DEF ClientSeed
<1>2. seeds' \in 0..MaxSeeds
  BY <1>1, Numbers DEF AllInv, MInv, BoundsOK
<1>3. MInv'
  BY <1>1, <1>2, ExchangeStays
  DEF AllInv, MInv, QueuesOK, CopiesOK, SeedOK, AliasOK, BoundsOK, queueVars, stateVars, historyVars,
      exchangeVars
<1>4. ExactInv'
  BY <1>1, ExactStays DEF AllInv, ExactInv, stateVars, historyVars
<1>5. CoverInv'
  <2>1. SUFFICES ASSUME failures = 0, ~overlapped
                 PROVE  Covers(snapshot, octopus) /\ Covers(cache, snapshot)
    BY <1>1 DEF CoverInv, stateVars, historyVars
  <2>2. step = "none"
    BY <1>1 DEF AllInv, MInv, SeedOK
  <2> QED  BY <1>1, <2>1, <2>2 DEF AllInv, CoverInv
<1> QED  BY <1>3, <1>4, <1>5 DEF AllInv

LEMMA OctopusBecomesIs ==
  ASSUME AliasOK, NEW s, OctopusBecomes(s)
  PROVE  /\ octopus' = s /\ aliased' = aliased
         /\ aliased => snapshot' = s
         /\ ~aliased => snapshot' = snapshot
BY DEF OctopusBecomes

\* A step of a seed that leaves the exchange, the queues and the history alone.
LEMMA SeedKeeps ==
  ASSUME AllInv, UNCHANGED seedFrame, step # "none", step' \notin {"none"},
         step' \in {"publish", "fulltick", "copy", "done"},
         Sound(octopus'), octopus'.day = "today", Exact(octopus', late),
         aliased' \in BOOLEAN, snapshot' \in {snapshot, octopus'}, aliased' => snapshot' = octopus',
         Sound(cache'), Exact(cache', late), failures' \in 0..MaxFailures,
         CoverInv'
  PROVE  AllInv'
<1>1. /\ Sound(snapshot) /\ Exact(snapshot, late) /\ phase # "down" /\ snapshot.day = "today"
      /\ seeder # "none"
  BY DEF AllInv, MInv, CopiesOK, ExactInv, SeedOK, AliasOK
<1>2. Sound(snapshot') /\ Exact(snapshot', late) /\ snapshot'.day = "today"
  BY <1>1
<1>3. MInv'
  <2>1. ExchangeOK'
    BY ExchangeStays DEF AllInv, MInv, seedFrame
  <2>2. QueuesOK'
    BY QueuesStay DEF AllInv, MInv, seedFrame, queueVars, QueuesOK
  <2>3. CopiesOK'
    BY <1>2 DEF CopiesOK
  <2>4. SeedOK'
    BY <1>1 DEF AllInv, MInv, SeedOK, seedFrame
  <2>5. AliasOK'
    BY <1>2 DEF AliasOK
  <2>6. BoundsOK'
    BY DEF AllInv, MInv, BoundsOK, seedFrame, historyVars, boundVars
  <2> QED  BY <2>1, <2>2, <2>3, <2>4, <2>5, <2>6 DEF MInv
<1>4. ExactInv'
  <2>1. late' = late /\ UNCHANGED exchangeVars
    BY DEF seedFrame, historyVars
  <2> QED  BY <1>2, <2>1, ExactStays
<1> QED  BY <1>3, <1>4 DEF AllInv

\* A seed makes octopus' state s and writes it.
LEMMA SeedWrites ==
  ASSUME AllInv, UNCHANGED seedFrame, step # "none", step' \in {"publish", "copy"},
         NEW s, Sound(s), s.day = "today", \A L : Exact(octopus, L) => Exact(s, L),
         OctopusBecomes(s), Stored(s)
  PROVE  AllInv'
<1>1. /\ Sound(cache) /\ failures \in 0..MaxFailures /\ aliased \in BOOLEAN
      /\ Exact(octopus, late) /\ Exact(cache, late)
  BY DEF AllInv, MInv, CopiesOK, BoundsOK, ExactInv, AliasOK
<1>2. Exact(s, late)
  BY <1>1
<1>3. octopus' = s /\ aliased' = aliased /\ snapshot' \in {snapshot, s} /\ (aliased => snapshot' = s)
  BY DEF OctopusBecomes
<1>4. /\ Sound(cache') /\ failures' \in 0..MaxFailures /\ Exact(cache', late)
      /\ failures' = 0 => Covers(cache', s)
  BY <1>1, <1>2, StoredIs
<1>5. CoverInv'
  BY <1>3, <1>4 DEF CoverInv
<1> QED  BY <1>1, <1>2, <1>3, <1>4, <1>5, SeedKeeps

\* A seed's market call that gives nothing.
LEMMA SeedSkips ==
  ASSUME AllInv, UNCHANGED seedFrame, step \in {"backfill", "fulltick"},
         step' \in {"fulltick", "done"}, UNCHANGED <<stateVars, cache, failures>>
  PROVE  AllInv'
<1>1. UNCHANGED <<octopus, snapshot, aliased>>
  BY DEF stateVars
<1>2. /\ Sound(octopus) /\ octopus.day = "today" /\ Exact(octopus, late) /\ Sound(cache)
      /\ Exact(cache, late) /\ failures \in 0..MaxFailures
      /\ aliased \in BOOLEAN /\ (aliased => octopus = snapshot)
  BY DEF AllInv, MInv, CopiesOK, ExactInv, SeedOK, AliasOK, BoundsOK
<1>3. CoverInv'
  BY <1>1 DEF AllInv, CoverInv, seedFrame, historyVars
<1> QED  BY <1>1, <1>2, <1>3, SeedKeeps

LEMMA BackfillKeeps ==
  ASSUME AllInv, Backfill
  PROVE  AllInv'
<1> DEFINE s == Backfilled(octopus)
<1>1. step = "backfill" /\ UNCHANGED seedFrame
  BY DEF Backfill
<1>2. /\ ExchangeOK /\ Sound(octopus) /\ octopus.day = "today" /\ Sound(cache) /\ phase # "down"
      /\ Exact(octopus, late) /\ Exact(cache, late) /\ failures \in 0..MaxFailures
      /\ aliased \in BOOLEAN /\ (aliased => octopus = snapshot)
  BY <1>1 DEF AllInv, MInv, CopiesOK, ExactInv, SeedOK, AliasOK, BoundsOK
<1>3. Sound(s) /\ s.day = "today" /\ \A L : Exact(octopus, L) => Exact(s, L)
  BY <1>2, BackfilledIs
<1>4. \/ /\ OctopusBecomes(s) /\ step' = "publish"
         /\ IF s = octopus THEN UNCHANGED <<cache, failures>> ELSE Stored(s)
      \/ step' = "fulltick" /\ UNCHANGED <<stateVars, cache, failures>>
  BY DEF Backfill
<1> HIDE DEF s
<1>5. CASE OctopusBecomes(s) /\ step' = "publish" /\ Stored(s)
  BY <1>1, <1>3, <1>5, SeedWrites
<1>6. CASE OctopusBecomes(s) /\ step' = "publish" /\ s = octopus /\ UNCHANGED <<cache, failures>>
  <2>1. octopus' = octopus /\ snapshot' = snapshot /\ aliased' = aliased
    BY <1>2, <1>6 DEF OctopusBecomes
  <2>2. CoverInv'
    <3>1. SUFFICES ASSUME failures = 0, ~overlapped PROVE Covers(cache, octopus)
      BY <1>1, <1>6, <2>1 DEF CoverInv, seedFrame, historyVars
    <3>2. Covers(cache, snapshot) /\ Covers(snapshot, octopus)
      BY <1>1, <1>2, <3>1 DEF AllInv, CoverInv
    <3> QED  BY <3>2, CoversOnward
  <2> QED  BY <1>1, <1>2, <1>6, <2>1, <2>2, SeedKeeps
<1>7. CASE step' = "fulltick" /\ UNCHANGED <<stateVars, cache, failures>>
  BY <1>1, <1>7, SeedSkips
<1> QED  BY <1>4, <1>5, <1>6, <1>7

LEMMA FullTickKeeps ==
  ASSUME AllInv, FullTick
  PROVE  AllInv'
<1> DEFINE s == AppliedFullTick(octopus)
<1>1. step = "fulltick" /\ UNCHANGED seedFrame
  BY DEF FullTick
<1>2. Sound(octopus)
  BY DEF AllInv, MInv, CopiesOK
<1>3. Sound(s) /\ s.day = "today" /\ \A L : Exact(octopus, L) => Exact(s, L)
  BY <1>2, AppliedFullTickIs
<1>4. \/ OctopusBecomes(s) /\ step' = "copy" /\ Stored(s)
      \/ step' = "done" /\ UNCHANGED <<stateVars, cache, failures>>
  BY DEF FullTick
<1> HIDE DEF s
<1>5. CASE OctopusBecomes(s) /\ step' = "copy" /\ Stored(s)
  BY <1>1, <1>3, <1>5, SeedWrites
<1>6. CASE step' = "done" /\ UNCHANGED <<stateVars, cache, failures>>
  BY <1>1, <1>6, SeedSkips
<1> QED  BY <1>4, <1>5, <1>6

\* The snapshot becomes what octopus has, as the same object or as a copy.
LEMMA SwapKeeps ==
  ASSUME AllInv, UNCHANGED <<seedFrame, cache, failures>>, step \in {"publish", "copy"},
         step' \in {"fulltick", "done"},
         octopus' = octopus, snapshot' = octopus, aliased' \in BOOLEAN
  PROVE  AllInv'
<1>1. /\ Sound(octopus) /\ octopus.day = "today" /\ Exact(octopus, late) /\ Sound(cache)
      /\ Exact(cache, late) /\ failures \in 0..MaxFailures
  BY DEF AllInv, MInv, CopiesOK, ExactInv, SeedOK, AliasOK, BoundsOK
<1>2. CoverInv'
  <2>1. SUFFICES ASSUME phase # "down", failures = 0, ~overlapped
                 PROVE  Covers(octopus, octopus) /\ Covers(cache, octopus)
    BY DEF CoverInv, seedFrame, historyVars
  <2>2. Covers(cache, octopus)
    BY <2>1 DEF AllInv, CoverInv
  <2> QED  BY <1>1, <2>2, CoversItself DEF Sound
<1> QED  BY <1>1, <1>2, SeedKeeps

LEMMA PublishKeeps ==
  ASSUME AllInv, Publish
  PROVE  AllInv'
BY SwapKeeps DEF Publish, Adopted

LEMMA CopyKeeps ==
  ASSUME AllInv, Copy
  PROVE  AllInv'
BY SwapKeeps DEF Copy

LEMMA SeededKeeps ==
  ASSUME AllInv, Seeded
  PROVE  AllInv'
<1>1. /\ step = "done" /\ step' = "none" /\ seeder' = "none" /\ phase' = "live"
      /\ UNCHANGED <<exchangeVars, ticks, due, cache, historyVars, failures, boundVars>>
      /\ \/ Adopted(octopus) /\ subscribed' = TRUE
         \/ UNCHANGED <<stateVars, subscribed>>
  BY DEF Seeded
<1>2. /\ Sound(octopus) /\ Sound(snapshot) /\ octopus.day = "today" /\ snapshot.day = "today"
      /\ Exact(octopus, late) /\ Exact(snapshot, late) /\ phase # "down"
      /\ aliased \in BOOLEAN /\ (aliased => octopus = snapshot)
      /\ Sound(cache) /\ Exact(cache, late)
  BY <1>1 DEF AllInv, MInv, CopiesOK, ExactInv, SeedOK, AliasOK
<1>3. /\ octopus' = octopus /\ snapshot' \in {snapshot, octopus} /\ aliased' \in BOOLEAN
      /\ (aliased' => snapshot' = octopus)
  <2>1. CASE Adopted(octopus)
    BY <2>1 DEF Adopted
  <2>2. CASE UNCHANGED stateVars
    BY <1>2, <2>2 DEF stateVars
  <2> QED  BY <1>1, <2>1, <2>2
<1>4. MInv'
  <2>1. ExchangeOK'
    BY <1>1, ExchangeStays DEF AllInv, MInv
  <2>2. subscribed' \in BOOLEAN
    BY <1>1 DEF AllInv, MInv, QueuesOK
  <2>3. QueuesOK'
    BY <1>1, <2>2, QueuesStay DEF AllInv, MInv
  <2>4. CopiesOK' /\ AliasOK' /\ SeedOK'
    BY <1>1, <1>2, <1>3 DEF CopiesOK, AliasOK, SeedOK
  <2>5. BoundsOK'
    BY <1>1 DEF AllInv, MInv, BoundsOK, historyVars, boundVars
  <2> QED  BY <2>1, <2>3, <2>4, <2>5 DEF MInv
<1>5. ExactInv'
  <2>1. late' = late
    BY <1>1 DEF historyVars
  <2> QED  BY <1>1, <1>2, <1>3, <2>1, ExactStays
<1>6. CoverInv'
  <2>1. SUFFICES ASSUME failures = 0, ~overlapped
                 PROVE  Covers(snapshot', octopus) /\ Covers(cache, snapshot')
    BY <1>1, <1>3 DEF CoverInv, historyVars
  <2>2. Covers(snapshot, octopus) /\ Covers(cache, snapshot)
    BY <1>1, <1>2, <2>1 DEF AllInv, CoverInv
  <2>3. Covers(cache, octopus) /\ Covers(octopus, octopus)
    BY <1>2, <2>2, CoversOnward, CoversItself DEF Sound
  <2> QED  BY <1>3, <2>2, <2>3
<1> QED  BY <1>4, <1>5, <1>6 DEF AllInv

LEMMA CrashKeeps ==
  ASSUME AllInv, Crash
  PROVE  AllInv'
<1>1. /\ crashes < MaxCrashes /\ crashes' = crashes + 1
      /\ phase' = "down" /\ subscribed' = FALSE /\ ticks' = <<>> /\ due' = <<>>
      /\ octopus' = NoState /\ snapshot' = NoState /\ aliased' = FALSE
      /\ seeder' = "none" /\ step' = "none"
      /\ UNCHANGED <<exchangeVars, cache, historyVars, failures, seeds>>
  BY DEF Crash
<1>2. Sound(NoState) /\ Exact(NoState, late) /\ Sound(cache) /\ Exact(cache, late)
  BY NothingIsSound DEF AllInv, MInv, CopiesOK, ExactInv
<1>3. MInv'
  <2>1. ExchangeOK'
    BY <1>1, ExchangeStays DEF AllInv, MInv
  <2>2. QueuesOK'
    BY <1>1, QueuesStay DEF AllInv, MInv
  <2>3. CopiesOK' /\ AliasOK' /\ SeedOK'
    BY <1>1, <1>2 DEF CopiesOK, AliasOK, SeedOK
  <2>4. crashes' \in 0..MaxCrashes
    BY <1>1, Numbers DEF AllInv, MInv, BoundsOK
  <2>5. BoundsOK'
    BY <1>1, <2>4 DEF AllInv, MInv, BoundsOK, historyVars
  <2> QED  BY <2>1, <2>2, <2>3, <2>5 DEF MInv
<1>4. ExactInv'
  <2>1. late' = late
    BY <1>1 DEF historyVars
  <2> QED  BY <1>1, <1>2, <2>1, ExactStays
<1>5. CoverInv'
  BY <1>1 DEF CoverInv
<1> QED  BY <1>3, <1>4, <1>5 DEF AllInv

-----------------------------------------------------------------------------
(* The theorems.                                                           *)

LEMMA InitHolds == Init => AllInv
<1> SUFFICES ASSUME Init PROVE AllInv
  OBVIOUS
<1> USE DEF Init
<1>1. ExchangeOK
  <2>1. 1 \in 1..(LastMinute + 1) /\ Len(<<>>) = 0 /\ 0 <= MaxTrades
    BY Numbers
  <2>2. <<>> \in Seq(Minutes)
    OBVIOUS
  <2> QED  BY <2>1, <2>2 DEF ExchangeOK
<1>2. QueuesOK
  <2>1. <<>> \in Seq(Trades) /\ <<>> \in Seq(DueBars) /\ 1..Len(<<>>) = {}
    OBVIOUS
  <2>2. \A i \in 1..Len(ticks) : ticks[i] <= Len(trades)
    BY <2>1
  <2>3. ticks \in Seq(Trades) /\ due \in Seq(DueBars) /\ subscribed \in BOOLEAN
    BY <2>1
  <2> QED  BY <2>2, <2>3 DEF QueuesOK
<1>3. CopiesOK /\ SeedOK /\ AliasOK
  BY NothingIsSound DEF CopiesOK, SeedOK, AliasOK
<1>4. BoundsOK
  <2>1. 0 \in 0..MaxCrashes /\ 0 \in 0..MaxFailures /\ 0 \in 0..MaxSeeds
    BY Numbers
  <2>2. late \subseteq Minutes /\ overlapped \in BOOLEAN
    OBVIOUS
  <2> QED  BY <2>1, <2>2 DEF BoundsOK
<1>5. ExactInv
  BY NothingIsSound DEF ExactInv
<1>6. CoverInv
  BY DEF CoverInv
<1> QED  BY <1>1, <1>2, <1>3, <1>4, <1>5, <1>6 DEF AllInv, MInv

LEMMA StutterKeeps ==
  ASSUME AllInv, UNCHANGED vars
  PROVE  AllInv'
<1> USE DEF vars, exchangeVars, queueVars, stateVars, seedVars, historyVars, boundVars
<1>1. MInv'
  BY DEF AllInv, MInv, ExchangeOK, QueuesOK, CopiesOK, SeedOK, AliasOK, BoundsOK
<1>2. ExactInv'
  BY ExactStays DEF AllInv, ExactInv
<1>3. CoverInv'
  BY DEF AllInv, CoverInv
<1> QED  BY <1>1, <1>2, <1>3 DEF AllInv

LEMMA AllInvHolds == Spec => []AllInv
<1>1. ASSUME AllInv, [Next]_vars PROVE AllInv'
  <2>1. ASSUME Next PROVE AllInv'
    BY <1>1, <2>1, TradeKeeps, PushFormingKeeps, CloseMinuteKeeps, ProcessTickKeeps, ProcessBarKeeps,
       ProcessBookKeeps, StartKeeps, AttachKeeps, ClientSeedKeeps, BackfillKeeps, PublishKeeps,
       FullTickKeeps, CopyKeeps, SeededKeeps, CrashKeeps
    DEF Next, Process, Seed
  <2> QED  BY <1>1, <2>1, StutterKeeps
<1> QED  BY InitHolds, <1>1, PTL DEF Spec

\* The three copies, the queues and the counters keep their types and bounds
\* (models.py, octopus.py, symbol_runtime.py).
THEOREM MarketTypeCorrect == Spec => []TypeOK
<1>1. MInv => TypeOK
  <2> SUFFICES ASSUME MInv PROVE TypeOK
    OBVIOUS
  <2> USE DEF MInv
  <2>1. DOMAIN trades = 1..Len(trades) /\ \A i \in 1..Len(trades) : trades[i] \in Minutes
    BY DEF ExchangeOK
  <2>2. DOMAIN ticks = 1..Len(ticks) /\ \A i \in 1..Len(ticks) : ticks[i] \in Trades
    BY DEF QueuesOK
  <2>3. \A i \in DOMAIN due : due[i] \in DueBars
    BY DEF QueuesOK
  <2>4. {octopus, snapshot, cache} \subseteq States
    BY DEF CopiesOK, Sound
  <2>5. {subscribed, aliased} \subseteq BOOLEAN
    BY DEF QueuesOK, AliasOK
  <2>6. now \in 1..(LastMinute + 1) /\ Len(trades) <= MaxTrades
    BY DEF ExchangeOK
  <2> QED  BY <2>1, <2>2, <2>3, <2>4, <2>5, <2>6 DEF TypeOK, SeedOK, BoundsOK, DueBars
<1> QED  BY <1>1, AllInvHolds, PTL DEF AllInv

\* A bar marked as confirmed counts every trade of its minute once, in each of
\* the three copies, but for the minutes in late: ticks merge only into bars not
\* confirmed or make their minute late, the exchange's bars replace what there
\* is, and merging, copying and rolling over invent none
\* (apply_minute_bar_to_state, upsert_minute_bar, merge_existing_minute_bars).
THEOREM ConfirmedExactHolds == Spec => []ConfirmedExact
<1>1. MInv /\ ExactInv => ConfirmedExact
  <2> SUFFICES ASSUME MInv, ExactInv,
                      NEW s \in {octopus, snapshot, cache}, NEW m \in Minutes \ late,
                      s.bars[m].confirmed
               PROVE  ~Unclosed(m) /\ s.bars[m].n = BarOf(m)
    BY DEF ConfirmedExact
  <2>1. m < now /\ s.bars[m].n = BarOf(m)
    BY DEF ExactInv, Exact
  <2>2. m \in Int /\ now \in Int
    BY Numbers DEF Minutes, MInv, ExchangeOK
  <2> QED  BY <2>1, <2>2 DEF Unclosed
<1> QED  BY <1>1, AllInvHolds, PTL DEF AllInv

\* A live symbol never shows the day before as today's chart, and no snapshot a
\* restart takes as today's does: every way in promotes, and every operator on a
\* state dates only what it has rolled over (rollover_realtime_session,
\* promote_snapshot_to_realtime_session, is_terminal_snapshot_usable).
THEOREM SameDayChartHolds == Spec => []SameDayChart
<1>1. MInv => SameDayChart
  BY DEF MInv, SameDayChart, CopiesOK, AliasOK, Sound, Usable
<1> QED  BY <1>1, AllInvHolds, PTL DEF AllInv

\* What clients are shown is in Redis before the next event, as long as Redis
\* has not failed and no seed was overlapped by events: the snapshot covers the
\* state a seed works on, and Redis what the seed swaps in
\* (_cache_set_terminal_snapshot, process_trade_tick_alert_event, seed_snapshot).
THEOREM CacheCoversHolds == Spec => []CacheCovers
<1>1. MInv /\ CoverInv => CacheCovers
  BY DEF MInv, CacheCovers, CoverInv
<1> QED  BY <1>1, AllInvHolds, PTL DEF AllInv

\* While a symbol is live a step takes no alert, no confirmed bar and no side of
\* the book from what it shows, except the two steps of a seed that replace the
\* snapshot by another object (merge_broker_queue, prepend of alerts,
\* rollover within the session, seed_snapshot of an aliased state).
THEOREM KeptHolds == Spec => Kept
<1> DEFINE Step == phase = "live" /\ phase' = "live" /\ (aliased \/ step \notin {"publish", "copy"})
                   => Covers(snapshot', snapshot)
<1>1. ASSUME AllInv, [Next]_vars PROVE [Step]_vars
  <2>1. SUFFICES ASSUME phase = "live", phase' = "live", aliased \/ step \notin {"publish", "copy"}
                 PROVE  Covers(snapshot', snapshot)
    OBVIOUS
  <2>2. /\ ExchangeOK /\ QueuesOK /\ Sound(octopus) /\ Sound(snapshot)
        /\ octopus.day = "today" /\ snapshot.day = "today"
        /\ aliased \in BOOLEAN /\ (aliased => octopus = snapshot) /\ seeder # "attach"
    BY <1>1, <2>1 DEF AllInv, MInv, CopiesOK, AliasOK, SeedOK
  <2>3. Covers(snapshot, snapshot)
    BY <2>2, CoversItself DEF Sound
  <2>4. CASE UNCHANGED snapshot
    BY <2>3, <2>4
  <2>5. CASE ProcessTick
    <3> DEFINE t == Head(ticks)
               s == AppliedTick(snapshot, t)
    <3>1. snapshot' = s /\ ticks # <<>>
      BY <2>5 DEF ProcessTick, Live
    <3>2. t \in Trades /\ t <= Len(trades)
      BY <2>2, <3>1, TickTaken
    <3>3. Covers(s, snapshot)
      BY <2>2, <3>2, AppliedTickIs
    <3> QED  BY <3>1, <3>3
  <2>6. CASE ProcessBar
    <3> DEFINE bar == Head(due)
               s == AppliedBar(snapshot, bar)
    <3>1. snapshot' = s /\ bar \in DueBars
      BY <2>2, <2>6 DEF ProcessBar, Live, QueuesOK
    <3>2. Covers(s, snapshot)
      BY <2>2, <3>1, AppliedBarIs
    <3> QED  BY <3>1, <3>2
  <2>7. CASE ProcessBook
    <3>1. PICK b \in Books : snapshot' = AppliedBook(snapshot, b)
      BY <2>7 DEF ProcessBook, Live
    <3>2. Covers(AppliedBook(snapshot, b), snapshot)
      BY <2>2, AppliedBookIs
    <3> QED  BY <3>1, <3>2
  <2>8. CASE Backfill
    <3>1. Covers(Backfilled(octopus), octopus)
      BY <2>2, BackfilledIs
    <3>2. snapshot' = snapshot \/ (aliased /\ snapshot' = Backfilled(octopus))
      BY <2>8 DEF Backfill, OctopusBecomes, stateVars
    <3> QED  BY <2>2, <2>3, <3>1, <3>2
  <2>9. CASE FullTick
    <3>1. Covers(AppliedFullTick(octopus), octopus)
      BY <2>2, AppliedFullTickIs
    <3>2. snapshot' = snapshot \/ (aliased /\ snapshot' = AppliedFullTick(octopus))
      BY <2>9 DEF FullTick, OctopusBecomes, stateVars
    <3> QED  BY <2>2, <2>3, <3>1, <3>2
  <2>10. CASE Publish \/ Copy
    <3>1. aliased /\ snapshot' = octopus
      BY <2>1, <2>10 DEF Publish, Copy, Adopted
    <3> QED  BY <2>2, <2>3, <3>1
  <2>11. CASE Seeded
    BY <2>2, <2>3, <2>11 DEF Seeded, stateVars
  <2>12. CASE Trade \/ PushForming \/ CloseMinute \/ ClientSeed
    BY <2>4, <2>12 DEF Trade, PushForming, CloseMinute, ClientSeed, stateVars
  <2>13. CASE Start \/ Attach \/ Crash
    BY <2>1, <2>13 DEF Start, Attach, Crash
  <2>14. CASE UNCHANGED vars
    BY <2>4, <2>14 DEF vars, stateVars
  <2> QED  BY <1>1, <2>5, <2>6, <2>7, <2>8, <2>9, <2>10, <2>11, <2>12, <2>13, <2>14
           DEF Next, Process, Seed
<1> QED  BY <1>1, AllInvHolds, PTL DEF Spec, Kept
=============================================================================
