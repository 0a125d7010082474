---------------------------- MODULE CutoverProofs ----------------------------
(***************************************************************************)
(* Theorems about Cutover for any number of sessions, any length of time,  *)
(* any set of policies and of faults, and times written with a zone or     *)
(* without: the types of the files, and what a bundle that passes proves.  *)
(***************************************************************************)
EXTENDS Cutover, WellFoundedInduction, FiniteSetTheorems, TLAPS

-----------------------------------------------------------------------------
(* The inductive invariants.                                               *)

\* A process that is up was started, and as long as it has counted no fault,
\* but for failed hydrations, nothing has been lost since.
RuntimeInv ==
  /\ runtime.started \in (0..now) \cup {Never}
  /\ runtime.lastTick \in (0..now) \cup {Never}
  /\ runtime.up => runtime.started # Never
  /\ runtime.up /\ runtime.faults \subseteq {"hydration"} => \A t \in hurt : t <= runtime.started

\* Nothing was lost between the start of the process a health file is of and
\* the time it was written.
HealthInv ==
  health # Blocked => \A t \in hurt : t <= health.started \/ t >= health.generated

\* The event files of a session that was reported on have only grown since,
\* the legacy ones unless they were once emptied.
SpanInv ==
  \A s \in Sessions : report[s] \notin {Missing, Blocked} =>
    /\ report[s].v2 <= Coverage(stream[s].v2)
    /\ stream[s].reset \/ report[s].legacy <= Coverage(stream[s].legacy)

IInv == TypeOK /\ RuntimeInv /\ HealthInv /\ SpanInv

-----------------------------------------------------------------------------
(* Times and what they span.                                               *)

LEMMA Times ==
  ASSUME now \in Time
  PROVE  now \in Nat /\ LastTime \in Nat /\ now <= LastTime /\ 0..now \subseteq Time
BY CutoverAssumption DEF Time

\* Every set of numbers has a least one.
LEMMA Least ==
  ASSUME NEW S, S \subseteq Nat, S # {}
  PROVE  \E m \in S : \A x \in S : m =< x
<1> DEFINE R == OpToRel(<, Nat)
<1>1. \A x, y \in Nat : x < y => <<x, y>> \in R
  BY DEF OpToRel
<1>2. IsWellFoundedOn(R, Nat)
  BY NatLessThanWellFounded DEF OpToRel
<1> HIDE DEF R
<1>3. PICK m \in S : \A y \in S : <<y, m>> \notin R
  BY <1>2, WFMin
<1>4. \A y \in S : ~(y < m)
  BY <1>1, <1>3
<1>5. \A y \in S : y \in Nat /\ m \in Nat
  OBVIOUS
<1>6. \A y \in S : m =< y
  BY <1>4, <1>5
<1> QED  BY <1>6

\* Every set of times has a last and a first one.
LEMMA Extremes ==
  ASSUME NEW n \in Nat, NEW S, S \subseteq 0..n, S # {}
  PROVE  /\ Max(S) \in S /\ \A x \in S : Max(S) >= x
         /\ Min(S) \in S /\ \A x \in S : Min(S) =< x
<1>1. \E m \in S : \A x \in S : m =< x
  <2>1. S \subseteq Nat
    OBVIOUS
  <2> QED  BY <2>1, Least
<1>2. \E m \in S : \A x \in S : m >= x
  <2> DEFINE T == {n - x : x \in S}
  <2>1. T \subseteq Nat
    <3>1. \A x \in S : x \in 0..n
      OBVIOUS
    <3>2. \A x \in 0..n : n - x \in Nat
      OBVIOUS
    <3> QED  BY <3>1, <3>2
  <2>2. T # {}
    OBVIOUS
  <2>3. PICK k \in T : \A j \in T : k =< j
    <3> HIDE DEF T
    <3> QED  BY <2>1, <2>2, Least
  <2>4. PICK m \in S : k = n - m
    OBVIOUS
  <2>5. ASSUME NEW x \in S  PROVE m >= x
    <3>1. k =< n - x
      BY <2>3
    <3>2. m \in 0..n /\ x \in 0..n
      OBVIOUS
    <3> QED  BY <2>4, <3>1, <3>2
  <2> QED  BY <2>5
<1> QED  BY <1>1, <1>2 DEF Max, Min

LEMMA CoverageType ==
  ASSUME NEW n \in Nat, NEW S, S \subseteq 0..n
  PROVE  Coverage(S) \in 0..n
<1>1. CASE S = {}
  BY <1>1 DEF Coverage
<1>2. CASE S # {}
  <2>1. Max(S) \in 0..n /\ Min(S) \in 0..n /\ Min(S) <= Max(S)
    BY <1>2, Extremes
  <2> QED  BY <1>2, <2>1 DEF Coverage
<1> QED  BY <1>1, <1>2

\* More events span at least as much.
LEMMA CoverageGrows ==
  ASSUME NEW n \in Nat, NEW S, NEW T, S \subseteq T, T \subseteq 0..n
  PROVE  Coverage(S) <= Coverage(T)
<1>1. CASE S = {}
  <2>1. Coverage(T) \in 0..n
    BY CoverageType
  <2> QED  BY <1>1, <2>1 DEF Coverage
<1>2. CASE S # {}
  <2>1. /\ Max(S) \in 0..n /\ Min(S) \in 0..n /\ Max(S) \in T /\ Min(S) \in T
        /\ T # {}
    BY <1>2, Extremes
  <2>2. /\ Max(T) \in 0..n /\ Min(T) \in 0..n
        /\ Max(T) >= Max(S) /\ Min(T) <= Min(S)
    BY <1>2, <2>1, Extremes
  <2>3. Coverage(S) = Max(S) - Min(S) /\ Coverage(T) = Max(T) - Min(T)
    BY <1>2, <2>1 DEF Coverage
  <2> HIDE DEF Max, Min
  <2> QED  BY <2>1, <2>2, <2>3
<1> QED  BY <1>1, <1>2

-----------------------------------------------------------------------------
(* Types.                                                                  *)

\* The files of one session, and of all.
Files(n) == [started : Time \cup {Never}, zoned : BOOLEAN, count : 0..LastTime,
             legacy : SUBSET (0..n), v2 : SUBSET (0..n), reset : BOOLEAN]
Streams(n) == [Sessions -> Files(n)]

\* A failed hydration loses nothing.
LEMMA FaultHurts ==
  ASSUME Fault
  PROVE  /\ \E f \in Faults :
              /\ runtime' = [runtime EXCEPT !.lastTick = now', !.faults = @ \cup {f}]
              /\ f # "hydration" \/ hurt' = hurt
         /\ hurt' \in {hurt, hurt \cup {now'}}
         /\ stream' = stream
<1>1. PICK f \in Faults :
        /\ runtime' = [runtime EXCEPT !.lastTick = now', !.faults = @ \cup {f}]
        /\ hurt' = IF f = "hydration" THEN hurt ELSE hurt \cup {now'}
  BY Zenon DEF Fault
<1>2. f # "hydration" \/ hurt' = hurt
  BY <1>1
<1>3. hurt' \in {hurt, hurt \cup {now'}}
  BY <1>1
<1>4. stream' = stream
  BY Zenon DEF Fault
<1> QED  BY <1>1, <1>2, <1>3, <1>4, Zenon

LEMMA InitTypes == Init => TypeOK /\ RuntimeInv
BY CutoverAssumption DEF Init, TypeOK, RuntimeInv, NotRunning, NoFiles, Time

\* What is known of a time stays known when time goes on.
LEMMA TimePasses ==
  ASSUME TypeOK, now' \in Time, now <= now',
         UNCHANGED <<files, legacyOn, report, writing>>
  PROVE  /\ legacyOn' \in BOOLEAN
         /\ report' \in [Sessions -> Reports \cup {Missing, Blocked}]
         /\ readiness' \in Readinesses \cup {Blocked}
         /\ env' \in Readinesses \cup {Blocked}
         /\ health' \in [started : 0..now', lastTick : 0..now', generated : 0..now'] \cup {Blocked}
         /\ frontend' \in [readiness : Readinesses, verified : 0..now'] \cup {Blocked}
         /\ decommission' \in [observed : 0..now'] \cup {Blocked}
         /\ retirement' \in [accepted : SUBSET Sessions, approved : 0..now'] \cup {Blocked}
         /\ writing' \in [file : {"readiness", "env"}, policy : Policies] \cup {Missing}
<1>1. 0..now \subseteq 0..now'
  BY CutoverAssumption DEF TypeOK, Time
<1> QED  BY <1>1 DEF TypeOK, files

LEMMA BuiltReportType ==
  ASSUME TypeOK, NEW s \in Sessions, NEW finished \in Time, stream[s].started # Never
  PROVE  BuiltReport(stream[s], finished) \in Reports \cup {Blocked}
<1>0. now \in Nat /\ LastTime \in Nat /\ now <= LastTime /\ 0..now \subseteq Time
  BY Times DEF TypeOK
<1> DEFINE f == stream[s]
<1>1. f \in Files(now)
  BY DEF TypeOK, Files
<1> HIDE DEF f
<1>2. CASE StreamsMatch(f) /\ Timed(f, finished)
  <2>1. f.started \in Time /\ f.zoned \in BOOLEAN
    BY <1>1 DEF Files, f
  <2>2. f.legacy \subseteq 0..now /\ f.v2 \subseteq 0..now
    BY <1>1 DEF Files
  <2>3. Coverage(f.legacy) \in Time /\ Coverage(f.v2) \in Time
    <3>1. Coverage(f.legacy) \in 0..now /\ Coverage(f.v2) \in 0..now
      BY <1>0, <2>2, CoverageType
    <3> QED  BY <1>0, <3>1
  <2>4. f.count \in 1..LastTime
    <3>1. IsFiniteSet(f.v2) /\ f.v2 # {} /\ Cardinality(f.v2) = f.count
      <4>1. IsFiniteSet(0..now) /\ f.v2 \in SUBSET (0..now)
        BY <1>0, <2>2, FS_Interval
      <4>2. IsFiniteSet(f.v2)
        BY <4>1, FS_Subset
      <4> QED  BY <1>2, <4>2 DEF StreamsMatch
    <3>2. f.count # 0
      BY <3>1, FS_EmptySet
    <3>3. f.count \in 0..LastTime
      BY <1>1 DEF Files
    <3> QED  BY <1>0, <3>2, <3>3
  <2>5. BuiltReport(f, finished) =
          [started |-> f.started, finished |-> finished, zoned |-> f.zoned, count |-> f.count,
           legacy |-> Coverage(f.legacy), v2 |-> Coverage(f.v2)]
    BY <1>2 DEF BuiltReport
  <2> QED  BY <2>1, <2>3, <2>4, <2>5 DEF Reports, f
<1>3. CASE ~(StreamsMatch(f) /\ Timed(f, finished))
  BY <1>3 DEF BuiltReport, f
<1> QED  BY <1>2, <1>3

LEMMA StepTypes ==
  ASSUME TypeOK, RuntimeInv, [Next]_vars
  PROVE  TypeOK'
<1>0. now \in Nat /\ LastTime \in Nat /\ now <= LastTime /\ 0..now \subseteq Time
  BY Times DEF TypeOK
<1>1. CASE UNCHANGED vars
  BY <1>1 DEF TypeOK, vars, files
<1>2. CASE Boot
  BY <1>0, <1>2 DEF TypeOK, Boot, files, Time
<1>3. CASE Crash
  <2>1. runtime' \in [up : BOOLEAN, started : Time \cup {Never}, lastTick : Time \cup {Never},
                      faults : SUBSET Faults, worked : BOOLEAN, quiet : BOOLEAN]
    BY <1>3 DEF TypeOK, Crash, NotRunning
  <2>2. hurt' \subseteq 0..now
    BY <1>0, <1>3 DEF TypeOK, Crash
  <2> QED  BY <1>3, <2>1, <2>2 DEF TypeOK, Crash, files
<1>4. CASE ReplaySpool
  BY <1>4 DEF TypeOK, ReplaySpool, files
<1>5. CASE SwitchLegacy
  BY <1>5 DEF TypeOK, SwitchLegacy, files
<1>6. CASE WriteReadiness
  <2>1. writing \in [file : {"readiness", "env"}, policy : Policies]
    BY <1>6 DEF TypeOK, WriteReadiness
  <2>2. readiness' \in Readinesses \cup {Blocked}
    BY <1>6, <2>1 DEF WriteReadiness, Readiness, AcceptedIds, Readinesses
  <2>3. writing' \in [file : {"readiness", "env"}, policy : Policies]
    BY <1>6, <2>1 DEF WriteReadiness
  <2> QED  BY <1>6, <2>2, <2>3 DEF TypeOK, WriteReadiness
<1>7. CASE WriteEnv
  BY <1>7 DEF TypeOK, WriteEnv
<1>8. CASE FinalizeFails
  BY <1>8 DEF TypeOK, FinalizeFails, files
<1>9. CASE WriteHealth
  BY <1>0, <1>9 DEF TypeOK, RuntimeInv, WriteHealth, HealthSnapshot, SupervisorClean
<1>10. CASE VerifyFrontend
  BY <1>0, <1>10 DEF TypeOK, VerifyFrontend, SelectsV2
<1>11. CASE ObserveLegacy
  BY <1>0, <1>11 DEF TypeOK, ObserveLegacy
<1>12. CASE Retire
  BY <1>0, <1>12 DEF TypeOK, Retire, Readinesses
<1>13. ASSUME NEW s \in Sessions, StartRecording(s)  PROVE TypeOK'
  <2>1. PICK z \in Zones : stream' = [stream EXCEPT ![s].started = now, ![s].zoned = z]
    BY <1>13 DEF StartRecording
  <2>2. z \in BOOLEAN /\ now \in Time
    BY CutoverAssumption DEF TypeOK
  <2>3. stream' \in Streams(now)
    <3>1. stream \in Streams(now)
      BY DEF TypeOK, Streams, Files
    <3> DEFINE f == [stream[s] EXCEPT !.started = now, !.zoned = z]
    <3>2. f \in Files(now)
      BY <2>2, <3>1 DEF Streams, Files
    <3>3. stream' = [stream EXCEPT ![s] = f]
      BY <2>1, <3>1 DEF Streams, Files
    <3> QED  BY <3>1, <3>2, <3>3 DEF Streams
  <2> QED  BY <1>13, <2>3 DEF TypeOK, Streams, Files, StartRecording, files
<1>14. ASSUME NEW s \in Sessions, ImportLegacy(s)  PROVE TypeOK'
  <2>1. PICK from \in 0..now, reset \in BOOLEAN :
          LET events == {t \in legacyLog : t >= from} IN
            /\ stream[s].count + Cardinality(events) <= LastTime
            /\ stream' = [stream EXCEPT ![s] = Imported(stream[s], from, reset, events)]
    BY <1>14 DEF ImportLegacy
  <2> DEFINE events == {t \in legacyLog : t >= from}
             n == (IF reset THEN 0 ELSE stream[s].count) + Cardinality(events)
             l == (IF reset THEN {} ELSE stream[s].legacy) \cup events
             e == stream[s].reset \/ (reset /\ stream[s].legacy # {})
  <2>2. events \subseteq 0..now /\ IsFiniteSet(events) /\ Cardinality(events) \in Nat
    <3>1. events \subseteq 0..now
      BY DEF TypeOK
    <3>2. IsFiniteSet(0..now)
      BY <1>0, FS_Interval
    <3> HIDE DEF events
    <3>3. IsFiniteSet(events)
      BY <3>1, <3>2, FS_Subset
    <3> QED  BY <3>1, <3>3, FS_CardinalityType
  <2>3. stream[s] \in Files(now)
    BY DEF TypeOK, Files
  <2>4. n \in 0..LastTime
    <3>1. stream[s].count \in 0..LastTime /\ stream[s].count + Cardinality(events) <= LastTime
      BY <2>1, <2>3 DEF Files
    <3> HIDE DEF events
    <3> QED  BY <1>0, <2>2, <3>1
  <2>5. l \subseteq 0..now /\ e \in BOOLEAN /\ from \in Time
    BY <1>0, <2>2, <2>3 DEF Files
  <2>6. stream' = [stream EXCEPT ![s] = [stream[s] EXCEPT !.started = from, !.count = n,
                                                          !.legacy = l, !.reset = e]]
    BY <2>1, <2>3 DEF Imported, Files
  <2> HIDE DEF events, n, l, e
  <2>7. stream' \in Streams(now)
    BY <2>3, <2>4, <2>5, <2>6 DEF TypeOK, Streams, Files
  <2>8. UNCHANGED <<now, runtime, legacyOn, legacyLog, report, files, writing, hurt>>
    BY <1>14 DEF ImportLegacy
  <2> QED  BY <2>7, <2>8 DEF TypeOK, Streams, Files, files
<1>15. ASSUME NEW s \in Sessions, SaveReport(s)  PROVE TypeOK'
  <2>1. PICK finished \in Time, policy \in Policies :
          /\ report' = [report EXCEPT ![s] = BuiltReport(stream[s], finished)]
          /\ writing' = [file |-> "readiness", policy |-> policy]
    BY <1>15 DEF SaveReport
  <2>2. BuiltReport(stream[s], finished) \in Reports \cup {Blocked}
    BY <1>15, BuiltReportType DEF SaveReport
  <2>3. report' \in [Sessions -> Reports \cup {Missing, Blocked}]
    BY <2>1, <2>2 DEF TypeOK
  <2> QED  BY <1>15, <2>1, <2>3 DEF TypeOK, SaveReport, files
<1>16. CASE Advance
  <2>1. now' = now + 1 /\ now' \in Time /\ now' \in 0..now' /\ now <= now' /\ 0..now \subseteq 0..now'
    BY <1>0, <1>16 DEF Advance, Time
  <2>2. legacyLog' \subseteq 0..now'
    BY <1>16, <2>1 DEF Advance, TypeOK
  <2>3. stream \in Streams(now')
    BY <2>1 DEF TypeOK, Streams, Files
  <2>4. /\ runtime' \in [up : BOOLEAN, started : Time \cup {Never}, lastTick : Time \cup {Never},
                         faults : SUBSET Faults, worked : BOOLEAN, quiet : BOOLEAN]
        /\ hurt' \subseteq 0..now'
        /\ stream' \in Streams(now')
    <3>1. CASE Handle
      <4>1. stream' \in Streams(now')
        BY <2>1, <2>3, <3>1 DEF Handle, Streams, Files
      <4>2. hurt' \subseteq 0..now'
        BY <2>1, <3>1 DEF Handle, TypeOK
      <4>3. runtime' = [runtime EXCEPT !.lastTick = now', !.worked = TRUE, !.quiet = FALSE]
        BY <3>1 DEF Handle
      <4>4. runtime' \in [up : BOOLEAN, started : Time \cup {Never}, lastTick : Time \cup {Never},
                          faults : SUBSET Faults, worked : BOOLEAN, quiet : BOOLEAN]
        BY <2>1, <4>3 DEF TypeOK
      <4> QED  BY <4>1, <4>2, <4>4
    <3>2. CASE Fault
      <4>1. PICK f \in Faults :
              runtime' = [runtime EXCEPT !.lastTick = now', !.faults = @ \cup {f}]
        BY <3>2, Zenon DEF Fault
      <4>2. runtime' \in [up : BOOLEAN, started : Time \cup {Never}, lastTick : Time \cup {Never},
                          faults : SUBSET Faults, worked : BOOLEAN, quiet : BOOLEAN]
        BY <2>1, <4>1 DEF TypeOK
      <4>3. hurt' \in {hurt, hurt \cup {now'}} /\ stream' = stream
        BY <3>2, FaultHurts
      <4>4. hurt' \subseteq 0..now'
        BY <2>1, <4>3 DEF TypeOK
      <4> QED  BY <2>3, <4>2, <4>3, <4>4
    <3>3. CASE Quiet
      BY <2>1, <2>3, <3>3 DEF Quiet, TypeOK
    <3>4. CASE Down
      BY <2>1, <2>3, <3>4 DEF Down, TypeOK
    <3> QED  BY <1>16, <3>1, <3>2, <3>3, <3>4 DEF Advance
  <2>5. UNCHANGED <<files, legacyOn, report, writing>>
    BY <1>16 DEF Advance
  <2> QED  BY <2>1, <2>2, <2>4, <2>5, TimePasses DEF TypeOK, Streams, Files
<1>17. CASE Evict
  BY <1>17 DEF TypeOK, Evict, files
<1> QED
  BY <1>1, <1>2, <1>3, <1>4, <1>5, <1>6, <1>7, <1>8, <1>9, <1>10, <1>11, <1>12, <1>13,
     <1>14, <1>15, <1>16, <1>17 DEF Next

-----------------------------------------------------------------------------
(* What the health file stands for.                                        *)

LEMMA StepRuntime ==
  ASSUME TypeOK, RuntimeInv, [Next]_vars
  PROVE  RuntimeInv'
<1>0. now \in Nat /\ \A t \in hurt : t \in 0..now
  BY Times DEF TypeOK
<1>1. CASE UNCHANGED <<now, runtime, hurt>>
  BY <1>1 DEF RuntimeInv
<1>2. CASE Boot
  <2>1. \A t \in hurt : t <= now
    BY <1>0
  <2>2. now' = now /\ hurt' = hurt /\ now \in 0..now
    BY <1>0, <1>2 DEF Boot
  <2>3. runtime'.started = now /\ runtime'.lastTick = runtime.lastTick
    BY <1>2 DEF Boot, TypeOK
  <2>4. now # Never
    BY <1>0 DEF Never
  <2> QED  BY <2>1, <2>2, <2>3, <2>4 DEF RuntimeInv
<1>3. CASE Crash
  BY <1>3 DEF Crash, NotRunning, RuntimeInv
<1>4. CASE ReplaySpool
  <2>1. ~runtime'.up /\ runtime'.started = runtime.started /\ runtime'.lastTick = runtime.lastTick
    BY <1>4 DEF ReplaySpool, TypeOK
  <2> QED  BY <1>4, <2>1 DEF ReplaySpool, RuntimeInv
<1>5. CASE Advance
  <2>1. now' = now + 1 /\ 0..now \subseteq 0..now' /\ now' \in 0..now'
    BY <1>0, <1>5 DEF Advance
  <2>2. runtime.started \in (0..now') \cup {Never} /\ runtime.lastTick \in (0..now') \cup {Never}
    BY <2>1 DEF RuntimeInv
  <2>3. CASE Handle
    <3>1. /\ runtime'.started = runtime.started /\ runtime'.lastTick = now'
          /\ runtime'.up = runtime.up /\ runtime'.faults = runtime.faults
      BY <2>3 DEF Handle, TypeOK
    <3> QED  BY <2>1, <2>2, <2>3, <3>1 DEF Handle, RuntimeInv
  <2>4. CASE Fault
    <3>1. PICK f \in Faults :
            /\ runtime' = [runtime EXCEPT !.lastTick = now', !.faults = @ \cup {f}]
            /\ f # "hydration" \/ hurt' = hurt
      BY <2>4, FaultHurts
    <3>2. /\ runtime'.started = runtime.started /\ runtime'.lastTick = now'
          /\ runtime'.up = runtime.up /\ runtime'.faults = runtime.faults \cup {f}
      BY <3>1 DEF TypeOK
    <3>3. CASE f # "hydration"
      BY <2>1, <2>2, <3>2, <3>3 DEF RuntimeInv
    <3>4. CASE f = "hydration"
      <4>1. runtime'.faults \subseteq {"hydration"} => runtime.faults \subseteq {"hydration"}
        BY <3>2
      <4> QED  BY <2>1, <2>2, <3>1, <3>2, <3>4, <4>1 DEF RuntimeInv
    <3> QED  BY <3>3, <3>4
  <2>5. CASE Quiet
    <3>1. /\ runtime'.started = runtime.started /\ runtime'.lastTick = now'
          /\ runtime'.up = runtime.up /\ runtime'.faults = runtime.faults
      BY <2>5 DEF Quiet, TypeOK
    <3> QED  BY <2>1, <2>2, <2>5, <3>1 DEF Quiet, RuntimeInv
  <2>6. CASE Down
    BY <2>2, <2>6 DEF Down, RuntimeInv
  <2> QED  BY <1>5, <2>3, <2>4, <2>5, <2>6 DEF Advance
<1>6. CASE Evict
  <2>1. /\ runtime'.up = runtime.up /\ runtime'.started = runtime.started
        /\ runtime'.lastTick = runtime.lastTick
        /\ runtime'.faults = runtime.faults \ {"hydration"}
    BY <1>6 DEF Evict, TypeOK
  <2>2. runtime'.faults \subseteq {"hydration"} => runtime.faults \subseteq {"hydration"}
    BY <2>1
  <2> QED  BY <1>6, <2>1, <2>2 DEF Evict, RuntimeInv
<1> QED
  BY <1>1, <1>2, <1>3, <1>4, <1>5, <1>6
  DEF Next, SwitchLegacy, StartRecording, ImportLegacy, SaveReport, WriteReadiness, WriteEnv,
      FinalizeFails, WriteHealth, VerifyFrontend, ObserveLegacy, Retire, vars

\* What is lost is lost now or later.
LEMMA StepHurts ==
  ASSUME TypeOK, [Next]_vars
  PROVE  \A t \in hurt' : t \in hurt \/ t >= now
<1>0. now \in Nat
  BY Times DEF TypeOK
<1>1. CASE UNCHANGED hurt
  BY <1>1
<1>2. CASE Crash
  BY <1>0, <1>2 DEF Crash
<1>3. CASE Advance
  <2>1. now' = now + 1
    BY <1>3 DEF Advance
  <2>2. hurt' = hurt \/ hurt' = hurt \cup {now'}
    <3>1. Handle \/ Fault \/ Quiet \/ Down
      BY <1>3 DEF Advance
    <3>2. Fault => hurt' \in {hurt, hurt \cup {now'}}
      BY FaultHurts
    <3> QED  BY <3>1, <3>2 DEF Handle, Quiet, Down
  <2> QED  BY <1>0, <2>1, <2>2
<1> QED
  BY <1>1, <1>2, <1>3
  DEF Next, Boot, ReplaySpool, Evict, SwitchLegacy, StartRecording, ImportLegacy, SaveReport,
      WriteReadiness, WriteEnv, FinalizeFails, WriteHealth, VerifyFrontend, ObserveLegacy,
      Retire, vars

LEMMA StepHealth ==
  ASSUME TypeOK, RuntimeInv, HealthInv, [Next]_vars
  PROVE  HealthInv'
<1>0. now \in Nat /\ \A t \in hurt : t \in 0..now
  BY Times DEF TypeOK
<1>1. CASE UNCHANGED health
  <2>1. SUFFICES ASSUME health # Blocked, NEW t \in hurt'
                 PROVE  t <= health.started \/ t >= health.generated
    BY <1>1 DEF HealthInv
  <2>2. health.generated \in 0..now
    BY <2>1 DEF TypeOK
  <2>3. CASE t \in hurt
    BY <2>1, <2>3 DEF HealthInv
  <2>4. CASE t \notin hurt /\ t >= now
    <3>1. t \in Nat
      <4>1. hurt' \subseteq 0..now'
        BY StepTypes DEF TypeOK
      <4> QED  BY <4>1
    <3> QED  BY <1>0, <2>2, <2>4, <3>1
  <2> QED  BY <2>3, <2>4, StepHurts
<1>2. CASE WriteHealth
  <2>1. SUFFICES ASSUME health' # Blocked  PROVE \A t \in hurt : t <= health'.started
    BY <1>2 DEF WriteHealth, HealthInv
  <2>2. runtime.up /\ health' = HealthSnapshot
    BY <1>2 DEF WriteHealth
  <2>3. health'.started = runtime.started
    BY <2>1, <2>2 DEF HealthSnapshot
  <2>4. runtime.faults = {}
    <3>1. /\ "rejected" \notin runtime.faults /\ "dead_letter" \notin runtime.faults
          /\ "spooled" \notin runtime.faults /\ "redis" \notin runtime.faults
          /\ "sink" \notin runtime.faults /\ "hydration" \notin runtime.faults
      BY <2>1, <2>2 DEF HealthSnapshot, QueuesClean, WorkersClean, ProducerClean, RedisClean,
                        ManagerClean, RuntimesClean
    <3>2. runtime.faults \subseteq
            {"rejected", "dead_letter", "spooled", "redis", "sink", "hydration"}
      BY CutoverAssumption DEF TypeOK
    <3> QED  BY <3>1, <3>2
  <2> QED  BY <2>2, <2>3, <2>4 DEF RuntimeInv
<1> QED
  BY <1>1, <1>2
  DEF Next, Boot, Crash, ReplaySpool, Evict, Advance, SwitchLegacy, StartRecording, ImportLegacy,
      SaveReport, WriteReadiness, WriteEnv, FinalizeFails, VerifyFrontend, ObserveLegacy,
      Retire, vars, files

-----------------------------------------------------------------------------
(* What a report stands for.                                               *)

\* The files of a session grow, the legacy ones unless they are emptied; one
\* that was emptied stays marked.
Grown(s) ==
  /\ stream[s].v2 \subseteq stream'[s].v2
  /\ stream'[s].reset \/ (~stream[s].reset /\ stream[s].legacy \subseteq stream'[s].legacy)

LEMMA StepGrown ==
  ASSUME TypeOK, [Next]_vars, NEW s \in Sessions
  PROVE  Grown(s)
<1>0. stream \in Streams(now) /\ stream[s] \in Files(now)
  BY DEF TypeOK, Streams, Files
<1>1. CASE UNCHANGED stream
  BY <1>0, <1>1 DEF Grown, Files
<1>2. ASSUME NEW r \in Sessions, StartRecording(r)  PROVE Grown(s)
  <2>1. PICK z \in Zones : stream' = [stream EXCEPT ![r].started = now, ![r].zoned = z]
    BY <1>2 DEF StartRecording
  <2>2. /\ stream'[s].v2 = stream[s].v2 /\ stream'[s].legacy = stream[s].legacy
        /\ stream'[s].reset = stream[s].reset
    BY <1>0, <2>1 DEF Streams, Files
  <2> QED  BY <1>0, <2>2 DEF Grown, Files
<1>3. ASSUME NEW r \in Sessions, ImportLegacy(r)  PROVE Grown(s)
  <2>1. PICK from \in 0..now, reset \in BOOLEAN :
          LET events == {t \in legacyLog : t >= from} IN
            stream' = [stream EXCEPT ![r] = Imported(stream[r], from, reset, events)]
    BY <1>3 DEF ImportLegacy
  <2> DEFINE events == {t \in legacyLog : t >= from}
  <2> HIDE DEF events
  <2>2. stream' = [stream EXCEPT ![r] = Imported(stream[r], from, reset, events)]
    BY <2>1 DEF events
  <2>3. CASE r # s
    <3>1. stream'[s] = stream[s]
      BY <1>0, <2>2, <2>3 DEF Streams
    <3> QED  BY <1>0, <3>1 DEF Grown, Files
  <2>4. CASE r = s
    <3>1. stream'[s] = Imported(stream[s], from, reset, events)
      BY <1>0, <2>2, <2>4 DEF Streams
    <3>2. /\ stream'[s].v2 = stream[s].v2
          /\ stream'[s].legacy = (IF reset THEN {} ELSE stream[s].legacy) \cup events
          /\ stream'[s].reset = (stream[s].reset \/ (reset /\ stream[s].legacy # {}))
      BY <1>0, <3>1 DEF Imported, Files
    <3> QED  BY <3>2 DEF Grown
  <2> QED  BY <2>3, <2>4
<1>4. CASE Advance
  <2>1. CASE UNCHANGED stream
    BY <1>1, <2>1
  <2>2. CASE Handle
    <3>1. stream'[s] = stream[s] \/ stream'[s] = [stream[s] EXCEPT !.v2 = @ \cup {now'}]
      BY <2>2 DEF Handle
    <3> QED  BY <1>0, <3>1 DEF Grown, Files
  <2>3. Handle \/ Fault \/ Quiet \/ Down
    BY <1>4 DEF Advance
  <2>4. Fault => UNCHANGED stream
    BY Zenon DEF Fault
  <2> QED  BY <2>1, <2>2, <2>3, <2>4 DEF Quiet, Down
<1> QED
  BY <1>1, <1>2, <1>3, <1>4
  DEF Next, Boot, Crash, ReplaySpool, Evict, SwitchLegacy, SaveReport, WriteReadiness, WriteEnv,
      FinalizeFails, WriteHealth, VerifyFrontend, ObserveLegacy, Retire, vars

LEMMA StepSpan ==
  ASSUME TypeOK, TypeOK', SpanInv, [Next]_vars
  PROVE  SpanInv'
<1> SUFFICES ASSUME NEW s \in Sessions, report'[s] \notin {Missing, Blocked}
             PROVE  /\ report'[s].v2 <= Coverage(stream'[s].v2)
                    /\ stream'[s].reset \/ report'[s].legacy <= Coverage(stream'[s].legacy)
  BY DEF SpanInv
<1>0. now \in Nat /\ now' \in Nat
  BY Times, CutoverAssumption DEF TypeOK, Time
<1>1. /\ stream[s].v2 \subseteq 0..now /\ stream[s].legacy \subseteq 0..now
      /\ stream'[s].v2 \subseteq 0..now' /\ stream'[s].legacy \subseteq 0..now'
  BY DEF TypeOK
<1>2. CASE report'[s] = report[s]
  <2>1. report[s] \in Reports
    BY <1>2 DEF TypeOK
  <2>2. report[s].v2 \in Nat /\ report[s].legacy \in Nat
    BY <2>1, CutoverAssumption DEF Reports, Time
  <2>3. /\ Coverage(stream[s].v2) <= Coverage(stream'[s].v2)
        /\ stream'[s].reset \/ (/\ ~stream[s].reset
                                /\ Coverage(stream[s].legacy) <= Coverage(stream'[s].legacy))
    BY <1>0, <1>1, StepGrown, CoverageGrows DEF Grown
  <2>4. /\ Coverage(stream[s].v2) \in Nat /\ Coverage(stream'[s].v2) \in Nat
        /\ Coverage(stream[s].legacy) \in Nat /\ Coverage(stream'[s].legacy) \in Nat
    <3>1. /\ Coverage(stream[s].v2) \in 0..now /\ Coverage(stream'[s].v2) \in 0..now'
          /\ Coverage(stream[s].legacy) \in 0..now /\ Coverage(stream'[s].legacy) \in 0..now'
      BY <1>0, <1>1, CoverageType
    <3> QED  BY <1>0, <3>1
  <2>5. /\ report[s].v2 <= Coverage(stream[s].v2)
        /\ stream[s].reset \/ report[s].legacy <= Coverage(stream[s].legacy)
    BY <1>2 DEF SpanInv
  <2> QED  BY <1>2, <2>2, <2>3, <2>4, <2>5
<1>3. CASE report'[s] # report[s]
  <2>1. PICK r \in Sessions : SaveReport(r)
    BY <1>3
    DEF Next, Boot, Crash, ReplaySpool, Evict, Advance, SwitchLegacy, StartRecording, ImportLegacy,
        WriteReadiness, WriteEnv, FinalizeFails, WriteHealth, VerifyFrontend, ObserveLegacy,
        Retire, vars
  <2>2. PICK finished \in Time :
          report' = [report EXCEPT ![r] = BuiltReport(stream[r], finished)]
    BY <2>1 DEF SaveReport
  <2>3. r = s /\ report'[s] = BuiltReport(stream[s], finished) /\ stream' = stream
    BY <1>3, <2>1, <2>2 DEF TypeOK, SaveReport
  <2>4. /\ report'[s].v2 = Coverage(stream[s].v2)
        /\ report'[s].legacy = Coverage(stream[s].legacy)
    BY <2>3 DEF BuiltReport
  <2>5. Coverage(stream[s].v2) \in 0..now /\ Coverage(stream[s].legacy) \in 0..now
    BY <1>0, <1>1, CoverageType
  <2> QED  BY <1>0, <2>3, <2>4, <2>5
<1> QED  BY <1>2, <1>3

LEMMA Invariance == Spec => []IInv
<1>1. Init => IInv
  BY InitTypes DEF Init, IInv, HealthInv, SpanInv
<1>2. IInv /\ [Next]_vars => IInv'
  BY StepTypes, StepRuntime, StepHealth, StepSpan DEF IInv
<1> QED  BY <1>1, <1>2, PTL DEF Spec

-----------------------------------------------------------------------------
(* Theorems.                                                               *)

\* Every file a command of the cutover writes is missing, blocked or complete,
\* however the commands are mixed and wherever finalize fails.
THEOREM CutoverTypeCorrect == Spec => []TypeOK
<1>1. IInv => TypeOK
  BY DEF IInv
<1> QED  BY <1>1, Invariance, PTL

\* evaluate_evidence_bundle passes only if the process the health file is of
\* ran through every accepted session and lost no event and no write in it: the
\* window check of the start and of the end of one health file suffices for all
\* sessions, because what the process has lost stays counted while it lives.
\* (A failed hydration does not, and is not among the losses.)
THEOREM BundleCoversRuntime == Spec => []RuntimeCovered
<1>1. IInv => RuntimeCovered
  <2> SUFFICES ASSUME IInv, BundlePasses, NEW s \in AcceptedIds("default"),
                      report[s].zoned, NEW t \in hurt
               PROVE  t <= report[s].started \/ t >= report[s].finished
    BY DEF RuntimeCovered
  <2>1. report[s] \in Reports
    BY DEF IInv, TypeOK, AcceptedIds, Acceptable
  <2>2. health \in [started : 0..now, lastTick : 0..now, generated : 0..now] /\ WindowCovered(s)
    BY DEF IInv, TypeOK, BundlePasses, HealthPasses
  <2>3. t <= health.started \/ t >= health.generated
    BY <2>2 DEF IInv, HealthInv, BundlePasses, HealthPasses
  <2>4. /\ report[s].started \in Nat /\ report[s].finished \in Nat
        /\ health.started \in Nat /\ health.generated \in Nat /\ t \in Nat
    <3>1. t \in 0..now /\ now \in Nat
      BY Times DEF IInv, TypeOK
    <3> QED  BY <2>1, <2>2, <3>1, CutoverAssumption DEF Reports, Time
  <2>5. ~(report[s].started < health.started) /\ ~(health.generated < report[s].finished)
    <3>1. report[s].zoned = TRUE
      BY <2>1 DEF Reports
    <3> QED  BY <2>2, <3>1 DEF WindowCovered, Before
  <2> QED  BY <2>3, <2>4, <2>5
<1> QED  BY <1>1, Invariance, PTL

\* evaluate_evidence_bundle passes only on sessions whose event files span the
\* minimum duration: the audit of counts and the duration of the report make
\* up for files that were written again since the report.
THEOREM BundleIsLongEnough == Spec => []LongEnough
<1>1. IInv => LongEnough
  <2> SUFFICES ASSUME IInv, BundlePasses, NEW s \in readiness.accepted, ~stream[s].reset
               PROVE  /\ Coverage(stream[s].v2) + 1 >= MinDuration
                      /\ Coverage(stream[s].legacy) + 1 >= MinDuration
    BY DEF LongEnough
  <2>1. s \in AcceptedIds("default")
    BY DEF BundlePasses, ReadinessPasses
  <2>2. /\ s \in Sessions /\ report[s] \notin {Missing, Blocked}
        /\ Covers(report[s].legacy, report[s]) /\ Covers(report[s].v2, report[s])
        /\ report[s].finished - report[s].started >= MinDuration
    BY <2>1 DEF AcceptedIds, Acceptable
  <2>3. report[s] \in Reports
    BY <2>2 DEF IInv, TypeOK
  <2>4. /\ report[s].started \in Nat /\ report[s].finished \in Nat /\ MinDuration \in Nat
        /\ report[s].legacy \in Nat /\ report[s].v2 \in Nat
    BY <2>3, CutoverAssumption DEF Reports, Time
  <2>5. report[s].v2 <= Coverage(stream[s].v2) /\ report[s].legacy <= Coverage(stream[s].legacy)
    BY <2>2 DEF IInv, SpanInv
  <2>6. Coverage(stream[s].v2) \in Nat /\ Coverage(stream[s].legacy) \in Nat
    <3>1. now \in Nat /\ stream[s].v2 \subseteq 0..now /\ stream[s].legacy \subseteq 0..now
      BY <2>2, Times DEF IInv, TypeOK
    <3>2. Coverage(stream[s].v2) \in 0..now /\ Coverage(stream[s].legacy) \in 0..now
      BY <3>1, CoverageType
    <3> QED  BY <3>1, <3>2
  <2> QED  BY <2>2, <2>4, <2>5, <2>6 DEF Covers
<1> QED  BY <1>1, Invariance, PTL

\* evaluate_evidence_bundle passes only on files written in the order of a
\* cutover: the comparisons of neighbouring times it makes compose.
THEOREM BundleIsInOrder == Spec => []InOrder
<1>1. IInv => InOrder
  <2> SUFFICES ASSUME IInv, BundlePasses
               PROVE  /\ retirement.approved >= frontend.verified
                      /\ \A s \in readiness.accepted :
                           report[s].zoned => /\ retirement.approved >= report[s].finished
                                              /\ decommission.observed >= report[s].finished
    BY DEF InOrder
  <2>1. /\ retirement.approved \in Nat /\ frontend.verified \in Nat
        /\ decommission.observed \in Nat
    <3>1. /\ retirement # Blocked /\ frontend # Blocked /\ decommission # Blocked
      BY DEF BundlePasses, RetirementPasses, FrontendPasses, DecommissionPasses
    <3>2. /\ retirement.approved \in 0..now /\ frontend.verified \in 0..now
          /\ decommission.observed \in 0..now
      BY <3>1 DEF IInv, TypeOK
    <3> QED  BY <3>2
  <2>2. /\ ~(decommission.observed < frontend.verified)
        /\ ~(retirement.approved < decommission.observed)
    BY DEF BundlePasses, RetirementPasses, DecommissionPasses, Before
  <2>3. ASSUME NEW s \in readiness.accepted, report[s].zoned
        PROVE  report[s].finished \in Nat /\ ~(frontend.verified < report[s].finished)
    <3>1. s \in AcceptedIds("default") /\ VerifiedAfter(s)
      BY DEF BundlePasses, ReadinessPasses, FrontendPasses
    <3>2. report[s] \in Reports
      BY <3>1 DEF IInv, TypeOK, AcceptedIds, Acceptable
    <3>3. report[s].zoned = TRUE /\ report[s].finished \in Nat
      BY <2>3, <3>2, CutoverAssumption DEF Reports, Time
    <3> QED  BY <3>1, <3>3 DEF VerifiedAfter, Before
  <2> QED  BY <2>1, <2>2, <2>3
<1> QED  BY <1>1, Invariance, PTL
=============================================================================
