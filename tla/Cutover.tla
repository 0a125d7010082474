------------------------------- MODULE Cutover -------------------------------
(***************************************************************************)
(* The gate between the legacy terminal and v2.  Both run side by side for  *)
(* a shadow session; its two event streams are compared in a report, the    *)
(* reports decide the readiness, the readiness goes into the environment of *)
(* the frontend, and at the end one bundle of files is to prove that legacy *)
(* may be retired: reports, readiness, health of the runtime, evidence of   *)
(* the frontend, of the decommissioning and of the retirement.  Every file  *)
(* is written by a command of its own, in whatever order and as often as an *)
(* operator likes, and none of them is locked: what the bundle has to find  *)
(* out is whether the files still speak of the same thing.                  *)
(*                                                                          *)
(* Evidence that does not pass, and evidence that is not there, is Blocked  *)
(* whatever else is in it: no check that follows lets either through.  Time *)
(* is counted in units of one event: in each unit the exchange has one that *)
(* legacy and v2 both should see.                                           *)
(***************************************************************************)
EXTENDS Integers, FiniteSets, FiniteSetsExt

CONSTANTS
  Missing, Blocked,   \* no report, no write to do; evidence that does not pass
  Sessions,           \* shadow sessions (all of one trading date)
  LastTime,           \* bound: units of time
  MinDuration,        \* CutoverPolicy.min_session_duration_seconds
  Policies,           \* "default", "hold" (hold_legacy_retirement), "relaxed"
  Faults,             \* counters of a process that must be 0 in its health
  Zones               \* FALSE: session times are written without a time zone

ASSUME CutoverAssumption ==
  /\ LastTime \in Nat /\ MinDuration \in Nat \ {0}
  /\ Policies \subseteq {"default", "hold", "relaxed"}
  /\ Faults \subseteq {"rejected", "dead_letter", "spooled", "redis", "sink", "hydration"}
  /\ Zones \subseteq BOOLEAN

VARIABLES
  now,            \* time
  runtime,        \* the process: up, started, lastTick, faults counted and events
                  \* emitted since, quiet while no events reach it
  legacyOn,       \* legacy is running
  legacyLog,      \* times at which legacy has published an event
  stream,         \* session -> its files: metadata, legacy and v2 events
  report,         \* session -> its report in the reports directory
  readiness, env, health, frontend, decommission, retirement, \* the files
  writing,        \* what an interruptible finalize has yet to write
  hurt            \* history: times at which v2 was down or lost an event or a
                  \* write (a failed hydration loses neither)

files == <<readiness, env, health, frontend, decommission, retirement>>
vars == <<now, runtime, legacyOn, legacyLog, stream, report, files, writing, hurt>>

Time == 0..LastTime
Never == -1
NoFiles == [started |-> Never, zoned |-> TRUE, count |-> 0, legacy |-> {}, v2 |-> {}, reset |-> FALSE]

NotRunning == [up |-> FALSE, started |-> Never, lastTick |-> Never, faults |-> {},
               worked |-> FALSE, quiet |-> FALSE]

\* source_coverage_seconds_for: from the first event to the last.
Coverage(times) == IF times = {} THEN 0 ELSE Max(times) - Min(times)

\* iso_datetime_is_before: a time with a zone and one without are never before
\* each other (the TypeError of the comparison is caught and means no).
Before(s, zs, t, zt) == zs = zt /\ s < t

Init ==
  /\ now = 0
  /\ runtime = NotRunning
  /\ legacyOn = TRUE
  /\ legacyLog = {}
  /\ stream = [s \in Sessions |-> NoFiles]
  /\ report = [s \in Sessions |-> Missing]
  /\ readiness = Blocked /\ env = Blocked /\ health = Blocked
  /\ frontend = Blocked /\ decommission = Blocked /\ retirement = Blocked
  /\ writing = Missing
  /\ hurt = {}

-----------------------------------------------------------------------------
(* The runtime, legacy and the recorder of the shadow session.             *)

\* A process starts.  Its counters begin at 0, except that the spool file the
\* last one left is read again.
Boot ==
  /\ ~runtime.up
  /\ runtime' = [runtime EXCEPT !.up = TRUE, !.started = now]
  /\ UNCHANGED <<now, legacyOn, legacyLog, stream, report, files, writing, hurt>>

Crash ==
  /\ runtime.up
  /\ runtime' = [NotRunning EXCEPT !.faults = runtime.faults \cap {"spooled"}]
  /\ hurt' = hurt \cup {now}
  /\ UNCHANGED <<now, legacyOn, legacyLog, stream, report, files, writing>>

\* replay_kafka_spool has published what was in the spool.
ReplaySpool ==
  /\ ~runtime.up
  /\ "spooled" \in runtime.faults
  /\ runtime' = [runtime EXCEPT !.faults = @ \ {"spooled"}]
  /\ UNCHANGED <<now, legacyOn, legacyLog, stream, report, files, writing, hurt>>

\* A recorder for session s is made: it writes the metadata again and appends
\* to the event files it finds.
StartRecording(s) ==
  /\ runtime.up
  /\ \E z \in Zones : stream' = [stream EXCEPT ![s].started = now, ![s].zoned = z]
  /\ UNCHANGED <<now, runtime, legacyOn, legacyLog, report, files, writing, hurt>>

\* The sessions recorded: those whose recorder this process was given.
Recorded(s) == stream[s].started # Never /\ stream[s].started >= runtime.started

\* What one unit of time is for the runtime: it handles the event in a tick
\* (record_v2_runtime_tick writes down what it emits), counts a fault instead,
\* receives nothing, or is down.
Handle ==
  /\ runtime.up
  /\ runtime' = [runtime EXCEPT !.lastTick = now', !.worked = TRUE, !.quiet = FALSE]
  /\ stream' = [s \in Sessions |-> IF Recorded(s)
                                   THEN [stream[s] EXCEPT !.v2 = @ \cup {now'}]
                                   ELSE stream[s]]
  /\ UNCHANGED hurt

Fault ==
  /\ runtime.up
  /\ \E f \in Faults :
       /\ runtime' = [runtime EXCEPT !.lastTick = now', !.faults = @ \cup {f}]
       /\ hurt' = IF f = "hydration" THEN hurt ELSE hurt \cup {now'}
  /\ UNCHANGED stream

\* evict_expired deletes the runtime of a symbol nobody holds, and the failed
\* hydrations it has counted with it.
Evict ==
  /\ runtime.up
  /\ "hydration" \in runtime.faults
  /\ runtime' = [runtime EXCEPT !.faults = @ \ {"hydration"}]
  /\ UNCHANGED <<now, legacyOn, legacyLog, stream, report, files, writing, hurt>>

Quiet ==
  /\ runtime.up
  /\ runtime' = [runtime EXCEPT !.lastTick = now', !.quiet = TRUE]
  /\ UNCHANGED <<stream, hurt>>

Down ==
  /\ ~runtime.up
  /\ hurt' = hurt \cup {now'}
  /\ UNCHANGED <<runtime, stream>>

Advance ==
  /\ now < LastTime
  /\ now' = now + 1
  /\ legacyLog' = IF legacyOn THEN legacyLog \cup {now'} ELSE legacyLog
  /\ Handle \/ Fault \/ Quiet \/ Down
  /\ UNCHANGED <<legacyOn, report, files, writing>>

\* Legacy is switched off, or on again in the rollback window.
SwitchLegacy ==
  /\ legacyOn' = ~legacyOn
  /\ UNCHANGED <<now, runtime, legacyLog, stream, report, files, writing, hurt>>

\* The events are appended to the session's file (after reset: to an empty one),
\* and `from` is written into its metadata as the start of the session.
Imported(old, from, reset, events) ==
  [old EXCEPT !.started = from,
              !.count   = (IF reset THEN 0 ELSE @) + Cardinality(events),
              !.legacy  = (IF reset THEN {} ELSE @) \cup events,
              !.reset   = @ \/ (reset /\ old.legacy # {})]

\* import-legacy of the events legacy has logged since `from`.
ImportLegacy(s) ==
  \E from \in 0..now, reset \in BOOLEAN :
    LET events == {t \in legacyLog : t >= from} IN
      /\ events # {}
      /\ stream[s].count + Cardinality(events) <= LastTime
      /\ stream' = [stream EXCEPT ![s] = Imported(@, from, reset, events)]
      /\ UNCHANGED <<now, runtime, legacyOn, legacyLog, report, files, writing, hurt>>

-----------------------------------------------------------------------------
(* Reports and readiness.                                                  *)

\* compare_event_streams: as many events in v2 as in legacy (the ratios allow
\* no difference at this size) and nothing missing.
StreamsMatch(f) == Cardinality(f.v2) = f.count /\ f.v2 # {}

\* shadow_run_report_timing_errors: a session lasts.
Timed(f, finished) == finished > f.started

\* build_shadow_run_report.  (A failing performance blocks like a mismatch.)
BuiltReport(f, finished) ==
  IF StreamsMatch(f) /\ Timed(f, finished)
  THEN [started |-> f.started, finished |-> finished, zoned |-> f.zoned, count |-> f.count,
        legacy |-> Coverage(f.legacy), v2 |-> Coverage(f.v2)]
  ELSE Blocked

\* Mutant of Acceptable: the default policy forgets the minimum duration.
AcceptableShort(r, policy) ==
  r \notin {Missing, Blocked} /\ r.legacy + 1 >= r.finished - r.started /\ r.v2 + 1 >= r.finished - r.started

\* blockers_for_report is empty.  A tenth of the duration need not be covered:
\* the unit before the first event.
Covers(coverage, r) == coverage + 1 >= r.finished - r.started
Acceptable(r, policy) ==
  /\ r \notin {Missing, Blocked}
  /\ Covers(r.legacy, r) /\ Covers(r.v2, r)
  /\ policy = "relaxed" \/ r.finished - r.started >= MinDuration

AcceptedIds(policy) == {s \in Sessions : Acceptable(report[s], policy)}

\* Mutant of Readiness: no session has to be accepted.
ReadinessOfNone(policy) == [accepted |-> AcceptedIds(policy), policy |-> policy]

\* evaluate_cutover_readiness.
Readiness(policy) ==
  IF AcceptedIds(policy) = {} THEN Blocked
  ELSE [accepted |-> AcceptedIds(policy), policy |-> policy]

\* finalize: the report, then the readiness of all reports, then the
\* environment of the frontend; a write that fails ends the command between.
SaveReport(s) ==
  /\ writing = Missing
  /\ stream[s].started # Never
  /\ \E finished \in Time, policy \in Policies :
       /\ report' = [report EXCEPT ![s] = BuiltReport(stream[s], finished)]
       /\ writing' = [file |-> "readiness", policy |-> policy]
  /\ UNCHANGED <<now, runtime, legacyOn, legacyLog, stream, files, hurt>>

WriteReadiness ==
  /\ writing # Missing /\ writing.file = "readiness"
  /\ readiness' = Readiness(writing.policy)
  /\ writing' = [writing EXCEPT !.file = "env"]
  /\ UNCHANGED <<now, runtime, legacyOn, legacyLog, stream, report, env, health,
                 frontend, decommission, retirement, hurt>>

WriteEnv ==
  /\ writing # Missing /\ writing.file = "env"
  /\ env' = readiness
  /\ writing' = Missing
  /\ UNCHANGED <<now, runtime, legacyOn, legacyLog, stream, report, readiness, health,
                 frontend, decommission, retirement, hurt>>

FinalizeFails ==
  /\ writing # Missing
  /\ writing' = Missing
  /\ UNCHANGED <<now, runtime, legacyOn, legacyLog, stream, report, files, hurt>>

-----------------------------------------------------------------------------
(* The other pieces of evidence.                                           *)

\* build_runtime_health_snapshot and evaluate_runtime_health: a snapshot of a
\* running process that has ticked, emitted something and counted no fault,
\* and that receives events at the moment.
QueuesClean == "rejected" \notin runtime.faults
WorkersClean == "dead_letter" \notin runtime.faults
ProducerClean == "spooled" \notin runtime.faults
RedisClean == "redis" \notin runtime.faults
ManagerClean == "sink" \notin runtime.faults
RuntimesClean == "hydration" \notin runtime.faults
SupervisorClean == runtime.up /\ runtime.lastTick # Never
ActivityPresent == runtime.worked
FreshnessClean == ~runtime.quiet

HealthSnapshot ==
  IF /\ SupervisorClean /\ ActivityPresent /\ FreshnessClean
     /\ QueuesClean /\ WorkersClean /\ ProducerClean
     /\ RedisClean /\ ManagerClean /\ RuntimesClean
  THEN [started |-> runtime.started, lastTick |-> runtime.lastTick, generated |-> now]
  ELSE Blocked

WriteHealth ==
  /\ runtime.up
  /\ health' = HealthSnapshot
  /\ UNCHANGED <<now, runtime, legacyOn, legacyLog, stream, report, readiness, env,
                 frontend, decommission, retirement, writing, hurt>>

\* validate_frontend_cutover_readiness_artifact: the numbers of the policy
\* must be the default ones, retirement may be held.
SelectsV2(r) == r # Blocked /\ r.policy # "relaxed"

\* evaluate_frontend_deployment of the environment the frontend was built with.
VerifyFrontend ==
  /\ frontend' = IF SelectsV2(env) THEN [readiness |-> env, verified |-> now] ELSE Blocked
  /\ UNCHANGED <<now, runtime, legacyOn, legacyLog, stream, report, readiness, env, health,
                 decommission, retirement, writing, hurt>>

\* evaluate_legacy_decommission of what the operator has just seen of legacy.
ObserveLegacy ==
  /\ decommission' = IF legacyOn THEN Blocked ELSE [observed |-> now]
  /\ UNCHANGED <<now, runtime, legacyOn, legacyLog, stream, report, readiness, env, health,
                 frontend, retirement, writing, hurt>>

\* evaluate_legacy_retirement: the flags come from the files as they are, the
\* readiness that was read is summarised.
Retire ==
  /\ retirement' =
       IF readiness # Blocked /\ readiness.policy # "hold"
          /\ frontend # Blocked /\ decommission # Blocked
       THEN [accepted |-> readiness.accepted, approved |-> now]
       ELSE Blocked
  /\ UNCHANGED <<now, runtime, legacyOn, legacyLog, stream, report, readiness, env, health,
                 frontend, decommission, writing, hurt>>

-----------------------------------------------------------------------------
(* The bundle.                                                             *)

\* validate_shadow_run_reports finds nothing: every report there is has passed.
SchemaClean(s) == report[s] # Blocked

\* shadow_run_source_file_audits: the files hold as many events as the report.
AuditClean(s) ==
  report[s] \notin {Missing, Blocked} =>
    /\ stream[s].count = report[s].count
    /\ Cardinality(stream[s].v2) = report[s].count

ReportsPass ==
  /\ AcceptedIds("default") # {}
  /\ \A s \in Sessions : SchemaClean(s) /\ AuditClean(s)

\* Mutant of WindowCovered: the start of the process is not compared.
WindowEndCovered(s) ==
  /\ ~Before(health.lastTick, TRUE, report[s].finished, report[s].zoned)
  /\ ~Before(health.generated, TRUE, report[s].finished, report[s].zoned)

\* runtime_shadow_window_coverage finds nothing.
WindowCovered(s) ==
  /\ ~Before(report[s].started, report[s].zoned, health.started, TRUE)
  /\ ~Before(health.lastTick, TRUE, report[s].finished, report[s].zoned)
  /\ ~Before(health.generated, TRUE, report[s].finished, report[s].zoned)

HealthPasses ==
  /\ health # Blocked
  /\ \A s \in AcceptedIds("default") : WindowCovered(s)

ReadinessPasses ==
  /\ readiness # Blocked
  /\ readiness.policy = "default"
  /\ readiness.accepted \subseteq AcceptedIds("default")

\* frontend_verified_before_shadow_report_finish finds nothing.
VerifiedAfter(s) == ~Before(frontend.verified, TRUE, report[s].finished, report[s].zoned)

FrontendPasses ==
  /\ frontend # Blocked
  /\ frontend.readiness = readiness
  /\ \A s \in AcceptedIds("default") : VerifiedAfter(s)

\* Mutant of DecommissionPasses: when legacy was seen off does not matter.
DecommissionEver == decommission # Blocked

DecommissionPasses ==
  /\ decommission # Blocked
  /\ ~Before(decommission.observed, TRUE, frontend.verified, TRUE)

RetirementPasses ==
  /\ retirement # Blocked
  /\ retirement.accepted = readiness.accepted
  /\ ~Before(retirement.approved, TRUE, decommission.observed, TRUE)

\* evaluate_evidence_bundle passes.
BundlePasses ==
  /\ ReportsPass /\ HealthPasses /\ ReadinessPasses
  /\ FrontendPasses /\ DecommissionPasses /\ RetirementPasses

-----------------------------------------------------------------------------
Next ==
  \/ Boot \/ Crash \/ ReplaySpool \/ Evict \/ Advance \/ SwitchLegacy
  \/ \E s \in Sessions : StartRecording(s) \/ ImportLegacy(s) \/ SaveReport(s)
  \/ WriteReadiness \/ WriteEnv \/ FinalizeFails
  \/ WriteHealth \/ VerifyFrontend \/ ObserveLegacy \/ Retire

Spec == Init /\ [][Next]_vars

-----------------------------------------------------------------------------
(* Properties.                                                             *)

Reports == [started : Time, finished : Time, zoned : BOOLEAN, count : 1..LastTime,
            legacy : Time, v2 : Time]
Readinesses == [accepted : (SUBSET Sessions) \ {{}}, policy : Policies]

\* Every file is missing, blocked or a complete piece of evidence, and a
\* history never speaks of a time to come.
TypeOK ==
  /\ now \in Time
  /\ runtime \in [up : BOOLEAN, started : Time \cup {Never}, lastTick : Time \cup {Never},
                  faults : SUBSET Faults, worked : BOOLEAN, quiet : BOOLEAN]
  /\ legacyOn \in BOOLEAN
  /\ legacyLog \subseteq 0..now /\ hurt \subseteq 0..now
  /\ stream \in [Sessions -> [started : Time \cup {Never}, zoned : BOOLEAN, count : 0..LastTime,
                              legacy : SUBSET (0..now), v2 : SUBSET (0..now), reset : BOOLEAN]]
  /\ report \in [Sessions -> Reports \cup {Missing, Blocked}]
  /\ readiness \in Readinesses \cup {Blocked}
  /\ env \in Readinesses \cup {Blocked}
  /\ health \in [started : 0..now, lastTick : 0..now, generated : 0..now] \cup {Blocked}
  /\ frontend \in [readiness : Readinesses, verified : 0..now] \cup {Blocked}
  /\ decommission \in [observed : 0..now] \cup {Blocked}
  /\ retirement \in [accepted : SUBSET Sessions, approved : 0..now] \cup {Blocked}
  /\ writing \in [file : {"readiness", "env"}, policy : Policies] \cup {Missing}

\* A bundle that passes proves what it is asked to prove of v2: one process
\* ran from before the start of an accepted session to after its end and lost
\* no event and no write in between, whatever crashes and faults there were
\* before and after (of sessions whose times are written with a zone; of failed
\* hydrations it proves only that none is counted when the health is written).
RuntimeCovered ==
  BundlePasses =>
    \A s \in AcceptedIds("default") :
      report[s].zoned =>
        \A t \in hurt : t <= report[s].started \/ t >= report[s].finished

\* A bundle that passes rests on sessions that were really long enough: the
\* events now in the files of every session the readiness accepts span the
\* minimum duration in both streams, whichever policy the readiness was
\* computed with at first and whatever was imported since.
LongEnough ==
  BundlePasses =>
    \A s \in readiness.accepted :
      ~stream[s].reset =>
        /\ Coverage(stream[s].v2) + 1 >= MinDuration
        /\ Coverage(stream[s].legacy) + 1 >= MinDuration

\* A bundle that passes was put together in the order of a cutover, although
\* no check compares its two ends: the retirement was approved when every
\* accepted session had ended, legacy had been seen off and the frontend ran v2.
InOrder ==
  BundlePasses =>
    /\ retirement.approved >= frontend.verified
    /\ \A s \in readiness.accepted :
         report[s].zoned => /\ retirement.approved >= report[s].finished
                            /\ decommission.observed >= report[s].finished
=============================================================================
