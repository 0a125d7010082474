------------------------- MODULE SmokeEvidenceProofs -------------------------
(***************************************************************************)
(* Theorems about SmokeEvidence for any set of machines and any bound on   *)
(* time, on exports and on commands: what a package that the verifier of   *)
(* the evidence bundle accepts was computed from, and that it accepts what *)
(* the package command made.                                               *)
(***************************************************************************)
EXTENDS SmokeEvidence, FiniteSetTheorems, TLAPS

-----------------------------------------------------------------------------
(* The inductive invariant.                                                *)

\* Exports and connections are counted.
FiniteInv ==
    /\ IsFiniteSet(files.artifacts)
    /\ Present(backend) => IsFiniteSet(backend)

\* No health file is of a time to come.
TimeInv ==
    /\ Passed(files.health) => files.health.at <= clock
    /\ Passed(files.observation) => files.observation.health.at <= clock

\* The observation is one of the files beside it, and passes; the health file
\* may have been written again.
Recorded(dir) ==
    Passed(dir.observation) =>
        /\ SmokePasses(dir.observation)
        /\ dir.observation.artifacts = dir.artifacts
        /\ dir.observation.workflow = dir.workflow
        /\ dir.observation.preflight = dir.preflight
        /\ Passed(dir.health) => dir.observation.health.at <= dir.health.at

\* The evidence is that of the observation beside it.
Judged(dir) ==
    Passed(dir.evidence) =>
        /\ Passed(dir.observation)
        /\ dir.evidence = [at |-> dir.observation.at, of |-> dir.observation]
        /\ Recorded(dir)

\* Between the files a command of finalize writes only the health file changes.
ObservedInv ==
    op = "observed" => files.observation \in Observations \cup {Failing} /\ Recorded(files)

\* A manifest that is fresh was written after the evidence, and nothing since.
JudgedInv == op = "judged" \/ listed = Names => Judged(files)

\* So was one that is fresh in the package; what is the same in the directory
\* is the same.
ZipInv ==
    Present(zip) =>
        /\ zip.listed => Judged(zip.files)
        /\ "evidence" \in same => zip.files.evidence = files.evidence
        /\ "preflight" \in same => zip.files.preflight = files.preflight

\* What the package command has asked of the files.
Packageable(dir) ==
    /\ ImportsCover(dir)
    /\ Passed(dir.evidence)
    /\ PackagePreflightClean(dir)

PackingInv == op = "packing" => Packageable(files)

\* It holds of what was zipped, and a manifest that was fresh then and is the
\* same still names the files that are the same.
PackedInv ==
    /\ op = "zipped" \/ described => Present(zip)
    /\ Present(zip) =>
         /\ Packageable(zip.files)
         /\ zip.listed /\ "manifest" \in same => same \ {"manifest"} \subseteq listed

IInv ==
    /\ TypeOK /\ FiniteInv /\ TimeInv
    /\ ObservedInv /\ JudgedInv /\ ZipInv
    /\ PackingInv /\ PackedInv

-----------------------------------------------------------------------------
(* Types.                                                                  *)

LEMMA TimesAreNumbers == LastTime \in Nat /\ Times \subseteq Nat
BY SmokeAssumption DEF Times

LEMMA InitTypes == Init => TypeOK /\ FiniteInv
<1> SUFFICES ASSUME Init PROVE TypeOK /\ FiniteInv
  OBVIOUS
<1>1. 0 \in Times /\ 0 \in 0 .. MaxCommands
  BY SmokeAssumption DEF Times
<1>2. files \in Directories
  BY <1>1 DEF Init, Directories, Preflights
<1>3. IsFiniteSet(files.artifacts)
  BY FS_EmptySet DEF Init
<1> QED  BY <1>1, <1>2, <1>3 DEF Init, TypeOK, FiniteInv, Present

\* One more file of each trader's machine.
LEMMA ImportTypes ==
  ASSUME TypeOK, FiniteInv, NEW traders \in (SUBSET Machines) \ {{}}, Import(traders)
  PROVE  /\ files' \in Directories
         /\ IsFiniteSet(files'.artifacts)
<1>1. PICK performance \in Performance, imported \in BOOLEAN :
        files' = [files EXCEPT !.artifacts =
                    files.artifacts \cup {Exported(m, performance, imported) : m \in traders}]
  BY DEF Import, Write
<1> DEFINE new == {Exported(m, performance, imported) : m \in traders}
<1>2. IsFiniteSet(traders)
  BY FS_Subset DEF Import, FiniteInv
<1>3. IsFiniteSet(new)
  <2> DEFINE f == [m \in traders |-> Exported(m, performance, imported)]
  <2>1. f \in Surjection(traders, new)
    BY DEF Surjection
  <2> HIDE DEF f, new
  <2> QED  BY <1>2, <2>1, FS_Surjection
<1>4. new \subseteq Artifacts
  <2> SUFFICES ASSUME NEW m \in traders  PROVE Exported(m, performance, imported) \in Artifacts
    OBVIOUS
  <2> DEFINE mine == {a \in files.artifacts : a.machine = m}
  <2>1. IsFiniteSet(mine) /\ Cardinality(mine) <= Cardinality(files.artifacts)
    BY FS_Subset DEF FiniteInv
  <2>2. Cardinality(mine) \in Nat /\ Cardinality(files.artifacts) \in Nat
    BY <2>1, FS_CardinalityType DEF FiniteInv
  <2>3. Cardinality(traders) \in Nat /\ Cardinality(traders) # 0
    BY <1>2, FS_CardinalityType, FS_EmptySet
  <2>4. Cardinality(files.artifacts) + Cardinality(traders) <= MaxArtifacts
    BY DEF Import
  <2>5. Copies(m) = Cardinality(mine)
    BY DEF Copies
  <2> HIDE DEF mine
  <2>6. Copies(m) + 1 \in 1 .. MaxArtifacts
    BY <2>1, <2>2, <2>3, <2>4, <2>5, SmokeAssumption
  <2>7. clock \in Times /\ m \in Machines /\ performance \in BOOLEAN
    BY SmokeAssumption DEF TypeOK
  <2> QED  BY <2>6, <2>7 DEF Exported, Artifacts
<1> HIDE DEF new
<1>5. files.artifacts \cup new \subseteq Artifacts
  BY <1>4 DEF TypeOK, Directories
<1>6. files' = [files EXCEPT !.artifacts = files.artifacts \cup new]
  BY <1>1 DEF new
<1>7. files' \in Directories /\ files'.artifacts = files.artifacts \cup new
  BY <1>5, <1>6 DEF TypeOK, Directories
<1>8. IsFiniteSet(files.artifacts \cup new)
  BY <1>3, FS_Union DEF FiniteInv
<1> QED  BY <1>7, <1>8

LEMMA ObservationType ==
  ASSUME NEW dir \in Directories, NEW time \in Times, Present(dir.health)
  PROVE  Observation(dir, time) \in Observations \cup {Failing}
<1> DEFINE o == [at |-> time, artifacts |-> dir.artifacts, workflow |-> dir.workflow,
                 health |-> dir.health, preflight |-> dir.preflight]
<1>1. CASE SmokePasses(o)
  <2>1. Passed(dir.health)
    BY <1>1 DEF SmokePasses
  <2>2. dir.health \in Healths
    BY <2>1 DEF Directories, Passed
  <2>3. o \in Observations
    BY <2>2 DEF Directories, Observations
  <2> QED  BY <1>1, <2>3 DEF Observation
<1>2. CASE ~SmokePasses(o)
  BY <1>2 DEF Observation
<1> QED  BY <1>1, <1>2

\* A command gives a number its bound allows.
LEMMA CommandTypes ==
  ASSUME TypeOK, Command
  PROVE  given' \in 0 .. MaxCommands /\ op = "idle"
BY SmokeAssumption DEF TypeOK, Command

LEMMA WriteTypes ==
  ASSUME TypeOK, NEW names, NEW dir \in Directories, Write(names, dir)
  PROVE  files' \in Directories /\ listed' \subseteq Names /\ same' \subseteq Hashed
BY DEF Write, TypeOK

LEMMA HealthTypes ==
  ASSUME TypeOK, FiniteInv, NEW declared \in Backends, NEW health \in HealthFiles(declared),
         Write({"health"}, [files EXCEPT !.health = health])
  PROVE  /\ files' \in Directories /\ listed' \subseteq Names /\ same' \subseteq Hashed
         /\ IsFiniteSet(files'.artifacts)
         /\ Passed(files'.health) => files'.health.at <= clock
         /\ files'.observation = files.observation
<1>1. health \in Healths \cup {Failing} /\ (health # Failing => health.at = clock)
  BY DEF HealthFiles, Healths, Backends, TypeOK
<1> DEFINE dir == [files EXCEPT !.health = health]
<1>2. /\ dir \in Directories /\ dir.artifacts = files.artifacts
      /\ dir.observation = files.observation /\ dir.health = health
  BY <1>1 DEF TypeOK, Directories
<1> HIDE DEF dir
<1>3. Write({"health"}, dir)
  BY DEF dir
<1>4. files' = dir
  BY <1>3 DEF Write
<1>5. Passed(health) => health.at = clock /\ clock <= clock
  <2>1. clock \in Nat
    BY TimesAreNumbers DEF TypeOK
  <2> QED  BY <1>1, <2>1 DEF Passed
<1>6. files' \in Directories /\ listed' \subseteq Names /\ same' \subseteq Hashed
  BY <1>2, <1>3, WriteTypes
<1> QED  BY <1>2, <1>4, <1>5, <1>6 DEF FiniteInv

\* What the types and the times say that a step of the operator does not touch.
Others == UNCHANGED <<clock, backend, draining>>

LEMMA OthersKeep ==
  ASSUME TypeOK, FiniteInv, Others, files' \in Directories, IsFiniteSet(files'.artifacts)
  PROVE  /\ clock' \in Times
         /\ backend' \in Backends \cup {Missing}
         /\ draining' \in Backends \cup {Missing}
         /\ FiniteInv'
BY DEF TypeOK, FiniteInv, Others, Present

LEMMA StepTypes ==
  ASSUME TypeOK, FiniteInv, TimeInv, ObservedInv, [Next]_vars
  PROVE  TypeOK' /\ FiniteInv' /\ TimeInv'
<1>0. files \in Directories /\ clock \in Times /\ clock \in Nat
  BY TimesAreNumbers DEF TypeOK
<1>1. CASE UNCHANGED vars
  BY <1>1 DEF vars, TypeOK, FiniteInv, TimeInv, Present, Passed
<1>2. CASE Tick
  <2>1. clock' \in Times /\ clock <= clock'
    BY <1>0, <1>2, SmokeAssumption DEF Tick, Times
  <2>2. TypeOK' /\ FiniteInv'
    BY <1>2, <2>1 DEF Tick, TypeOK, FiniteInv, Present
  <2>3. Passed(files.health) => files.health.at \in Nat
    BY <1>0, TimesAreNumbers DEF Directories, Healths, Passed
  <2>4. Passed(files.observation) => files.observation.health.at \in Nat
    BY <1>0, TimesAreNumbers DEF Directories, Observations, Healths, Passed
  <2>5. files' = files /\ clock' \in Nat
    BY <1>2, <2>1, TimesAreNumbers DEF Tick
  <2>6. TimeInv'
    BY <1>0, <2>1, <2>3, <2>4, <2>5 DEF TimeInv, Passed
  <2> QED  BY <2>2, <2>6
<1>3. CASE BackendStarts \/ BackendReports \/ BackendEnds
  <2>0. PICK declared \in Backends : \E health \in HealthFiles(declared) :
          Write({"health"}, [files EXCEPT !.health = health])
    <3>1. CASE BackendStarts
      BY <3>1 DEF BackendStarts, Backends
    <3>2. CASE BackendReports
      BY <3>2 DEF BackendReports, Present, TypeOK
    <3>3. CASE BackendEnds
      BY <3>3 DEF BackendEnds, Present, TypeOK
    <3> QED  BY <1>3, <3>1, <3>2, <3>3
  <2>1. PICK health \in HealthFiles(declared) :
          Write({"health"}, [files EXCEPT !.health = health])
    BY <2>0
  <2>2. /\ files' \in Directories /\ listed' \subseteq Names /\ same' \subseteq Hashed
        /\ IsFiniteSet(files'.artifacts)
        /\ Passed(files'.health) => files'.health.at <= clock
        /\ files'.observation = files.observation
    BY <2>1, HealthTypes
  <2>3. UNCHANGED <<clock, zip, described, op, given>>
    BY <1>3 DEF BackendStarts, BackendReports, BackendEnds
  <2>4. /\ backend' \in Backends \cup {Missing} /\ draining' \in Backends \cup {Missing}
        /\ Present(backend') => IsFiniteSet(backend')
    BY <1>3, FS_EmptySet
    DEF BackendStarts, BackendReports, BackendEnds, TypeOK, FiniteInv, Backends
  <2>5. TypeOK' /\ FiniteInv'
    BY <2>2, <2>3, <2>4 DEF TypeOK, FiniteInv
  <2>6. TimeInv'
    BY <2>2, <2>3 DEF TimeInv, Passed
  <2> QED  BY <2>5, <2>6
<1>4. CASE BackendStops
  BY <1>4 DEF BackendStops, TypeOK, FiniteInv, TimeInv, Present, Passed, Backends
<1>5. CASE BackendKilled
  BY <1>5 DEF BackendKilled, TypeOK, FiniteInv, TimeInv, Present, Passed
<1>6. ASSUME NEW m \in Machines, Connects(m)  PROVE TypeOK' /\ FiniteInv' /\ TimeInv'
  <2>1. backend \in Backends /\ IsFiniteSet(backend)
    BY <1>6 DEF Connects, TypeOK, FiniteInv, Present
  <2>2. backend' \in Backends /\ IsFiniteSet(backend')
    BY <1>6, <2>1, FS_AddElement DEF Connects, Backends
  <2> QED  BY <1>6, <2>2 DEF Connects, TypeOK, FiniteInv, TimeInv, Present, Passed
<1>7. ASSUME NEW traders \in (SUBSET Machines) \ {{}}, Import(traders)
      PROVE  TypeOK' /\ FiniteInv' /\ TimeInv'
  <2>1. files' \in Directories /\ IsFiniteSet(files'.artifacts)
    BY <1>7, ImportTypes
  <2>2. listed' \subseteq Names /\ same' \subseteq Hashed
    BY <1>7 DEF Import, Write, TypeOK
  <2>3. files'.health = files.health /\ files'.observation = files.observation
    BY <1>0, <1>7 DEF Import, Write, Directories
  <2>4. Others /\ UNCHANGED <<zip, described, op>> /\ given' \in 0 .. MaxCommands
    BY <1>7, CommandTypes DEF Import, Others
  <2>5. TypeOK' /\ FiniteInv'
    BY <2>1, <2>2, <2>4, OthersKeep DEF TypeOK
  <2> QED  BY <2>3, <2>4, <2>5 DEF TimeInv, Others, Passed
<1>8. CASE Prepare \/ VerifyServices \/ RecordWorkflow
  <2>1. \E names, dir : /\ Write(names, dir) /\ dir \in Directories
                        /\ dir.artifacts = files.artifacts
                        /\ dir.health = files.health /\ dir.observation = files.observation
    <3>1. CASE Prepare
      <4> DEFINE preflight == [at |-> clock, checks |-> Missing]
                 dir == [files EXCEPT !.workflow = Missing, !.preflight = preflight]
      <4>1. preflight \in Preflights
        BY <1>0 DEF Preflights
      <4>2. Write({"preflight", "workflow"}, dir)
        BY <3>1 DEF Prepare
      <4> HIDE DEF preflight
      <4>3. dir \in Directories /\ dir.artifacts = files.artifacts
            /\ dir.health = files.health /\ dir.observation = files.observation
        BY <1>0, <4>1 DEF Directories
      <4> QED  BY <4>2, <4>3
    <3>2. CASE VerifyServices
      <4> DEFINE checks == [at |-> clock, passed |-> Present(backend)]
                 dir == [files EXCEPT !.service = checks, !.preflight.checks = checks]
      <4>1. checks \in Checks
        BY <1>0 DEF Checks, Present
      <4> HIDE DEF checks
      <4>2. files.preflight \in Preflights
        BY <1>0 DEF Directories
      <4>3. [files.preflight EXCEPT !.checks = checks] \in Preflights
        BY <4>1, <4>2 DEF Preflights
      <4>4. dir \in Directories /\ dir.artifacts = files.artifacts
            /\ dir.health = files.health /\ dir.observation = files.observation
        BY <1>0, <4>1, <4>3 DEF Directories
      <4>5. Write({"preflight", "service"}, dir)
        BY <3>2 DEF VerifyServices, checks
      <4> QED  BY <4>4, <4>5
    <3>3. CASE RecordWorkflow
      BY <1>0, <3>3 DEF RecordWorkflow, Directories
    <3> QED  BY <1>8, <3>1, <3>2, <3>3
  <2>2. /\ files' \in Directories /\ listed' \subseteq Names /\ same' \subseteq Hashed
        /\ files'.artifacts = files.artifacts
        /\ files'.health = files.health /\ files'.observation = files.observation
    BY <2>1 DEF Write, TypeOK
  <2>3. Others /\ UNCHANGED <<zip, described, op>> /\ given' \in 0 .. MaxCommands
    BY <1>8, CommandTypes DEF Prepare, VerifyServices, RecordWorkflow, Others
  <2>4. TypeOK' /\ FiniteInv'
    BY <2>2, <2>3, OthersKeep DEF TypeOK, FiniteInv
  <2> QED  BY <2>2, <2>3, <2>4 DEF TimeInv, Others, Passed
<1>9. CASE FinalizeStarts
  <2>1. ASSUME NEW observed \in Times, InputsComplete(files), op' = "observed",
               Write({"observation"},
                     [files EXCEPT !.observation = Observation(files, observed)])
        PROVE  TypeOK' /\ FiniteInv' /\ TimeInv'
    <3> DEFINE o == Observation(files, observed)
    <3>1. o \in Observations \cup {Failing}
      BY <1>0, <2>1, ObservationType DEF InputsComplete
    <3>2. Passed(o) => Passed(files.health) /\ o.health = files.health
      BY DEF Observation, SmokePasses, Passed
    <3>3. files' = [files EXCEPT !.observation = o]
      BY <2>1 DEF Write
    <3> HIDE DEF o
    <3>4. /\ files' \in Directories /\ files'.artifacts = files.artifacts
          /\ files'.health = files.health /\ files'.observation = o
      BY <1>0, <3>1, <3>3 DEF Directories
    <3>5. /\ listed' \subseteq Names /\ same' \subseteq Hashed /\ op' = "observed"
      BY <2>1 DEF Write, TypeOK
    <3>6. Others /\ UNCHANGED <<zip, described>> /\ given' \in 0 .. MaxCommands
      BY <1>9, CommandTypes DEF FinalizeStarts, Others
    <3>7. TypeOK' /\ FiniteInv'
      BY <3>4, <3>5, <3>6, OthersKeep DEF TypeOK, FiniteInv
    <3> QED  BY <3>2, <3>4, <3>6, <3>7 DEF TimeInv, Others, Passed
  <2>2. CASE /\ Write({"evidence"}, [files EXCEPT !.evidence = Failing])
             /\ op' = "judged"
    <3>1. files' = [files EXCEPT !.evidence = Failing]
      BY <2>2 DEF Write
    <3>2. /\ files' \in Directories /\ files'.artifacts = files.artifacts
          /\ files'.health = files.health /\ files'.observation = files.observation
      BY <1>0, <3>1 DEF Directories
    <3>3. /\ listed' \subseteq Names /\ same' \subseteq Hashed /\ op' = "judged"
      BY <2>2 DEF Write, TypeOK
    <3>4. Others /\ UNCHANGED <<zip, described>> /\ given' \in 0 .. MaxCommands
      BY <1>9, CommandTypes DEF FinalizeStarts, Others
    <3>5. TypeOK' /\ FiniteInv'
      BY <3>2, <3>3, <3>4, OthersKeep DEF TypeOK, FiniteInv
    <3> QED  BY <3>2, <3>4, <3>5 DEF TimeInv, Others, Passed
  <2> QED  BY <1>9, <2>1, <2>2 DEF FinalizeStarts
<1>10. CASE FinalizeJudges
  <2>1. files.observation \in Observations \cup {Failing}
    BY <1>10 DEF FinalizeJudges, ObservedInv
  <2>2. Evaluated(files.observation) \in Evidences \cup {Failing}
    BY <2>1 DEF Evaluated, Evidences, Observations
  <2>3. files' = [files EXCEPT !.evidence = Evaluated(files.observation)]
    BY <1>10 DEF FinalizeJudges, Write
  <2>4. /\ files' \in Directories /\ files'.artifacts = files.artifacts
        /\ files'.health = files.health /\ files'.observation = files.observation
    BY <1>0, <2>2, <2>3 DEF Directories
  <2>5. /\ listed' \subseteq Names /\ same' \subseteq Hashed
        /\ Others /\ UNCHANGED <<zip, described, given>> /\ op' = "judged"
    BY <1>10 DEF FinalizeJudges, Write, TypeOK, Others
  <2>6. TypeOK' /\ FiniteInv'
    BY <2>4, <2>5, OthersKeep DEF TypeOK, FiniteInv
  <2> QED  BY <2>4, <2>5, <2>6 DEF TimeInv, Others, Passed
<1>11. CASE FinalizeLists \/ PackageStarts \/ PackageZips \/ PackageDescribes \/ Interrupted
  <2>1. files' = files /\ Others
    BY <1>11 DEF FinalizeLists, PackageStarts, PackageZips, PackageDescribes, Interrupted, Others
  <2>2. given' \in 0 .. MaxCommands
    BY <1>11, CommandTypes
    DEF FinalizeLists, PackageStarts, PackageZips, PackageDescribes, Interrupted, TypeOK
  <2>3. /\ listed' \subseteq Names /\ same' \subseteq Hashed /\ described' \in BOOLEAN
        /\ op' \in {"idle", "observed", "judged", "listed", "packing", "zipped"}
    BY <1>11
    DEF FinalizeLists, PackageStarts, PackageZips, PackageDescribes, Interrupted, TypeOK
  <2>4. zip' \in Zips \cup {Missing}
    <3>1. CASE PackageZips
      BY <1>0, <3>1 DEF PackageZips, Zips, ManifestFresh
    <3>2. CASE UNCHANGED zip
      BY <3>2 DEF TypeOK
    <3> QED
      BY <1>11, <3>1, <3>2 DEF FinalizeLists, PackageStarts, PackageDescribes, Interrupted
  <2>5. TypeOK' /\ FiniteInv'
    BY <1>0, <2>1, <2>2, <2>3, <2>4, OthersKeep DEF TypeOK, FiniteInv
  <2> QED  BY <2>1, <2>5 DEF TimeInv, Others, Passed
<1>12. ASSUME NEW kind \in Copied, CopyByHand(kind)
       PROVE  TypeOK' /\ FiniteInv' /\ TimeInv'
  <2>1. files' = [files EXCEPT !.copied = files.copied \cup {kind}]
    BY <1>12 DEF CopyByHand, Write
  <2>2. files.copied \cup {kind} \subseteq Copied
    BY <1>0 DEF Directories
  <2>3. /\ files' \in Directories /\ files'.artifacts = files.artifacts
        /\ files'.health = files.health /\ files'.observation = files.observation
    BY <1>0, <2>1, <2>2 DEF Directories
  <2>4. given' \in 0 .. MaxCommands
    BY <1>12, SmokeAssumption DEF CopyByHand, TypeOK
  <2>5. /\ listed' \subseteq Names /\ same' \subseteq Hashed
        /\ Others /\ UNCHANGED <<zip, described, op>>
    BY <1>12 DEF CopyByHand, Write, TypeOK, Others
  <2>6. TypeOK' /\ FiniteInv'
    BY <2>3, <2>4, <2>5, OthersKeep DEF TypeOK, FiniteInv
  <2> QED  BY <2>3, <2>5, <2>6 DEF TimeInv, Others, Passed
<1> QED
  BY <1>1, <1>2, <1>3, <1>4, <1>5, <1>6, <1>7, <1>8, <1>9, <1>10, <1>11, <1>12 DEF Next

-----------------------------------------------------------------------------
(* What is judged and what is packaged.                                    *)

\* The files the observation is of, and what was computed from it.
SameButHealth(dir) ==
    /\ dir.observation = files.observation /\ dir.evidence = files.evidence
    /\ dir.artifacts = files.artifacts /\ dir.workflow = files.workflow
    /\ dir.preflight = files.preflight /\ dir.service = files.service

\* A copy by hand is in none of the files that are compared.
LEMMA CopyWritten ==
  ASSUME TypeOK, NEW kind, CopyByHand(kind)
  PROVE  /\ SameButHealth(files') /\ files'.health = files.health
         /\ "artifacts" \notin listed' /\ same' \subseteq same
         /\ listed' = listed \ {"artifacts"}
         /\ UNCHANGED <<clock, zip, described, op>>
<1>1. /\ files' = [files EXCEPT !.copied = files.copied \cup {kind}]
      /\ listed' = listed \ {"artifacts"} /\ same' = same \ {"artifacts"}
  BY DEF CopyByHand, Write
<1>2. SameButHealth(files') /\ files'.health = files.health
  BY <1>1 DEF TypeOK, Directories, SameButHealth
<1> QED  BY <1>1, <1>2 DEF CopyByHand

LEMMA HealthWritten ==
  ASSUME TypeOK, BackendStarts \/ BackendReports \/ BackendEnds
  PROVE  /\ SameButHealth(files')
         /\ Passed(files'.health) => files'.health.at = clock
         /\ listed' = listed \ {"health"} /\ same' = same \ {"health"}
         /\ UNCHANGED <<clock, zip, described, op, given>>
<1>1. PICK declared : \E health \in HealthFiles(declared) :
        Write({"health"}, [files EXCEPT !.health = health])
  <2>1. CASE BackendStarts
    BY <2>1 DEF BackendStarts
  <2>2. CASE BackendReports
    BY <2>2 DEF BackendReports
  <2>3. CASE BackendEnds
    BY <2>3 DEF BackendEnds
  <2> QED  BY <2>1, <2>2, <2>3
<1>2. PICK health \in HealthFiles(declared) :
        Write({"health"}, [files EXCEPT !.health = health])
  BY <1>1
<1>3. health # Failing => health.at = clock
  BY DEF HealthFiles
<1>4. /\ files' = [files EXCEPT !.health = health]
      /\ listed' = listed \ {"health"} /\ same' = same \ {"health"}
  BY <1>2 DEF Write
<1>5. SameButHealth(files') /\ files'.health = health
  BY <1>4 DEF TypeOK, Directories, SameButHealth
<1>6. UNCHANGED <<clock, zip, described, op, given>>
  BY DEF BackendStarts, BackendReports, BackendEnds
<1> QED  BY <1>3, <1>4, <1>5, <1>6 DEF Passed

\* Writing the health file again spoils no observation and no evidence.
LEMMA JudgementStays ==
  ASSUME TypeOK, TimeInv, BackendStarts \/ BackendReports \/ BackendEnds
  PROVE  /\ Recorded(files) => Recorded(files')
         /\ Judged(files) => Judged(files')
<1>1. /\ SameButHealth(files')
      /\ Passed(files'.health) => files'.health.at = clock
  BY HealthWritten
<1>2. Recorded(files) => Recorded(files')
  BY <1>1 DEF Recorded, TimeInv, SameButHealth
<1> QED  BY <1>1, <1>2 DEF Judged, SameButHealth

LEMMA StepObserved ==
  ASSUME TypeOK, FiniteInv, TimeInv, ObservedInv, [Next]_vars
  PROVE  ObservedInv'
<1>1. CASE op' # "observed"
  BY <1>1 DEF ObservedInv
<1>2. CASE UNCHANGED <<files, op>>
  BY <1>2 DEF ObservedInv, Recorded, Passed
<1>3. CASE BackendStarts \/ BackendReports \/ BackendEnds
  BY <1>3, HealthWritten, JudgementStays DEF ObservedInv, SameButHealth
<1>4. CASE FinalizeStarts /\ op' = "observed"
  <2>1. PICK observed \in Times :
          /\ InputsComplete(files)
          /\ files' = [files EXCEPT !.observation = Observation(files, observed)]
    BY <1>4 DEF FinalizeStarts, Write
  <2> DEFINE o == Observation(files, observed)
  <2>2. files \in Directories
    BY DEF TypeOK
  <2>3. o \in Observations \cup {Failing}
    BY <2>1, <2>2, ObservationType DEF InputsComplete
  <2>4. Passed(o) => /\ SmokePasses(o)
                     /\ o.artifacts = files.artifacts /\ o.workflow = files.workflow
                     /\ o.preflight = files.preflight /\ o.health = files.health
    BY DEF Observation, Passed
  <2>5. files' = [files EXCEPT !.observation = o]
    BY <2>1
  <2> HIDE DEF o
  <2>6. /\ files'.observation = o
        /\ files'.artifacts = files.artifacts /\ files'.workflow = files.workflow
        /\ files'.preflight = files.preflight /\ files'.health = files.health
    BY <2>2, <2>5 DEF Directories
  <2>7. Passed(files.health) => files.health.at <= files.health.at
    <3>1. Passed(files.health) => files.health.at \in Nat
      BY <2>2, TimesAreNumbers DEF Directories, Healths, Passed
    <3> QED  BY <3>1
  <2>8. Recorded(files')
    BY <2>4, <2>6, <2>7 DEF Recorded
  <2> QED  BY <2>3, <2>6, <2>8 DEF ObservedInv
<1>5. CASE op' = op /\ op = "idle"
  BY <1>1, <1>5
<1>6. CASE \E kind \in Copied : CopyByHand(kind)
  BY <1>6, CopyWritten DEF ObservedInv, Recorded, SameButHealth
<1> QED
  BY <1>1, <1>2, <1>3, <1>4, <1>5, <1>6
  DEF Next, Tick, BackendStops, BackendKilled, Connects, Import, Prepare, VerifyServices,
      RecordWorkflow, FinalizeJudges, FinalizeLists, PackageStarts, PackageZips,
      PackageDescribes, Interrupted, Command, vars

LEMMA StepJudged ==
  ASSUME TypeOK, FiniteInv, TimeInv, ObservedInv, JudgedInv, [Next]_vars
  PROVE  JudgedInv'
<1>1. CASE ~(op' = "judged" \/ listed' = Names)
  BY <1>1 DEF JudgedInv
<1>2. CASE UNCHANGED <<files, listed>> /\ (op' = op \/ op' # "judged")
  BY <1>2 DEF JudgedInv, Judged, Recorded, Passed
<1>3. CASE BackendStarts \/ BackendReports \/ BackendEnds
  <2>1. "health" \notin listed' /\ op' = op
    BY <1>3, HealthWritten
  <2>2. listed' # Names
    BY <2>1 DEF Names
  <2> QED  BY <1>3, <2>1, <2>2, JudgementStays DEF JudgedInv
<1>4. CASE Prepare \/ VerifyServices \/ RecordWorkflow
           \/ \E traders \in (SUBSET Machines) \ {{}} : Import(traders)
  <2>1. op' = "idle"
    BY <1>4 DEF Prepare, VerifyServices, RecordWorkflow, Import, Command
  <2>2. \E name \in Names : name \notin listed'
    BY <1>4 DEF Prepare, VerifyServices, RecordWorkflow, Import, Write, Names
  <2> QED  BY <1>1, <2>1, <2>2
<1>5. CASE FinalizeStarts
  <2>1. \/ "observation" \notin listed' /\ op' = "observed"
        \/ files' = [files EXCEPT !.evidence = Failing]
    BY <1>5 DEF FinalizeStarts, Write
  <2>2. files' = [files EXCEPT !.evidence = Failing] => ~Passed(files'.evidence)
    BY DEF TypeOK, Directories, Passed
  <2> QED  BY <2>1, <2>2 DEF JudgedInv, Judged, Names
<1>6. CASE FinalizeJudges
  <2> DEFINE o == files.observation
  <2>1. o \in Observations \cup {Failing} /\ Recorded(files)
    BY <1>6 DEF FinalizeJudges, ObservedInv
  <2>2. files' = [files EXCEPT !.evidence = Evaluated(o)]
    BY <1>6 DEF FinalizeJudges, Write
  <2>3. /\ files'.evidence = Evaluated(o) /\ files'.observation = o
        /\ files'.artifacts = files.artifacts /\ files'.workflow = files.workflow
        /\ files'.preflight = files.preflight /\ files'.health = files.health
    BY <2>2 DEF TypeOK, Directories
  <2>4. ASSUME Passed(Evaluated(o))
        PROVE  Passed(o) /\ Evaluated(o) = [at |-> o.at, of |-> o]
    <3>1. o # Failing
      BY <2>4 DEF Evaluated, Passed
    <3>2. o # Missing
      BY <2>1, <3>1, MarkAssumption
    <3> QED  BY <3>1, <3>2 DEF Evaluated, Passed
  <2>5. Recorded(files')
    BY <2>1, <2>3 DEF Recorded
  <2> QED  BY <2>3, <2>4, <2>5 DEF JudgedInv, Judged
<1>7. CASE FinalizeLists
  BY <1>7 DEF FinalizeLists, JudgedInv, Judged, Recorded, Passed
<1>8. CASE \E kind \in Copied : CopyByHand(kind)
  <2>1. /\ SameButHealth(files') /\ files'.health = files.health
        /\ op' = op /\ listed' # Names
    BY <1>8, CopyWritten DEF Names
  <2>2. Judged(files) => Judged(files')
    BY <2>1 DEF Judged, Recorded, SameButHealth
  <2> QED  BY <2>1, <2>2 DEF JudgedInv
<1> QED
  BY <1>2, <1>3, <1>4, <1>5, <1>6, <1>7, <1>8
  DEF Next, Tick, BackendStops, BackendKilled, Connects, PackageStarts, PackageZips,
      PackageDescribes, Interrupted, Command, vars

LEMMA StepZip ==
  ASSUME TypeOK, JudgedInv, ZipInv, [Next]_vars
  PROVE  ZipInv'
<1>1. CASE PackageZips
  <2>1. /\ zip'.files = files' /\ files' = files
        /\ zip'.listed = ManifestFresh(listed)
    BY <1>1 DEF PackageZips
  <2>2. zip'.listed => Judged(zip'.files)
    BY <2>1 DEF ManifestFresh, JudgedInv
  <2> QED  BY <2>1, <2>2 DEF ZipInv
<1>2. ASSUME /\ zip' = zip /\ same' \subseteq same
             /\ "evidence" \in same' => files'.evidence = files.evidence
             /\ "preflight" \in same' => files'.preflight = files.preflight
      PROVE  ZipInv'
  <2>1. Present(zip') => Present(zip)
    BY <1>2 DEF Present
  <2>2. Judged(zip.files) => Judged(zip'.files)
    BY <1>2
  <2> QED  BY <1>2, <2>1, <2>2 DEF ZipInv
<1>3. CASE UNCHANGED <<zip, files, same>>
  BY <1>2, <1>3
<1>4. CASE BackendStarts \/ BackendReports \/ BackendEnds
  BY <1>2, <1>4, HealthWritten DEF SameButHealth
<1>5. CASE \E traders \in (SUBSET Machines) \ {{}} : Import(traders)
  BY <1>2, <1>5 DEF Import, Write, TypeOK, Directories
<1>6. CASE Prepare
  BY <1>2, <1>6 DEF Prepare, Write, TypeOK, Directories
<1>7. CASE VerifyServices
  BY <1>2, <1>7 DEF VerifyServices, Write, TypeOK, Directories
<1>8. CASE RecordWorkflow
  BY <1>2, <1>8 DEF RecordWorkflow, Write, TypeOK, Directories
<1>9. CASE FinalizeStarts
  BY <1>2, <1>9 DEF FinalizeStarts, Write, TypeOK, Directories
<1>10. CASE FinalizeJudges
  BY <1>2, <1>10 DEF FinalizeJudges, Write, TypeOK, Directories
<1>11. CASE FinalizeLists
  BY <1>2, <1>11 DEF FinalizeLists
<1>12. CASE \E kind \in Copied : CopyByHand(kind)
  BY <1>2, <1>12, CopyWritten DEF SameButHealth
<1> QED
  BY <1>1, <1>3, <1>4, <1>5, <1>6, <1>7, <1>8, <1>9, <1>10, <1>11, <1>12
  DEF Next, Tick, BackendStops, BackendKilled, Connects, PackageStarts, PackageDescribes,
      Interrupted, vars

\* While the files are packed only the health file and copies are written.
LEMMA StepPacking ==
  ASSUME TypeOK, PackingInv, [Next]_vars
  PROVE  PackingInv'
<1>1. CASE op' # "packing"
  BY <1>1 DEF PackingInv
<1>2. CASE op' = op /\ SameButHealth(files')
  BY <1>2 DEF PackingInv, Packageable, SameButHealth, ImportsCover, PackagePreflightClean
<1>3. CASE UNCHANGED <<op, files>>
  BY <1>2, <1>3 DEF SameButHealth
<1>4. CASE BackendStarts \/ BackendReports \/ BackendEnds
  BY <1>2, <1>4, HealthWritten
<1>5. CASE \E kind \in Copied : CopyByHand(kind)
  BY <1>2, <1>5, CopyWritten
<1>6. CASE PackageStarts
  BY <1>6 DEF PackageStarts, MayPackage, PackingInv, Packageable, Passed,
              ImportsCover, PackagePreflightClean
<1>7. CASE op' = op /\ op = "idle"
  BY <1>1, <1>7
<1> QED
  BY <1>1, <1>3, <1>4, <1>5, <1>6, <1>7
  DEF Next, Tick, BackendStops, BackendKilled, Connects, Import, Prepare, VerifyServices,
      RecordWorkflow, FinalizeStarts, FinalizeJudges, FinalizeLists, PackageZips,
      PackageDescribes, Interrupted, Command, vars

LEMMA StepPacked ==
  ASSUME TypeOK, PackingInv, PackedInv, [Next]_vars
  PROVE  PackedInv'
<1>1. CASE PackageZips
  <2>1. /\ zip'.files = files /\ zip'.listed = ManifestFresh(listed)
        /\ zip' = [files |-> files, listed |-> ManifestFresh(listed)]
        /\ same' = Hashed /\ listed' = listed /\ op = "packing"
    BY <1>1 DEF PackageZips
  <2>2. Packageable(zip'.files)
    BY <2>1 DEF PackingInv
  <2>3. zip'.listed => same' \ {"manifest"} \subseteq listed'
    BY <2>1 DEF ManifestFresh, Names, Hashed
  <2>4. Present(zip')
    <3>1. zip' \in Zips
      BY <2>1 DEF Zips, TypeOK, ManifestFresh
    <3> QED  BY <3>1, MarkAssumption DEF Present
  <2> QED  BY <2>2, <2>3, <2>4 DEF PackedInv
<1>2. ASSUME zip' = zip,
             op' = "zipped" \/ described' => op = "zipped" \/ described,
             \/ \E names : listed' = listed \ names /\ same' = same \ names
             \/ UNCHANGED <<listed, same>>
             \/ "manifest" \notin same'
      PROVE  PackedInv'
  <2>1. Present(zip') = Present(zip)
    BY <1>2 DEF Present
  <2>2. Packageable(zip.files) => Packageable(zip'.files)
    BY <1>2
  <2>3. "manifest" \in same' /\ same \ {"manifest"} \subseteq listed
          => "manifest" \in same /\ same' \ {"manifest"} \subseteq listed'
    BY <1>2
  <2>4. "manifest" \in same' => "manifest" \in same
    BY <1>2
  <2> QED  BY <1>2, <2>1, <2>2, <2>3, <2>4 DEF PackedInv
<1>3. CASE UNCHANGED <<zip, described, listed, same>> /\ (op' = "zipped" => op = "zipped")
  BY <1>2, <1>3
<1>4. CASE BackendStarts \/ BackendReports \/ BackendEnds
  BY <1>2, <1>4, HealthWritten
<1>5. CASE /\ \E names, dir : Write(names, dir)
           /\ UNCHANGED <<zip, described>>
           /\ op' = "zipped" => op = "zipped"
  BY <1>2, <1>5 DEF Write
<1>6. CASE \E traders \in (SUBSET Machines) \ {{}} : Import(traders)
  BY <1>5, <1>6 DEF Import
<1>7. CASE \E kind \in Copied : CopyByHand(kind)
  BY <1>5, <1>7 DEF CopyByHand
<1>8. CASE Prepare \/ VerifyServices \/ RecordWorkflow
  BY <1>5, <1>8 DEF Prepare, VerifyServices, RecordWorkflow
<1>9. CASE FinalizeStarts \/ FinalizeJudges
  BY <1>5, <1>9 DEF FinalizeStarts, FinalizeJudges
<1>10. CASE FinalizeLists
  BY <1>2, <1>10 DEF FinalizeLists
<1>11. CASE PackageDescribes
  BY <1>2, <1>11 DEF PackageDescribes
<1> QED
  BY <1>1, <1>3, <1>4, <1>6, <1>7, <1>8, <1>9, <1>10, <1>11
  DEF Next, Tick, BackendStops, BackendKilled, Connects, PackageStarts, Interrupted, vars

LEMMA Invariance == Spec => []IInv
<1>1. Init => IInv
  BY InitTypes
  DEF Init, IInv, TimeInv, ObservedInv, JudgedInv, ZipInv, PackingInv, PackedInv,
      Passed, Present, Names
<1>2. IInv /\ [Next]_vars => IInv'
  BY StepTypes, StepObserved, StepJudged, StepZip, StepPacking, StepPacked DEF IInv
<1> QED  BY <1>1, <1>2, PTL DEF Spec

-----------------------------------------------------------------------------
(* Theorems.                                                               *)

\* The files of a smoke directory and of its package keep their types, whatever
\* the backend, the traders and the operator's commands write in between.
THEOREM EvidenceTypeCorrect == Spec => []TypeOK
<1>1. IInv => TypeOK
  BY DEF IInv
<1> QED  BY <1>1, Invariance, PTL

\* What an accepted package was computed from: a passed observation of the very
\* artifacts, workflows and preflight that are in it.
LEMMA AcceptedIsJudged ==
  ASSUME IInv, Accepted
  PROVE  LET packed == zip.files
             o == packed.observation
         IN /\ packed \in Directories /\ o \in Observations
            /\ packed.evidence = [at |-> o.at, of |-> o]
            /\ files.evidence = packed.evidence
            /\ SmokePasses(o)
            /\ o.artifacts = packed.artifacts /\ o.workflow = packed.workflow
            /\ o.preflight = packed.preflight
            /\ Passed(packed.health) => o.health.at <= packed.health.at
<1>1. /\ Passed(files.evidence) /\ Present(zip) /\ same = Hashed /\ zip.listed
  BY DEF Accepted, BundleAccepts, HashesMatch, PackedManifestMatches
<1>2. zip \in Zips
  BY <1>1 DEF IInv, TypeOK, Present
<1>3. zip.files \in Directories
  BY <1>2 DEF Zips
<1>4. zip.files.evidence = files.evidence /\ Judged(zip.files)
  BY <1>1 DEF IInv, ZipInv, Hashed
<1>5. /\ Passed(zip.files.observation) /\ Recorded(zip.files)
      /\ zip.files.evidence =
           [at |-> zip.files.observation.at, of |-> zip.files.observation]
  BY <1>1, <1>4 DEF Judged
<1>6. zip.files.observation \in Observations
  BY <1>3, <1>5 DEF Directories, Passed
<1> QED  BY <1>3, <1>4, <1>5, <1>6 DEF Recorded

\* finalize and package-multi-trader-smoke write file by file with the backend
\* beside them; what the bundle verifier accepts was nevertheless computed from
\* what is packaged.
THEOREM PackageIsJudged == Spec => []JudgedIsPackaged
<1>1. IInv => JudgedIsPackaged
  <2> SUFFICES ASSUME IInv, Accepted  PROVE JudgedIsPackaged
    BY DEF JudgedIsPackaged
  <2>1. zip.files.evidence.of = zip.files.observation
    BY AcceptedIsJudged
  <2> QED  BY <2>1, AcceptedIsJudged DEF JudgedIsPackaged
<1> QED  BY <1>1, Invariance, PTL

\* The windows of multi_trader_artifact_timing_evidence, checked once when the
\* observation was made, still enclose what is packaged.
THEOREM PackageIsOneRun == Spec => []OneRun
<1>1. IInv => OneRun
  <2> SUFFICES ASSUME IInv, Accepted  PROVE OneRun
    BY DEF OneRun
  <2> DEFINE packed == zip.files
             o == packed.observation
  <2>1. /\ packed \in Directories /\ o \in Observations
        /\ packed.evidence = [at |-> o.at, of |-> o]
        /\ files.evidence = packed.evidence
        /\ SmokePasses(o)
        /\ o.artifacts = packed.artifacts /\ o.workflow = packed.workflow
        /\ o.preflight = packed.preflight
        /\ Passed(packed.health) => o.health.at <= packed.health.at
    BY AcceptedIsJudged
  <2>2. /\ Present(packed.service) /\ packed.preflight.checks = packed.service
        /\ ServiceInWindow(packed.preflight, files.evidence.at)
    BY DEF Accepted, BundleAccepts, PackedPreflightClean, ChecksClean
  <2> HIDE DEF packed, o
  <2>3. packed.evidence.at = o.at /\ packed.evidence.of = o /\ o.at \in Times
    BY <2>1 DEF Observations
  <2>4. \A a \in packed.artifacts : Within(a.at, packed.preflight.at, o.at)
    BY <2>1 DEF SmokePasses, ClientsInWindow
  <2>5. Within(packed.service.at, packed.preflight.at, o.at)
    <3>1. ServiceInWindow(packed.preflight, o.at)
      BY <2>1, <2>2, <2>3
    <3> QED  BY <2>2, <3>1 DEF ServiceInWindow
  <2>6. Within(packed.workflow, packed.preflight.at, o.at)
    BY <2>1 DEF SmokePasses, WorkflowsClean, WorkflowsInWindow
  <2>7. Within(o.health.at, packed.preflight.at, o.at)
    BY <2>1 DEF SmokePasses, HealthInWindow
  <2>8. Passed(packed.health) => packed.preflight.at <= packed.health.at
    <3>1. packed.preflight.at \in Nat /\ o.health.at \in Nat
      BY <2>1, TimesAreNumbers DEF Observations, Preflights, Healths
    <3>2. Passed(packed.health) => packed.health.at \in Nat
      BY <2>1, TimesAreNumbers DEF Directories, Healths, Passed
    <3> QED  BY <2>1, <2>7, <3>1, <3>2 DEF Within
  <2> QED  BY <2>3, <2>4, <2>5, <2>6, <2>7, <2>8 DEF OneRun, packed
<1> QED  BY <1>1, Invariance, PTL

\* package-multi-trader-smoke does not look at the time of the probe, and the
\* verifier of the bundle does: the passed evidence that a fresh manifest lists
\* was computed from the same preflight, and a passed one had its probe in time.
THEOREM MadePackageIsAccepted == Spec => []MadeIsAccepted
<1>1. IInv => MadeIsAccepted
  <2> SUFFICES ASSUME IInv, described, zip.listed, same = Hashed, zip.files.copied = {}
               PROVE  Accepted
    BY DEF MadeIsAccepted
  <2> DEFINE packed == zip.files
             o == packed.observation
  <2>1. Present(zip) /\ packed \in Directories
    <3>1. Present(zip)
      BY DEF IInv, PackedInv
    <3> QED  BY <3>1 DEF IInv, TypeOK, Zips, Present
  <2>2. /\ ImportsCover(packed) /\ Passed(packed.evidence)
        /\ PackagePreflightClean(packed)
    BY <2>1 DEF IInv, PackedInv, Packageable
  <2>3. /\ packed.evidence = files.evidence /\ packed.preflight = files.preflight
        /\ Judged(packed)
    BY <2>1 DEF IInv, ZipInv, Hashed
  <2>4. ManifestNames(listed)
    BY <2>1 DEF IInv, PackedInv, ManifestNames, Hashed
  <2>5. packed.copied = {} /\ HashesMatch(described, same) /\ PackedManifestMatches(zip)
    BY DEF HashesMatch, PackedManifestMatches
  <2>6. ServiceInWindow(packed.preflight, packed.evidence.at)
    <3>1. SmokePasses(o) /\ o.preflight = packed.preflight /\ Passed(o)
          /\ packed.evidence = [at |-> o.at, of |-> o]
      BY <2>2, <2>3 DEF Judged, Recorded
    <3> QED  BY <3>1 DEF SmokePasses
  <2>7. PackedImportsCover(zip)
    BY <2>2, <2>5 DEF ImportsCover, PackedImportsCover
  <2>8. PackedPreflightClean(zip, files.evidence.at)
    BY <2>2, <2>3, <2>6 DEF PackagePreflightClean, PackedPreflightClean, ChecksClean
  <2> HIDE DEF packed, o
  <2> QED
    BY <2>1, <2>2, <2>3, <2>4, <2>5, <2>7, <2>8
    DEF Accepted, BundleAccepts, PackagePreflightClean
<1> QED  BY <1>1, Invariance, PTL
=============================================================================
