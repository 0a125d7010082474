--------------------------- MODULE SmokeEvidence ---------------------------
(***************************************************************************)
(* The directory of a LAN multi-trader smoke run (ops.py) and the verifier *)
(* of what is packaged from it (cutover.py).  Three parties write the      *)
(* directory with no lock between them: the backend (real_data_runner)     *)
(* rewrites its health file every two seconds and once more when it stops, *)
(* the traders' browsers connect and export, and the operator's commands   *)
(* prepare, probe, import, record, finalize and package, file by file, and *)
(* may be interrupted between two files.                                   *)
(*                                                                         *)
(* A file is the record of what the verifiers read in it.  A file that is  *)
(* written again has another hash, for it holds the time it was written.   *)
(* Times are ticks of a clock.                                             *)
(***************************************************************************)
EXTENDS Naturals, FiniteSets

CONSTANTS Machines,      \* the traders' machine ids
          Missing,       \* in place of a file that does not exist
          Failing,       \* in place of one of which only matters that it does not pass
          Performance,   \* subset of BOOLEAN: is the performance file exported too
          Copied,        \* kinds of files copied below clients/ by hand: "nested" for
                         \* an export in a directory of its own, "invalid" for a
                         \* JSON file that is none
          LastTime,      \* bound: the clock
          MaxArtifacts,  \* bound: exports imported
          MaxCommands    \* bound: commands the operator gives and copies by hand

ASSUME SmokeAssumption ==
    /\ Performance \subseteq BOOLEAN
    /\ Copied \subseteq {"nested", "invalid"}
    /\ {LastTime, MaxArtifacts, MaxCommands} \subseteq Nat

VARIABLES clock,     \* the time every stamp is taken from
          backend,   \* machine ids the running real_data_runner heard, or Missing
          draining,  \* a stopped one that has not written its last health file
          files,     \* the JSON files of the smoke directory
          listed,    \* smoke-run-manifest.json: the names of the files that
                     \* still have the hash it lists, {} if there is none
          zip,       \* multi-trader-smoke-evidence.zip
          same,      \* what is in the directory as it is in the zip
          described, \* does smoke-run-package.json describe that zip
          op,        \* the step an operator's command has come to
          given      \* number of commands given and of copies made

vars == <<clock, backend, draining, files, listed, zip, same, described, op, given>>

Times == 0 .. LastTime
Present(file) == file # Missing
Passed(file) == file \notin {Missing, Failing}

Backends == SUBSET Machines
Checks == [at : Times, passed : BOOLEAN]
Preflights == [at : Times, checks : Checks \cup {Missing}]
Healths == [at : Times, declared : SUBSET Machines]

\* A client export of a machine: its number among those of the machine, when it
\* was exported, whether its performance file came along, and whether
\* smoke-import-manifest.json has a run with it.
Artifacts == [machine : Machines, copy : 1 .. MaxArtifacts, at : Times,
              performance : BOOLEAN, imported : BOOLEAN]
Observations == [at : Times, artifacts : SUBSET Artifacts, workflow : Times \cup {Missing},
                 health : Healths, preflight : Preflights]
Evidences == [at : Times, of : Observations]
Directories == [preflight : Preflights,
                service : Checks \cup {Missing},
                health : Healths \cup {Missing, Failing},
                workflow : Times \cup {Missing},
                artifacts : SUBSET Artifacts,
                copied : SUBSET Copied,
                observation : Observations \cup {Missing, Failing},
                evidence : Evidences \cup {Missing, Failing}]

Names == {"preflight", "service", "health", "workflow", "artifacts",
          "observation", "evidence"}

\* The files, and whether the manifest among them lists them.
Zips == [files : Directories, listed : BOOLEAN]
Hashed == {"evidence", "preflight", "manifest"}

\* What stands for a missing or a failing file is none itself.
ASSUME MarkAssumption ==
    \A mark \in {Missing, Failing} : mark \notin Times \cup Observations \cup Evidences \cup Zips

(* Every variable keeps its type.                                           *)
TypeOK ==
    /\ clock \in Times
    /\ backend \in Backends \cup {Missing}
    /\ draining \in Backends \cup {Missing}
    /\ files \in Directories
    /\ given \in 0 .. MaxCommands
    /\ listed \subseteq Names
    /\ zip \in Zips \cup {Missing}
    /\ same \subseteq Hashed
    /\ described \in BOOLEAN
    /\ op \in {"idle", "observed", "judged", "listed", "packing", "zipped"}

\* The directory has just been prepared; its scripts start the backend.
Init ==
    /\ clock = 0
    /\ backend = Missing
    /\ draining = Missing
    /\ files = [preflight |-> [at |-> 0, checks |-> Missing], service |-> Missing,
                health |-> Missing, workflow |-> Missing, artifacts |-> {}, copied |-> {},
                observation |-> Missing, evidence |-> Missing]
    /\ listed = {}
    /\ zip = Missing
    /\ same = {}
    /\ described = FALSE
    /\ op = "idle"
    /\ given = 0

-----------------------------------------------------------------------------
(* What evaluate_multi_trader_smoke asks of an observation.                *)

Within(time, from, to) == from <= time /\ time <= to

\* The services were probed, they answered.
ChecksClean(checks) == Present(checks) /\ checks.passed

PreflightClean(preflight) == ChecksClean(preflight.checks)

ServiceInWindow(preflight, observed) ==
    Present(preflight.checks) =>
        Within(preflight.checks.at, preflight.at, observed)

ClientMachines(artifacts) == {a.machine : a \in artifacts}

\* At least two machines, and one artifact of each.
ClientsClean(artifacts) ==
    /\ Cardinality(ClientMachines(artifacts)) >= 2
    /\ Cardinality(ClientMachines(artifacts)) = Cardinality(artifacts)

\* Mutant of ClientsInWindow: only exports of the future are refused.
ClientsInWindowNoStart(artifacts, preflight, observed) ==
    \A a \in artifacts : a.at <= observed

ClientsInWindow(artifacts, preflight, observed) ==
    \A a \in artifacts : Within(a.at, preflight.at, observed)

\* The files of performance/; with none the samples in the client files are used.
PerformanceFiles(artifacts) == {a \in artifacts : a.performance}

PerformanceClean(artifacts) ==
    LET measured == PerformanceFiles(artifacts)
    IN measured # {} => ClientMachines(measured) = ClientMachines(artifacts)

PerformanceInWindow(artifacts, preflight, observed) ==
    ClientsInWindow(PerformanceFiles(artifacts), preflight, observed)

WorkflowsClean(workflow) == Present(workflow)

WorkflowsInWindow(workflow, preflight, observed) ==
    Present(workflow) => Within(workflow, preflight.at, observed)

\* The Gateway heard the id of every machine that exported, and of two at least.
ActivityClean(health, artifacts) ==
    /\ Passed(health)
    /\ ClientMachines(artifacts) \subseteq health.declared
    /\ Cardinality(health.declared) >= 2

HealthInWindow(health, preflight, observed) ==
    Within(health.at, preflight.at, observed)

SmokePasses(o) ==
    /\ ClientsClean(o.artifacts)
    /\ PerformanceClean(o.artifacts)
    /\ WorkflowsClean(o.workflow)
    /\ Passed(o.health)
    /\ ActivityClean(o.health, o.artifacts)
    /\ PreflightClean(o.preflight)
    /\ ServiceInWindow(o.preflight, o.at)
    /\ ClientsInWindow(o.artifacts, o.preflight, o.at)
    /\ PerformanceInWindow(o.artifacts, o.preflight, o.at)
    /\ HealthInWindow(o.health, o.preflight, o.at)
    /\ WorkflowsInWindow(o.workflow, o.preflight, o.at)

Observation(dir, time) ==
    LET o == [at |-> time, artifacts |-> dir.artifacts, workflow |-> dir.workflow,
              health |-> dir.health, preflight |-> dir.preflight]
    IN IF SmokePasses(o) THEN o ELSE Failing

Evaluated(o) == IF o = Failing THEN Failing ELSE [at |-> o.at, of |-> o]

-----------------------------------------------------------------------------
(* What the commands ask before they write.                                *)

\* The inputs of finalize are all there, what lies in clients/ is an export, and
\* the two copies of the probe agree.
InputsComplete(dir) ==
    /\ Present(dir.service)
    /\ Present(dir.health)
    /\ dir.artifacts # {}
    /\ "invalid" \notin dir.copied
    /\ dir.preflight.checks = dir.service

\* Mutant of ImportsCover: an import manifest with one import is enough.
ImportsCoverSome(dir) == \E a \in dir.artifacts : a.imported

\* Something was imported, every import is a file, and every valid export that
\* lies in clients/ or performance/ itself was imported.
ImportsCover(dir) ==
    /\ dir.artifacts # {}
    /\ \A a \in dir.artifacts : a.imported

\* Mutant of ManifestFresh: the hashes of evidence and preflight are compared.
ManifestFreshNamed(names) == {"evidence", "preflight"} \subseteq names

\* The manifest lists exactly the files of the directory, with their hashes.
ManifestFresh(names) == names = Names

\* The package command gives no time: when the probe was made is not looked at.
PackagePreflightClean(dir) ==
    /\ PreflightClean(dir.preflight)
    /\ Present(dir.service) /\ dir.service.passed
    /\ dir.preflight.checks = dir.service

MayPackage(dir, names) ==
    /\ ImportsCover(dir)
    /\ Passed(dir.evidence)
    /\ PackagePreflightClean(dir)
    /\ ManifestFresh(names)

-----------------------------------------------------------------------------
(* What the evidence bundle asks of the packaged run.                      *)

\* The manifest beside the package names the evidence and the preflight.
ManifestNames(names) == {"evidence", "preflight"} \subseteq names

\* The package is the one described, and holds the files beside it.
HashesMatch(hashed, kept) == hashed /\ kept = Hashed

PackedManifestMatches(packed) == packed.listed

\* Every JSON file below clients/ and performance/ in the zip was imported,
\* whatever it is and however deep it lies.
PackedImportsCover(packed) ==
    LET imported == {a \in packed.files.artifacts : a.imported}
    IN /\ imported # {}
       /\ packed.files.artifacts = imported
       /\ packed.files.copied = {}

\* The probe in the package is complete, and of the time between the preflight
\* and the observation.
PackedPreflightClean(packed, observed) ==
    LET preflight == packed.files.preflight
    IN /\ PreflightClean(preflight)
       /\ ChecksClean(packed.files.service)
       /\ preflight.checks = packed.files.service
       /\ ServiceInWindow(preflight, observed)

BundleAccepts(packed, hashed, kept, dir, names) ==
    /\ Passed(dir.evidence)
    /\ PreflightClean(dir.preflight)
    /\ ManifestNames(names)
    /\ Present(packed)
    /\ HashesMatch(hashed, kept)
    /\ PackedManifestMatches(packed)
    /\ PackedImportsCover(packed)
    /\ PackedPreflightClean(packed, dir.evidence.at)

-----------------------------------------------------------------------------
\* The named files are written.
Write(names, dir) ==
    /\ files' = dir
    /\ listed' = listed \ names
    /\ same' = same \ names

(* The backend and the browsers.                                           *)

Tick ==
    /\ clock < LastTime
    /\ clock' = clock + 1
    /\ UNCHANGED <<backend, draining, files, listed, zip, same, described, op, given>>

\* The health file may pass when two machines declared themselves; something
\* else may block the run at any time.
HealthFiles(declared) ==
    {Failing} \cup {h \in {[at |-> clock, declared |-> declared]} : Cardinality(declared) >= 2}

\* run_service: the Gateway serves, and the first health file is written.
BackendStarts ==
    /\ backend = Missing
    /\ backend' = {}
    /\ \E health \in HealthFiles({}) :
         Write({"health"}, [files EXCEPT !.health = health])
    /\ UNCHANGED <<clock, draining, zip, described, op, given>>

\* The health file of every interval.
BackendReports ==
    /\ Present(backend)
    /\ \E health \in HealthFiles(backend) :
         Write({"health"}, [files EXCEPT !.health = health])
    /\ UNCHANGED <<clock, backend, draining, zip, described, op, given>>

\* SIGTERM: the port is closed first, the last health file comes later, when
\* restart-backend.sh may have started the next process.  It fails with fewer
\* than two machines, whichever they are.
BackendStops ==
    /\ Present(backend)
    /\ draining = Missing
    /\ backend' = Missing
    /\ draining' = IF Cardinality(backend) >= 2 THEN backend ELSE {}
    /\ UNCHANGED <<clock, files, listed, zip, same, described, op, given>>

BackendEnds ==
    /\ Present(draining)
    /\ \E health \in HealthFiles(draining) :
         Write({"health"}, [files EXCEPT !.health = health])
    /\ draining' = Missing
    /\ UNCHANGED <<clock, backend, zip, described, op, given>>

\* SIGKILL of a process that does not close the port in time.
BackendKilled ==
    /\ Present(backend)
    /\ backend' = Missing
    /\ UNCHANGED <<clock, draining, files, listed, zip, same, described, op, given>>

\* A browser connects, declares its machine id in its first request and stays.
Connects(m) ==
    /\ Present(backend)
    /\ backend' = backend \cup {m}
    /\ UNCHANGED <<clock, draining, files, listed, zip, same, described, op, given>>

-----------------------------------------------------------------------------
(* The operator's commands, one at a time.                                 *)

\* The operator gives the next command when the last one has ended.
Command ==
    /\ op = "idle"
    /\ given < MaxCommands
    /\ given' = given + 1

Prepare ==
    /\ Command
    /\ Write({"preflight", "workflow"},
             [files EXCEPT !.workflow = Missing,
                           !.preflight = [at |-> clock, checks |-> Missing]])
    /\ UNCHANGED <<clock, backend, draining, zip, described, op>>

\* The probe: the Gateway answers while a backend serves.
VerifyServices ==
    /\ Command
    /\ LET checks == [at |-> clock, passed |-> Present(backend)]
       IN Write({"preflight", "service"},
                [files EXCEPT !.service = checks, !.preflight.checks = checks])
    /\ UNCHANGED <<clock, backend, draining, zip, described, op>>

Copies(m) == Cardinality({a \in files.artifacts : a.machine = m})

\* The next export of the machine, under a name of its own.
Exported(m, performance, imported) ==
    [machine |-> m, copy |-> Copies(m) + 1,
     at |-> clock, performance |-> performance, imported |-> imported]

\* The operator imports what the connected browsers of some traders exported:
\* the files are copied, then the import manifest gets a run for them; stopped
\* in between, they are in no run.
Import(traders) ==
    /\ Command
    /\ Present(backend) /\ traders \subseteq backend
    /\ Cardinality(files.artifacts) + Cardinality(traders) <= MaxArtifacts
    /\ \E performance \in Performance, imported \in BOOLEAN :
         Write({"artifacts"},
               [files EXCEPT !.artifacts =
                   @ \cup {Exported(m, performance, imported) : m \in traders}])
    /\ UNCHANGED <<clock, backend, draining, zip, described, op>>

\* Somebody copies a file below clients/ without the import command, while a
\* command runs or not; it is counted with the commands.
CopyByHand(kind) ==
    /\ kind \notin files.copied
    /\ given < MaxCommands
    /\ given' = given + 1
    /\ Write({"artifacts"}, [files EXCEPT !.copied = @ \cup {kind}])
    /\ UNCHANGED <<clock, backend, draining, zip, described, op>>

\* The workflows have been observed with every trader's page restored.
RecordWorkflow ==
    /\ Command
    /\ Present(backend) /\ Cardinality(backend) >= 2
    /\ Write({"workflow"}, [files EXCEPT !.workflow = clock])
    /\ UNCHANGED <<clock, backend, draining, zip, described, op>>

\* finalize, first file: the observation, of the time the command line gives:
\* the second in which the script began, or one the operator chose.  With an
\* input missing or the probe changed failed evidence takes its place.
FinalizeStarts ==
    /\ Command
    /\ \/ /\ InputsComplete(files)
          /\ \E observed \in Times :
               Write({"observation"},
                     [files EXCEPT !.observation = Observation(files, observed)])
          /\ op' = "observed"
       \/ /\ ~InputsComplete(files)
          /\ Write({"evidence"}, [files EXCEPT !.evidence = Failing])
          /\ op' = "judged"
    /\ UNCHANGED <<clock, backend, draining, zip, described>>

FinalizeJudges ==
    /\ op = "observed"
    /\ Write({"evidence"}, [files EXCEPT !.evidence = Evaluated(files.observation)])
    /\ op' = "judged"
    /\ UNCHANGED <<clock, backend, draining, zip, described, given>>

\* With --package the command goes on.
FinalizeLists ==
    /\ op = "judged"
    /\ listed' = Names
    /\ same' = same \ {"manifest"}
    /\ op' \in {"idle", "listed"}
    /\ UNCHANGED <<clock, backend, draining, files, zip, described, given>>

PackageStarts ==
    /\ Command \/ (op = "listed" /\ UNCHANGED given)
    /\ MayPackage(files, listed)
    /\ op' = "packing"
    /\ UNCHANGED <<clock, backend, draining, files, listed, zip, same, described>>

PackageZips ==
    /\ op = "packing"
    /\ zip' = [files |-> files, listed |-> ManifestFresh(listed)]
    /\ same' = Hashed
    /\ described' = FALSE
    /\ op' = "zipped"
    /\ UNCHANGED <<clock, backend, draining, files, listed, given>>

PackageDescribes ==
    /\ op = "zipped"
    /\ described' = TRUE
    /\ op' = "idle"
    /\ UNCHANGED <<clock, backend, draining, files, listed, zip, same, given>>

Interrupted ==
    /\ op # "idle"
    /\ op' = "idle"
    /\ UNCHANGED <<clock, backend, draining, files, listed, zip, same, described, given>>

Next ==
    \/ Tick
    \/ BackendStarts \/ BackendReports \/ BackendStops \/ BackendEnds \/ BackendKilled
    \/ \E m \in Machines : Connects(m)
    \/ \E traders \in (SUBSET Machines) \ {{}} : Import(traders)
    \/ \E kind \in Copied : CopyByHand(kind)
    \/ Prepare \/ VerifyServices \/ RecordWorkflow
    \/ FinalizeStarts \/ FinalizeJudges \/ FinalizeLists
    \/ PackageStarts \/ PackageZips \/ PackageDescribes \/ Interrupted

Spec == Init /\ [][Next]_vars

-----------------------------------------------------------------------------
Accepted == BundleAccepts(zip, described, same, files, listed)

(* A package the bundle verifier accepts holds the very files its evidence *)
(* was computed from, whatever the backend, an interrupted command or a    *)
(* later command of the operator wrote in between; only the health file    *)
(* may be a later one (ops.py 1833-1852 reads it long before 2755 hashes   *)
(* it).                                                                    *)
JudgedIsPackaged ==
    Accepted =>
        LET packed == zip.files
            judged == packed.evidence.of
        IN /\ packed.observation = judged
           /\ packed.artifacts = judged.artifacts
           /\ packed.workflow = judged.workflow
           /\ packed.preflight = judged.preflight
           /\ Passed(packed.health) => judged.health.at <= packed.health.at

(* Everything in an accepted package belongs to one prepared run: it was   *)
(* exported, probed, recorded or reported after the preflight that is in   *)
(* the package and, the rewritten health file apart, before the final      *)
(* observation.                                                            *)
OneRun ==
    Accepted =>
        LET packed == zip.files
            from == packed.preflight.at
            to == packed.evidence.at
        IN /\ \A a \in packed.artifacts : Within(a.at, from, to)
           /\ Within(packed.service.at, from, to)
           /\ Within(packed.workflow, from, to)
           /\ Within(packed.evidence.of.health.at, from, to)
           /\ Passed(packed.health) => from <= packed.health.at

(* What package-multi-trader-smoke made the bundle verifier accepts: if the *)
(* manifest was still fresh when the files were zipped, nothing beside the  *)
(* package was written since and no file in it was copied by hand.  The two *)
(* have their own lists of checks: the command looks at the valid exports   *)
(* in clients/ itself and at no time, the verifier at every file below it   *)
(* and at when the probe was made.                                          *)
MadeIsAccepted ==
    /\ described
    /\ zip.listed
    /\ same = Hashed
    /\ zip.files.copied = {}
    => Accepted

(* The upgrade plan (line 144) of the package command: no package is made   *)
(* from client or performance files without import provenance.              *)
NoneWithoutImport ==
    described => /\ \A a \in zip.files.artifacts : a.imported
                 /\ zip.files.copied = {}
=============================================================================
