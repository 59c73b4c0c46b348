-------------------------- MODULE HadesDriver_proof --------------------------
(***************************************************************************)
(* For any directories, any files, any sequence of commands and any number *)
(* of kills and failed writes: the marker names the adopted suite between  *)
(* any two commands, or what became of it is one of two named mishaps; run *)
(* starts what is declared, with the settings the user wrote; validate     *)
(* promotes only what it built; a new-test that succeeds has added its     *)
(* test; and the tests of suite.toml ask for fixtures of registry.ini      *)
(* only. The last ones rest on what the two parsers make of a file, line   *)
(* by line, after something is appended.                                   *)
(***************************************************************************)
EXTENDS HadesDriver, TLAPS, SequenceTheorems, WellFoundedInduction

\* rm has deleted a suite and has not looked at the marker yet.
Unadopting == At("rm", "unadopt")

Shaped(j) ==
  j = [cmd |-> j.cmd, at |-> j.at, path |-> j.path, config |-> j.config, isNew |-> j.isNew,
       fixture |-> j.fixture, entry |-> j.entry, request |-> j.request]

JobOK == Shaped(job) /\ (job.cmd = "rm" => job.path.dir # "")

\* The strengthening: in the middle of rm the marker may be ahead of the deletion by
\* one step, and only there.
MInv ==
  /\ JobOK
  /\ Unadopting => adopted # job.path.dir
  /\ mishap \in {"none", "stray", "lost"}
  /\ mishap = "none" => \/ marker.dir = adopted
                        \/ Unadopting /\ adopted = "" /\ marker.dir = job.path.dir
  /\ mishap = "lost" => marker = NoPath
  /\ mishap = "stray" => adopted = ""

\* What a step does to the command in hand that does not bring it to the marker.
Elsewhere == JobOK' /\ ~Unadopting'

LEMMA NoJobShape == Shaped(NoJob) /\ NoJob.cmd = "none" /\ NoJob.at = "idle"
BY DEF Shaped, NoJob, Job

LEMMA MInvImpliesMarker == MInv => MarkerIsAdopted
BY NoJobShape DEF MInv, MarkerIsAdopted, Unadopting, At

LEMMA MInit == DriverInit => MInv
<1> SUFFICES ASSUME DriverInit PROVE MInv
  OBVIOUS
<1>1. job = NoJob /\ adopted = "" /\ marker.dir = "" /\ mishap = "none"
  BY DEF DriverInit, NoPath
<1> QED
  BY <1>1, NoJobShape DEF MInv, JobOK, Unadopting, At

-----------------------------------------------------------------------------
(* Steps of a command.                                                     *)

LEMMA GotoElsewhere ==
  ASSUME JobOK, NEW next, next # "unadopt", Goto(next)
  PROVE  Elsewhere
BY DEF JobOK, Shaped, Goto, Elsewhere, Unadopting, At

LEMMA ExitElsewhere ==
  ASSUME NEW code, Exit(code)
  PROVE  Elsewhere
BY NoJobShape DEF JobOK, Exit, Elsewhere, Unadopting, At

\* Every step that leaves marker and adoption alone, away from rm's last one.
LEMMA AwayKeeps ==
  ASSUME MInv, ~Unadopting, KeepAdoption, Elsewhere
  PROVE  MInv'
BY DEF MInv, KeepAdoption, Elsewhere

LEMMA ReportOrLoseElsewhere ==
  ASSUME JobOK, NEW next, next # "unadopt", ReportOrLose(next)
  PROVE  Elsewhere
BY GotoElsewhere, ExitElsewhere DEF ReportOrLose

LEMMA ReadSuiteKeeps == ASSUME MInv, ReadSuite PROVE MInv'
<1>1. ~Unadopting /\ KeepAdoption
  BY DEF ReadSuite, Unadopting, At
<1>2. CASE \E r : job' = [job EXCEPT !.at = "header", !.request = r]
  BY <1>2, <1>1, AwayKeeps DEF MInv, JobOK, Shaped, Elsewhere, Unadopting, At
<1>3. CASE Exit(1)
  BY <1>3, <1>1, AwayKeeps, ExitElsewhere
<1> QED
  BY <1>2, <1>3 DEF ReadSuite

LEMMA ResolveKeeps ==
  ASSUME MInv, NEW field, NEW data, NEW next, field # "unadopt", next # "unadopt",
         Resolve(field, data, next)
  PROVE  MInv'
<1>1. ~Unadopting /\ KeepAdoption
  BY DEF Resolve, Unadopting, At
<1>2. Elsewhere
  BY GotoElsewhere, ReportOrLoseElsewhere DEF Resolve, MInv
<1> QED
  BY <1>1, <1>2, AwayKeeps

LEMMA WriteCMakeKeeps == ASSUME MInv, WriteCMake PROVE MInv'
<1>1. AfterResolve(job.cmd) # "unadopt"
  BY DEF AfterResolve
<1> QED
  BY <1>1, ResolveKeeps DEF WriteCMake

\* Every other step of a command that does not adopt: it is at some other place, goes to
\* another one or ends, and leaves the marker to itself.
LEMMA StepKeeps ==
  ASSUME MInv, NEW at, at # "unadopt", job.at = at, KeepAdoption,
         \/ \E next : next # "unadopt" /\ Goto(next)
         \/ \E code : Exit(code)
  PROVE  MInv'
<1>1. ~Unadopting
  BY DEF Unadopting, At
<1>2. Elsewhere
  BY GotoElsewhere, ExitElsewhere DEF MInv
<1> QED
  BY <1>1, <1>2, AwayKeeps

LEMMA CreateFileKeeps ==
  ASSUME MInv, NEW at, NEW field, NEW next, at # "unadopt", next # "unadopt",
         CreateFile(at, field, next)
  PROVE  MInv'
BY StepKeeps DEF CreateFile, At

LEMMA WriteStubKeeps == ASSUME MInv, WriteStub PROVE MInv'
BY StepKeeps DEF WriteStub, At, ReportOrLose

LEMMA LaterStepsKeep ==
  ASSUME MInv, InitDone \/ Locate \/ Launch \/ ClearScratch \/ DropBuild \/ Promote
  PROVE  MInv'
<1>1. KeepAdoption /\ job.at # "unadopt"
  BY DEF InitDone, Locate, Launch, ClearScratch, DropBuild, Promote, At
<1>2. \/ \E next : next # "unadopt" /\ Goto(next)
      \/ \E code : Exit(code)
  BY DEF InitDone, Locate, Launch, ClearScratch, DropBuild, Promote
<1> QED
  BY <1>1, <1>2, StepKeeps

LEMMA BuildsKeep == ASSUME MInv, BuildRun \/ BuildScratch PROVE MInv'
<1>1. KeepAdoption /\ job.at # "unadopt"
  BY DEF BuildRun, BuildScratch, BuildInto
<1>2. \/ \E next : next # "unadopt" /\ Goto(next)
      \/ \E code : Exit(code)
  BY DEF BuildRun, BuildScratch, BuildInto
<1> QED
  BY <1>1, <1>2, StepKeeps

\* A marker that is written names what is adopted; one that was lost, nothing, whatever the
\* user was told of it.
LEMMA AdoptKeeps ==
  ASSUME MInv, AdoptFound \/ AdoptNew
  PROVE  MInv'
<1>1. ~Unadopting
  BY DEF AdoptFound, AdoptNew, Unadopting, At
<1>2. Elsewhere
  BY GotoElsewhere, ExitElsewhere DEF AdoptFound, AdoptNew, Adopt, MInv
<1>3. \/ marker' = job.path /\ adopted' = job.path.dir /\ mishap' = "none"
      \/ marker' = NoPath /\ mishap' = "lost"
      \/ KeepAdoption
  BY Zenon DEF AdoptFound, AdoptNew, Adopt
<1>4. CASE KeepAdoption
  BY <1>1, <1>2, <1>4, AwayKeeps
<1>5. CASE marker' = job.path /\ adopted' = job.path.dir /\ mishap' = "none"
  BY <1>2, <1>5 DEF MInv, Elsewhere
<1>6. CASE marker' = NoPath /\ mishap' = "lost"
  BY <1>2, <1>6 DEF MInv, Elsewhere, NoPath
<1> QED
  BY <1>3, <1>4, <1>5, <1>6

\* Deleting the adopted suite leaves the marker one step ahead.
LEMMA RemoveAllKeeps == ASSUME MInv, RemoveAll PROVE MInv'
<1>1. ~Unadopting /\ marker' = marker /\ mishap' = mishap /\ job.cmd = "rm"
  BY DEF RemoveAll, Unadopting, At
<1>2. CASE Goto("unadopt") /\ adopted' = (IF adopted = job.path.dir THEN "" ELSE adopted)
  <2>1. JobOK' /\ job'.path = job.path /\ job'.cmd = "rm" /\ job'.at = "unadopt"
    BY <1>1, <1>2 DEF MInv, JobOK, Shaped, Goto
  <2> QED
    BY <1>1, <1>2, <2>1 DEF MInv, JobOK, Unadopting, At
<1>3. CASE Exit(1) /\ UNCHANGED adopted
  BY <1>1, <1>3, AwayKeeps, ExitElsewhere DEF KeepAdoption
<1> QED
  BY <1>2, <1>3 DEF RemoveAll

\* A marker that names the suite rm has just deleted: nothing is adopted then.
LEMMA StraysFromNothing ==
  ASSUME MInv, Unadopting, marker.dir = job.path.dir
  PROVE  adopted = ""
<1>1. job.path.dir # "" /\ adopted # job.path.dir
  BY DEF MInv, JobOK, Unadopting, At
<1>2. mishap # "lost"
  <2>1. NoPath.dir = ""
    BY DEF NoPath
  <2>2. mishap = "lost" => marker.dir = ""
    BY <2>1 DEF MInv
  <2> QED
    BY <1>1, <2>2
<1> QED
  BY <1>1, <1>2 DEF MInv

\* A marker that rm leaves alone, because it could not read it, or because it holds another
\* path, or because it was killed: it strays if it names the deleted suite.
LEMMA StraysKeeps ==
  ASSUME MInv, Unadopting, Strays, Elsewhere, UNCHANGED <<marker, adopted>>
  PROVE  MInv'
<1>1. CASE marker.dir = job.path.dir
  BY <1>1, StraysFromNothing DEF MInv, Strays, Elsewhere
<1>2. CASE marker.dir # job.path.dir
  BY <1>2 DEF MInv, Strays, Elsewhere
<1> QED
  BY <1>1, <1>2

\* rm's last step.
LEMMA ClearKeeps == ASSUME MInv, ClearSuiteIfCurrent PROVE MInv'
<1>1. Unadopting /\ Elsewhere /\ adopted' = adopted
  BY ExitElsewhere DEF ClearSuiteIfCurrent, Unadopting
<1>2. CASE marker = job.path /\ marker' = NoPath /\ mishap' = "none"
  <2>1. adopted = "" /\ marker'.dir = ""
    BY <1>1, <1>2, StraysFromNothing DEF NoPath
  <2> QED
    BY <1>1, <1>2, <2>1 DEF MInv, Elsewhere
<1>3. CASE UNCHANGED marker /\ Strays
  BY <1>1, <1>3, StraysKeeps
<1> QED
  BY <1>2, <1>3 DEF ClearSuiteIfCurrent

LEMMA KillKeeps == ASSUME MInv, Kill PROVE MInv'
<1>1. Elsewhere /\ marker' = marker /\ adopted' = adopted
  BY ExitElsewhere DEF Kill
<1>2. CASE Unadopting
  BY <1>1, <1>2, StraysKeeps DEF Kill, Unadopting
<1>3. CASE ~Unadopting
  BY <1>1, <1>3, AwayKeeps DEF Kill, Unadopting, KeepAdoption
<1> QED
  BY <1>2, <1>3

-----------------------------------------------------------------------------
(* Steps between two commands.                                             *)

LEMMA BeginKeeps ==
  ASSUME MInv, NEW command, NEW path, Shaped(command), command.at # "unadopt",
         command.cmd = "rm" => path.dir # "", Begin(command, path)
  PROVE  MInv'
<1>1. ~Unadopting /\ KeepAdoption
  BY NoJobShape DEF Begin, Unadopting, At, KeepAdoption
<1>2. Elsewhere
  BY DEF Begin, JobOK, Shaped, Elsewhere, Unadopting, At
<1> QED
  BY <1>1, <1>2, AwayKeeps

LEMMA RefuseKeeps ==
  ASSUME MInv, NEW command, NEW code, Refuse(command, code)
  PROVE  MInv'
<1>1. ~Unadopting /\ KeepAdoption
  BY NoJobShape DEF Refuse, Unadopting, At, KeepAdoption
<1>2. Elsewhere
  BY NoJobShape DEF Refuse, JobOK, Elsewhere, Unadopting, At
<1> QED
  BY <1>1, <1>2, AwayKeeps

LEMMA JobShape ==
  ASSUME NEW cmd, NEW at
  PROVE  Shaped(Job(cmd, at)) /\ Job(cmd, at).cmd = cmd /\ Job(cmd, at).at = at
BY DEF Job, Shaped

LEMMA PathCommandsKeep ==
  ASSUME MInv, NEW path \in Paths, InitSuite(path) \/ FindSuite(path) \/ RemoveSuite(path)
  PROVE  MInv'
<1>1. path.dir # ""
  BY DriverAssumption DEF Paths
<1>2. CASE InitSuite(path)
  BY <1>2, JobShape, BeginKeeps DEF InitSuite
<1>3. CASE FindSuite(path)
  BY <1>3, JobShape, BeginKeeps, RefuseKeeps DEF FindSuite
<1>4. CASE RemoveSuite(path)
  BY <1>1, <1>4, JobShape, BeginKeeps, RefuseKeeps DEF RemoveSuite
<1> QED
  BY <1>2, <1>3, <1>4

LEMMA StartRunKeeps ==
  ASSUME MInv, NEW cmd \in {"run", "validate"}, NEW config, StartRun(cmd, config)
  PROVE  MInv'
<1> DEFINE plain == Job(cmd, "read")
           command == [plain EXCEPT !.config = config]
<1>0. Shaped(plain) /\ plain.cmd = cmd /\ plain.at = "read"
  BY JobShape
<1> HIDE DEF plain
<1>1. Shaped(command) /\ command.cmd = cmd /\ command.at = "read"
  BY <1>0 DEF Shaped
<1> USE DEF plain
<1>2. Begin(command, marker) \/ Refuse(command, 1)
  BY DEF StartRun
<1> HIDE DEF command
<1> QED
  BY <1>1, <1>2, BeginKeeps, RefuseKeeps

LEMMA NewTestKeeps ==
  ASSUME MInv, NEW id, NEW kind, NEW flags, NewTest(id, kind, flags)
  PROVE  MInv'
<1>1. PICK entry, isNew, fixture, code :
        \/ Begin([Job("new-test", "stub") EXCEPT !.entry = entry, !.isNew = isNew,
                                                 !.fixture = fixture], marker)
        \/ Refuse([Job("new-test", "stub") EXCEPT !.entry = entry, !.isNew = isNew,
                                                  !.fixture = fixture], code)
        \/ Refuse(Job("new-test", "stub"), code)
  BY Zenon DEF NewTest
<1> DEFINE plain == Job("new-test", "stub")
           named == [plain EXCEPT !.entry = entry]
           dated == [named EXCEPT !.isNew = isNew]
           command == [dated EXCEPT !.fixture = fixture]
<1>3. \/ Begin(command, marker) \/ Refuse(command, code)
      \/ Refuse(Job("new-test", "stub"), code)
  BY <1>1
<1>0. Shaped(plain) /\ plain.cmd = "new-test" /\ plain.at = "stub"
  BY JobShape
<1> HIDE DEF plain
<1>2. Shaped(named) /\ named.cmd = "new-test" /\ named.at = "stub"
  BY <1>0 DEF Shaped
<1> HIDE DEF named
<1>4. Shaped(dated) /\ dated.cmd = "new-test" /\ dated.at = "stub"
  BY <1>2 DEF Shaped
<1> HIDE DEF dated
<1>5. Shaped(command) /\ command.cmd = "new-test" /\ command.at = "stub"
  BY <1>4 DEF Shaped
<1> HIDE DEF command
<1> QED
  BY <1>3, <1>5, BeginKeeps, RefuseKeeps

LEMMA EditKeeps ==
  ASSUME MInv, EditToml \/ EditIni
  PROVE  MInv'
<1>1. ~Unadopting
  BY NoJobShape DEF EditToml, EditIni, MayEdit, Unadopting, At
<1>2. KeepAdoption /\ job' = job
  BY DEF EditToml, EditIni, Edit, KeepAdoption
<1>3. Elsewhere
  BY <1>1, <1>2 DEF MInv, JobOK, Elsewhere, Unadopting, At
<1> QED
  BY <1>1, <1>2, <1>3, AwayKeeps

-----------------------------------------------------------------------------
(* All steps together.                                                     *)

LEMMA AppendsKeep == ASSUME MInv, AppendEntry \/ AppendFixture PROVE MInv'
<1>1. KeepAdoption /\ job.at # "unadopt"
  BY Zenon DEF AppendEntry, AppendToToml, AppendFixture, AppendTo, At
<1>2. \/ Goto("register") \/ Exit(0) \/ Exit(1)
  BY Zenon DEF AppendEntry, AppendToToml, AppendFixture, AppendTo
<1> QED
  BY <1>1, <1>2, StepKeeps

LEMMA DriverStepKeeps == ASSUME MInv, DriverStep PROVE MInv'
<1>1. CASE WriteHeader
  BY <1>1, ResolveKeeps DEF WriteHeader
<1>2. CASE WriteMain
  BY <1>2, ResolveKeeps DEF WriteMain
<1>3. CASE CreateToml
  BY <1>3, CreateFileKeeps DEF CreateToml
<1>4. CASE CreateIni
  BY <1>4, CreateFileKeeps DEF CreateIni
<1> QED
  BY <1>1, <1>2, <1>3, <1>4, ReadSuiteKeeps, WriteCMakeKeeps, AdoptKeeps, RemoveAllKeeps,
     ClearKeeps, WriteStubKeeps, AppendsKeep, BuildsKeep, LaterStepsKeep DEF DriverStep

LEMMA GiveKeeps == ASSUME MInv, Give PROVE MInv'
<1>1. CASE \E path \in Paths : InitSuite(path) \/ FindSuite(path) \/ RemoveSuite(path)
  BY <1>1, PathCommandsKeep
<1>2. CASE \E test \in NewTests, flags \in NewFixtures : NewTest(test.id, test.kind, flags)
  BY <1>2, NewTestKeeps
<1>3. CASE \E cmd \in {"run", "validate"}, i \in DOMAIN Configs : StartRun(cmd, Configs[i])
  BY <1>3, StartRunKeeps
<1> QED
  BY <1>1, <1>2, <1>3 DEF Give

LEMMA MStep == MInv /\ [DriverNext]_dvars => MInv'
<1> SUFFICES ASSUME MInv, [DriverNext]_dvars PROVE MInv'
  OBVIOUS
<1>1. CASE DriverNext
  BY <1>1, GiveKeeps, DriverStepKeeps, KillKeeps, EditKeeps DEF DriverNext
<1>2. CASE UNCHANGED dvars
  BY <1>2 DEF dvars, history, MInv, JobOK, Unadopting, At
<1> QED
  BY <1>1, <1>2

\* adoptSuite and clearSuiteIfCurrent over all commands, spellings and faults: between two
\* commands the marker names the suite that was adopted last and none once rm has deleted it,
\* except that it strays from an rm that was killed before it got to it, could not remove it
\* or spelled its path differently; after an adoption that truncated it and failed it names
\* no suite.
THEOREM MarkerIsTheAdopted == DriverSpec => []MarkerIsAdopted
<1>1. DriverSpec => []MInv
  BY MInit, MStep, PTL DEF DriverSpec
<1> QED
  BY <1>1, MInvImpliesMarker, PTL

-----------------------------------------------------------------------------
(* What validate promotes.                                                 *)

FileNames == {"toml", "ini", "stubs", "header", "main", "cmake", "build", "scratch"}

\* Whatever is generated or built for a directory carries the name of that directory.
Sited(s, d) ==
  /\ s = [f \in FileNames |-> s[f]]
  /\ s.cmake.whole => s.cmake.data.name = d
  /\ \A e \in s.build \cup s.scratch : e.name = d

SuitesOK == suites = [d \in Dirs |-> suites[d]] /\ \A d \in Dirs : Sited(suites[d], d)

PathsOK == marker \in Paths \cup {NoPath} /\ (job.at # "idle" => job.path \in Paths)

Stages == {"read", "header", "main", "cmake", "clear", "scratch", "drop", "promote"}

Own(build, config) == {e \in build : e.config = config}

\* What a build directory holds of a config is this program, and, undisturbed, it holds
\* nothing else.
Faithful(build, config, program, disturbed) ==
  /\ {e.program : e \in Own(build, config)} = {program}
  /\ disturbed \/ Own(build, config) = build

AllOf(s) == Request(ReadRegistryIni(s.ini).fixtures, ReadSuiteToml(s.toml).tests)

\* What is known of a suite at each stage of its validate.
Validating ==
  job.cmd = "validate" =>
    /\ job.at \in Stages
    /\ job.at # "read" => job.request = AllOf(Suite)
    /\ job.at \in {"cmake", "clear", "scratch"} /\ Suite.main.whole =>
         Suite.main.data = Declared(Suite)
    /\ job.at = "scratch" => faulted \/ Suite.scratch = {}
    /\ job.at \in {"drop", "promote"} =>
         Faithful(Suite.scratch, job.config, Declared(Suite), faulted)
    /\ Suite.build = IF job.at = "promote" THEN {} ELSE before.build

\* The strengthening: validate by its stages, and names that fit.
PInv == PathsOK /\ SuitesOK /\ Validating /\ ValidatePromotesWhatBuilt

LEMMA GoesOn ==
  ASSUME JobOK, NEW next, Goto(next)
  PROVE  /\ job'.at = next /\ job'.cmd = job.cmd /\ job'.path = job.path
         /\ job'.config = job.config /\ job'.request = job.request /\ last' = last
<1>1. Shaped(job)
  BY DEF JobOK
<1> QED
  BY <1>1 DEF Shaped, Goto

LEMMA Ends ==
  ASSUME JobOK, NEW code, Exit(code)
  PROVE  /\ job' = NoJob /\ last'.code = code /\ last'.job.cmd = job.cmd
         /\ last'.job.path = job.path /\ last'.job.config = job.config
<1> DEFINE stopped == [job EXCEPT !.at = "idle", !.request = NoJob.request]
<1>0. Shaped(job)
  BY DEF JobOK
<1>1. stopped.cmd = job.cmd /\ stopped.path = job.path /\ stopped.config = job.config
  BY <1>0 DEF Shaped
<1>2. job' = NoJob /\ last' = [job |-> stopped, code |-> code]
  BY DEF Exit
<1> QED
  BY <1>1, <1>2

LEMMA PutField ==
  ASSUME SuitesOK, NEW field \in FileNames, NEW value, job.path.dir \in Dirs, Put(field, value)
  PROVE  /\ suites' = [d \in Dirs |-> suites'[d]]
         /\ \A d \in Dirs \ {job.path.dir} : suites'[d] = suites[d]
         /\ suites'[job.path.dir] = [f \in FileNames |-> IF f = field THEN value ELSE Suite[f]]
         /\ \A f \in FileNames \ {field} : suites'[job.path.dir][f] = Suite[f]
         /\ suites'[job.path.dir][field] = value
BY DEF Put, SuitesOK, Sited, Suite

LEMMA PutKeepsSuites ==
  ASSUME SuitesOK, NEW field \in FileNames, NEW value, job.path.dir \in Dirs, Put(field, value),
         field = "cmake" /\ value.whole => value.data.name = job.path.dir,
         field \in {"build", "scratch"} => \A e \in value : e.name = job.path.dir
  PROVE  SuitesOK'
<1> DEFINE s == suites'[job.path.dir]
<1>1. /\ suites' = [d \in Dirs |-> suites'[d]]
      /\ \A d \in Dirs \ {job.path.dir} : suites'[d] = suites[d]
      /\ s = [f \in FileNames |-> IF f = field THEN value ELSE Suite[f]]
      /\ \A f \in FileNames \ {field} : s[f] = Suite[f]
      /\ s[field] = value
  BY PutField
<1>2. Sited(Suite, job.path.dir)
  BY DEF SuitesOK, Suite
<1>3. s = [f \in FileNames |-> s[f]]
  BY <1>1
<1>4. s.cmake.whole => s.cmake.data.name = job.path.dir
  BY <1>1, <1>2 DEF Sited, FileNames
<1>5. \A e \in s.build \cup s.scratch : e.name = job.path.dir
  <2>1. \A e \in s.build : e.name = job.path.dir
    BY <1>1, <1>2 DEF Sited, FileNames
  <2>2. \A e \in s.scratch : e.name = job.path.dir
    BY <1>1, <1>2 DEF Sited, FileNames
  <2> QED
    BY <2>1, <2>2
<1>6. Sited(s, job.path.dir)
  BY <1>3, <1>4, <1>5 DEF Sited
<1> QED
  BY <1>1, <1>6 DEF SuitesOK

\* While a command runs, nothing is promised.
LEMMA Unpromised ==
  ASSUME job'.at # "idle"
  PROVE  ValidatePromotesWhatBuilt'
BY NoJobShape DEF ValidatePromotesWhatBuilt

\* A step of any other command.
LEMMA AsideKeeps ==
  ASSUME JobOK, PathsOK, job.at # "idle", job.cmd # "validate", marker' \in Paths \cup {NoPath},
         \/ \E next : next # "idle" /\ Goto(next)
         \/ \E code : Exit(code)
  PROVE  PathsOK' /\ Validating' /\ ValidatePromotesWhatBuilt'
<1>1. CASE \E next : next # "idle" /\ Goto(next)
  <2>1. job'.at # "idle" /\ job'.cmd = job.cmd /\ job'.path = job.path
    BY <1>1, GoesOn
  <2> QED
    BY <2>1, Unpromised DEF PathsOK, Validating
<1>2. CASE \E code : Exit(code)
  <2>1. job' = NoJob /\ last'.job.cmd = job.cmd
    BY <1>2, Ends
  <2> QED
    BY <2>1, NoJobShape DEF PathsOK, Validating, ValidatePromotesWhatBuilt
<1> QED
  BY <1>1, <1>2

\* validate fails: run's build is as it was, or a part of that.
LEMMA FailureKeeps ==
  ASSUME JobOK, PathsOK, NEW code, code # 0, Exit(code), before' = before, marker' = marker,
         job.cmd = "validate",
         LET build == suites'[job.path.dir].build
         IN  build \subseteq before.build /\ (faulted' \/ build = before.build)
  PROVE  PathsOK' /\ Validating' /\ ValidatePromotesWhatBuilt'
<1>1. /\ job' = NoJob /\ last'.code # 0 /\ last'.job.path = job.path
  BY Ends
<1>2. PathsOK' /\ Validating'
  BY <1>1, NoJobShape DEF PathsOK, Validating
<1>3. ValidatePromotesWhatBuilt'
  BY <1>1 DEF ValidatePromotesWhatBuilt
<1> QED
  BY <1>2, <1>3

LEMMA SameFiles ==
  ASSUME NEW s, NEW t, s.toml = t.toml, s.ini = t.ini
  PROVE  AllOf(s) = AllOf(t) /\ Declared(s) = Declared(t)
BY DEF AllOf, Declared

\* validate goes on to its next stage.
LEMMA StageKeeps ==
  ASSUME JobOK, PathsOK, job.cmd = "validate", job.at # "idle",
         NEW next \in Stages \ {"read"}, Goto(next), marker' = marker, before' = before,
         NEW s, s = suites'[job.path.dir], s.toml = Suite.toml, s.ini = Suite.ini,
         job.request = AllOf(Suite),
         next \in {"cmake", "clear", "scratch"} /\ s.main.whole => s.main.data = Declared(Suite),
         next = "scratch" => faulted' \/ s.scratch = {},
         next \in {"drop", "promote"} => Faithful(s.scratch, job.config, Declared(Suite), faulted'),
         s.build = IF next = "promote" THEN {} ELSE before.build
  PROVE  PathsOK' /\ Validating' /\ ValidatePromotesWhatBuilt'
<1>1. /\ job'.at = next /\ job'.cmd = "validate" /\ job'.path = job.path
      /\ job'.config = job.config /\ job'.request = job.request
  BY GoesOn
<1>2. AllOf(s) = AllOf(Suite) /\ Declared(s) = Declared(Suite)
  BY SameFiles
<1>3. Suite' = s
  BY <1>1 DEF Suite
<1>4. PathsOK' /\ ValidatePromotesWhatBuilt'
  BY <1>1, Unpromised DEF PathsOK, Stages
<1>5. Validating'
  BY <1>1, <1>2, <1>3 DEF Validating
<1> QED
  BY <1>4, <1>5

LEMMA ReadSuiteStage ==
  ASSUME JobOK, PInv, ReadSuite
  PROVE  PInv'
<1>1. SuitesOK' /\ marker' = marker /\ before' = before /\ job.at = "read"
  BY DEF PInv, SuitesOK, ReadSuite, KeepAdoption, Quiet
<1>2. CASE Exit(1)
  <2>1. CASE job.cmd = "validate"
    <3>1. Suite.build = before.build /\ suites'[job.path.dir].build = Suite.build
      BY <1>1, <2>1 DEF PInv, Validating, Stages, ReadSuite, Suite
    <3> QED
      BY <1>1, <1>2, <2>1, <3>1, FailureKeeps DEF PInv
  <2>2. CASE job.cmd # "validate"
    BY <1>1, <1>2, <2>2, AsideKeeps DEF PInv, PathsOK
  <2> QED
    BY <1>1, <2>1, <2>2 DEF PInv
<1>3. CASE job' = [job EXCEPT !.at = "header", !.request = AllOf(Suite)] /\ UNCHANGED last
  <2>0. Shaped(job)
    BY DEF JobOK
  <2>1. /\ job'.at = "header" /\ job'.cmd = job.cmd /\ job'.path = job.path
        /\ job'.config = job.config /\ job'.request = AllOf(Suite)
    BY <1>3, <2>0 DEF Shaped
  <2>2. Suite' = Suite /\ suites' = suites
    BY <2>1 DEF ReadSuite, Suite
  <2>3. PathsOK' /\ ValidatePromotesWhatBuilt'
    BY <1>1, <2>1, Unpromised DEF PInv, PathsOK
  <2>4. Validating'
    BY <1>1, <2>1, <2>2 DEF PInv, Validating, Stages
  <2> QED
    BY <1>1, <2>3, <2>4 DEF PInv
<1> QED
  BY <1>2, <1>3 DEF ReadSuite, AllOf

\* The three files of resolve.
LEMMA ResolveStage ==
  ASSUME JobOK, PInv, NEW field \in {"header", "main", "cmake"}, NEW data, NEW next,
         next = CASE field = "header" -> "main" [] field = "main" -> "cmake"
                  [] OTHER -> AfterResolve(job.cmd),
         field = "main" => data = BuildMain(job.request.fixtures, job.request.tests),
         field = "cmake" => data.name = job.path.dir,
         Resolve(field, data, next)
  PROVE  PInv'
<1> DEFINE s == suites'[job.path.dir]
<1>1. /\ job.at = field /\ job.path.dir \in Dirs /\ marker' = marker /\ before' = before
      /\ field \in FileNames
  BY DEF Resolve, PInv, PathsOK, KeepAdoption, Quiet, Paths, FileNames
<1>2. PICK value : /\ Put(field, value)
                   /\ value.whole => value = Text(data)
                   /\ Goto(next) \/ Exit(1)
  BY DEF Resolve, NoText, ReportOrLose
<1>3. value.whole => value.data = data
  BY <1>2 DEF Text
<1>4. SuitesOK'
  BY <1>1, <1>2, <1>3, PutKeepsSuites DEF PInv
<1>5. \A f \in FileNames \ {field} : s[f] = Suite[f]
  BY <1>1, <1>2, PutField DEF PInv
<1>6. s[field] = value
  BY <1>1, <1>2, PutField DEF PInv
<1>7. s.build = Suite.build /\ s.toml = Suite.toml /\ s.ini = Suite.ini
  BY <1>5 DEF FileNames
<1>8. CASE job.cmd = "validate"
  <2>1. /\ Suite.build = before.build /\ job.request = AllOf(Suite)
        /\ field = "cmake" /\ Suite.main.whole => Suite.main.data = Declared(Suite)
    BY <1>1, <1>8 DEF PInv, Validating
  <2>2. CASE Exit(1)
    BY <1>1, <1>4, <1>7, <1>8, <2>1, <2>2, FailureKeeps DEF PInv
  <2>3. CASE Goto(next)
    <3>1. next \in {"main", "cmake", "clear"} /\ (next = "cmake" <=> field = "main")
          /\ (next = "clear" <=> field = "cmake")
      BY <1>8 DEF AfterResolve
    <3>2. AllOf(Suite).fixtures = ReadRegistryIni(Suite.ini).fixtures
          /\ AllOf(Suite).tests = ReadSuiteToml(Suite.toml).tests
      BY DEF AllOf, Request
    <3>3. field = "main" => data = Declared(Suite)
      BY <2>1, <3>2 DEF Declared
    <3>4. next \in {"cmake", "clear"} /\ s.main.whole => s.main.data = Declared(Suite)
      <4>1. CASE field = "main"
        BY <1>3, <1>6, <3>3, <4>1
      <4>2. CASE field # "main"
        BY <1>5, <2>1, <3>1, <4>2 DEF FileNames
      <4> QED
        BY <4>1, <4>2
    <3>5. next \in Stages \ {"read"} /\ next \notin {"scratch", "drop", "promote"}
      BY <3>1 DEF Stages
    <3> QED
      BY <1>1, <1>4, <1>7, <1>8, <2>1, <2>3, <3>4, <3>5, StageKeeps DEF PInv
  <2> QED
    BY <1>2, <2>2, <2>3
<1>9. CASE job.cmd # "validate"
  <2>1. next # "idle"
    BY DEF AfterResolve
  <2> QED
    BY <1>1, <1>2, <1>4, <1>9, <2>1, AsideKeeps DEF PInv, PathsOK
<1> QED
  BY <1>8, <1>9

\* A step of another command that puts something into one field of its suite.
LEMMA PutAside ==
  ASSUME JobOK, PInv, job.at # "idle", job.cmd # "validate",
         NEW field \in FileNames, NEW value, Put(field, value),
         field = "cmake" /\ value.whole => value.data.name = job.path.dir,
         field \in {"build", "scratch"} => \A e \in value : e.name = job.path.dir,
         marker' \in Paths \cup {NoPath},
         \/ \E next : next # "idle" /\ Goto(next)
         \/ \E code : Exit(code)
  PROVE  PInv'
<1>1. job.path.dir \in Dirs
  BY DEF PInv, PathsOK, Paths
<1>2. SuitesOK'
  BY <1>1, PutKeepsSuites DEF PInv
<1> QED
  BY <1>2, AsideKeeps DEF PInv

LEMMA StillAside ==
  ASSUME JobOK, PInv, job.at # "idle", job.cmd # "validate", UNCHANGED suites,
         marker' \in Paths \cup {NoPath},
         \/ \E next : next # "idle" /\ Goto(next)
         \/ \E code : Exit(code)
  PROVE  PInv'
<1>1. SuitesOK'
  BY DEF PInv, SuitesOK
<1> QED
  BY <1>1, AsideKeeps DEF PInv

LEMMA ClearScratchStage ==
  ASSUME JobOK, PInv, ClearScratch
  PROVE  PInv'
<1> DEFINE s == suites'[job.path.dir]
<1>1. /\ job.at = "clear" /\ Goto("scratch") /\ marker' = marker /\ before' = before
      /\ job.path.dir \in Dirs /\ "scratch" \in FileNames
  BY DEF ClearScratch, PInv, PathsOK, KeepAdoption, Quiet, Paths, FileNames
<1>2. PICK left : Put("scratch", left) /\ left \subseteq Suite.scratch /\ (faulted' \/ left = {})
  BY DEF ClearScratch, RemoveTree, Fault
<1>3. \A e \in left : e.name = job.path.dir
  BY <1>1, <1>2 DEF PInv, SuitesOK, Sited, Suite
<1>4. SuitesOK'
  BY <1>1, <1>2, <1>3, PutKeepsSuites DEF PInv
<1>5. s.scratch = left /\ \A f \in FileNames \ {"scratch"} : s[f] = Suite[f]
  BY <1>1, <1>2, PutField DEF PInv
<1>6. s.build = Suite.build /\ s.toml = Suite.toml /\ s.ini = Suite.ini /\ s.main = Suite.main
  BY <1>5 DEF FileNames
<1>7. CASE job.cmd = "validate"
  <2>1. /\ Suite.build = before.build /\ job.request = AllOf(Suite)
        /\ Suite.main.whole => Suite.main.data = Declared(Suite)
    BY <1>1, <1>7 DEF PInv, Validating
  <2>2. "scratch" \in Stages \ {"read"}
    BY DEF Stages
  <2> QED
    BY <1>1, <1>2, <1>4, <1>5, <1>6, <1>7, <2>1, <2>2, StageKeeps DEF PInv
<1>8. CASE job.cmd # "validate"
  BY <1>1, <1>4, <1>8, AsideKeeps DEF PInv, PathsOK
<1> QED
  BY <1>7, <1>8

\* What a build puts next to what is there.
With(here) == {e \in here : e.config # job.config \/ e.name # Suite.cmake.data.name} \cup {Built}

LEMMA BuiltFits ==
  ASSUME PInv, Configurable, job.path.dir \in Dirs, NEW here, \A e \in here : e.name = job.path.dir
  PROVE  /\ \A e \in With(here) : e.name = job.path.dir
         /\ Own(With(here), job.config) = {Built} /\ Built.program = Suite.main.data
         /\ here = {} => With(here) = {Built}
<1>1. Suite.cmake.data.name = job.path.dir
  BY DEF Configurable, PInv, SuitesOK, Sited, Suite
<1>2. Built.name = job.path.dir /\ Built.config = job.config /\ Built.program = Suite.main.data
  BY <1>1 DEF Built
<1> QED
  BY <1>1, <1>2 DEF Own, With

LEMMA BuildRunStage ==
  ASSUME JobOK, PInv, BuildRun
  PROVE  PInv'
<1>1. /\ job.at = "configure" /\ marker' = marker /\ job.path.dir \in Dirs /\ "build" \in FileNames
      /\ job.cmd # "validate"
  BY DEF BuildRun, BuildInto, PInv, PathsOK, KeepAdoption, Paths, FileNames, Validating, Stages
<1>2. CASE Exit(1) /\ UNCHANGED suites
  BY <1>1, <1>2, StillAside DEF PInv, PathsOK
<1>3. CASE Configurable /\ Goto("locate") /\ Put("build", With(Suite.build))
  <2>1. \A e \in Suite.build : e.name = job.path.dir
    BY <1>1 DEF PInv, SuitesOK, Sited, Suite
  <2>2. \A e \in With(Suite.build) : e.name = job.path.dir
    BY <1>1, <1>3, <2>1, BuiltFits
  <2> QED
    BY <1>1, <1>3, <2>2, PutAside DEF PInv, PathsOK
<1> QED
  BY <1>2, <1>3 DEF BuildRun, BuildInto, With

LEMMA BuildScratchStage ==
  ASSUME JobOK, PInv, BuildScratch
  PROVE  PInv'
<1> DEFINE s == suites'[job.path.dir]
<1>1. /\ job.at = "scratch" /\ marker' = marker /\ before' = before /\ faulted' = faulted
      /\ job.path.dir \in Dirs /\ "scratch" \in FileNames
  BY DEF BuildScratch, BuildInto, PInv, PathsOK, KeepAdoption, Quiet, NoFault, Paths, FileNames
<1>2. \A e \in Suite.scratch : e.name = job.path.dir
  BY <1>1 DEF PInv, SuitesOK, Sited, Suite
<1>3. ASSUME job.cmd = "validate"
      PROVE  /\ Suite.build = before.build /\ job.request = AllOf(Suite)
             /\ Suite.main.whole => Suite.main.data = Declared(Suite)
             /\ faulted \/ Suite.scratch = {}
  BY <1>1, <1>3 DEF PInv, Validating
<1>4. CASE Put("scratch", {}) /\ Exit(1)
  <2>1. SuitesOK'
    BY <1>1, <1>4, PutKeepsSuites DEF PInv
  <2>2. s.build = Suite.build
    BY <1>1, <1>4, PutField DEF PInv, FileNames
  <2>3. CASE job.cmd = "validate"
    BY <1>1, <1>3, <1>4, <2>1, <2>2, <2>3, FailureKeeps DEF PInv
  <2>4. CASE job.cmd # "validate"
    BY <1>1, <1>4, <2>1, <2>4, AsideKeeps DEF PInv, PathsOK
  <2> QED
    BY <2>3, <2>4
<1>5. CASE Configurable /\ Goto("drop") /\ Put("scratch", With(Suite.scratch))
  <2> DEFINE there == With(Suite.scratch)
  <2>1. /\ \A e \in there : e.name = job.path.dir
        /\ Own(there, job.config) = {Built} /\ Built.program = Suite.main.data
        /\ Suite.scratch = {} => there = {Built}
    BY <1>1, <1>2, <1>5, BuiltFits
  <2> HIDE DEF there
  <2>0. Put("scratch", there)
    BY <1>5 DEF there
  <2>2. SuitesOK'
    BY <1>1, <2>0, <2>1, PutKeepsSuites DEF PInv
  <2>3. s.scratch = there /\ \A f \in FileNames \ {"scratch"} : s[f] = Suite[f]
    BY <1>1, <2>0, PutField DEF PInv
  <2>4. s.build = Suite.build /\ s.toml = Suite.toml /\ s.ini = Suite.ini
    BY <2>3 DEF FileNames
  <2>5. CASE job.cmd = "validate"
    <3>1. Built.program = Declared(Suite)
      BY <1>3, <1>5, <2>1, <2>5 DEF Configurable
    <3>2. {e.program : e \in Own(there, job.config)} = {Declared(Suite)}
      BY <2>1, <3>1
    <3>3. Faithful(there, job.config, Declared(Suite), faulted')
      BY <1>1, <1>3, <2>1, <2>5, <3>2 DEF Faithful
    <3>4. "drop" \in Stages \ {"read"}
      BY DEF Stages
    <3> QED
      BY <1>1, <1>3, <1>5, <2>2, <2>3, <2>4, <2>5, <3>3, <3>4, StageKeeps DEF PInv
  <2>6. CASE job.cmd # "validate"
    BY <1>1, <1>5, <2>2, <2>6, AsideKeeps DEF PInv, PathsOK
  <2> QED
    BY <2>5, <2>6
<1> QED
  BY <1>4, <1>5 DEF BuildScratch, BuildInto, With

LEMMA DropBuildStage ==
  ASSUME JobOK, PInv, DropBuild
  PROVE  PInv'
<1> DEFINE s == suites'[job.path.dir]
<1>1. /\ job.at = "drop" /\ marker' = marker /\ before' = before
      /\ job.path.dir \in Dirs /\ "build" \in FileNames
  BY DEF DropBuild, PInv, PathsOK, KeepAdoption, Quiet, Paths, FileNames
<1>2. PICK left : /\ Put("build", left) /\ left \subseteq Suite.build
                  /\ \/ left = {} /\ faulted' = faulted /\ Goto("promote")
                     \/ faulted' /\ Exit(1)
  BY DEF DropBuild, NoFault, Fault
<1>3. \A e \in left : e.name = job.path.dir
  BY <1>1, <1>2 DEF PInv, SuitesOK, Sited, Suite
<1>4. SuitesOK'
  BY <1>1, <1>2, <1>3, PutKeepsSuites DEF PInv
<1>5. s.build = left /\ \A f \in FileNames \ {"build"} : s[f] = Suite[f]
  BY <1>1, <1>2, PutField DEF PInv
<1>6. s.scratch = Suite.scratch /\ s.toml = Suite.toml /\ s.ini = Suite.ini
  BY <1>5 DEF FileNames
<1>7. CASE job.cmd = "validate"
  <2>1. /\ Suite.build = before.build /\ job.request = AllOf(Suite)
        /\ Faithful(Suite.scratch, job.config, Declared(Suite), faulted)
    BY <1>1, <1>7 DEF PInv, Validating
  <2>2. CASE faulted' /\ Exit(1)
    BY <1>1, <1>2, <1>4, <1>5, <1>7, <2>1, <2>2, FailureKeeps DEF PInv
  <2>3. CASE left = {} /\ faulted' = faulted /\ Goto("promote")
    <3>1. "promote" \in Stages \ {"read"}
      BY DEF Stages
    <3>2. Faithful(s.scratch, job.config, Declared(Suite), faulted')
      BY <1>6, <2>1, <2>3
    <3>3. PathsOK /\ s.build = {} /\ "promote" \notin {"cmake", "clear", "scratch"}
          /\ job.at # "idle" /\ s = suites'[job.path.dir]
      BY <1>1, <1>5, <2>3 DEF PInv
    <3> HIDE DEF s
    <3>4. PathsOK' /\ Validating' /\ ValidatePromotesWhatBuilt'
      BY <1>1, <1>6, <1>7, <2>1, <2>3, <3>1, <3>2, <3>3, StageKeeps
    <3> QED
      BY <1>4, <3>4 DEF PInv
  <2> QED
    BY <1>2, <2>2, <2>3
<1>8. CASE job.cmd # "validate"
  BY <1>1, <1>2, <1>4, <1>8, AsideKeeps DEF PInv, PathsOK
<1> QED
  BY <1>7, <1>8

LEMMA PromoteStage ==
  ASSUME JobOK, PInv, Promote
  PROVE  PInv'
<1> DEFINE s == suites'[job.path.dir]
<1>1. /\ job.at = "promote" /\ marker' = marker /\ before' = before /\ job.path.dir \in Dirs
  BY DEF Promote, PInv, PathsOK, KeepAdoption, Quiet, Paths
<1>2. ASSUME job.cmd = "validate"
      PROVE  Suite.build = {} /\ Faithful(Suite.scratch, job.config, Declared(Suite), faulted)
  BY <1>1, <1>2 DEF PInv, Validating
<1>3. CASE UNCHANGED suites /\ faulted' /\ Exit(1)
  <2>1. SuitesOK' /\ s.build = Suite.build
    BY <1>3 DEF PInv, SuitesOK, Suite
  <2>2. CASE job.cmd = "validate"
    BY <1>1, <1>2, <1>3, <2>1, <2>2, FailureKeeps DEF PInv
  <2>3. CASE job.cmd # "validate"
    BY <1>1, <1>3, <2>1, <2>3, AsideKeeps DEF PInv, PathsOK
  <2> QED
    BY <2>2, <2>3
<1>4. CASE /\ suites' = [suites EXCEPT ![job.path.dir].build = Suite.scratch,
                                       ![job.path.dir].scratch = {}]
           /\ faulted' = faulted /\ Exit(0)
  <2>1. /\ suites' = [d \in Dirs |-> suites'[d]]
        /\ \A d \in Dirs \ {job.path.dir} : suites'[d] = suites[d]
        /\ s = [f \in FileNames |-> CASE f = "build" -> Suite.scratch [] f = "scratch" -> {}
                                      [] OTHER -> Suite[f]]
    BY <1>1, <1>4 DEF PInv, SuitesOK, Sited, Suite, FileNames
  <2>2. /\ s = [f \in FileNames |-> s[f]] /\ s.build = Suite.scratch /\ s.scratch = {}
        /\ s.toml = Suite.toml /\ s.ini = Suite.ini /\ s.cmake = Suite.cmake
    <3>1. /\ s["build"] = Suite.scratch /\ s["scratch"] = {} /\ s["toml"] = Suite["toml"]
          /\ s["ini"] = Suite["ini"] /\ s["cmake"] = Suite["cmake"]
      BY <2>1 DEF FileNames
    <3> QED
      BY <2>1, <3>1
  <2>3. Sited(s, job.path.dir)
    <3>1. Sited(Suite, job.path.dir)
      BY <1>1 DEF PInv, SuitesOK, Suite
    <3>2. s.cmake.whole => s.cmake.data.name = job.path.dir
      BY <2>2, <3>1 DEF Sited
    <3>3. \A e \in s.build \cup s.scratch : e.name = job.path.dir
      BY <2>2, <3>1 DEF Sited
    <3> QED
      BY <2>2, <3>2, <3>3 DEF Sited
  <2>4. SuitesOK'
    BY <1>1, <2>1, <2>3 DEF PInv, SuitesOK
  <2>5. CASE job.cmd = "validate"
    <3>1. /\ job' = NoJob /\ last'.code = 0 /\ last'.job.path = job.path
          /\ last'.job.config = job.config
      BY <1>4, Ends
    <3>2. Declared(s) = Declared(Suite)
      BY <2>2, SameFiles
    <3>3. /\ {e.program : e \in {e \in s.build : e.config = job.config}} = {Declared(s)}
          /\ faulted' \/ {e \in s.build : e.config = job.config} = s.build
      BY <1>2, <1>4, <2>2, <2>5, <3>2 DEF Faithful, Own
    <3>4. ValidatePromotesWhatBuilt'
      BY <3>1, <3>3 DEF ValidatePromotesWhatBuilt
    <3>5. PathsOK' /\ Validating'
      BY <1>1, <3>1, NoJobShape DEF PInv, PathsOK, Validating
    <3> QED
      BY <2>4, <3>4, <3>5 DEF PInv
  <2>6. CASE job.cmd # "validate"
    BY <1>1, <1>4, <2>4, <2>6, AsideKeeps DEF PInv, PathsOK
  <2> QED
    BY <2>5, <2>6
<1> QED
  BY <1>3, <1>4 DEF Promote, NoFault, Fault

LEMMA AdoptStage ==
  ASSUME JobOK, PInv, AdoptFound \/ AdoptNew
  PROVE  PInv'
<1>1. job.at # "idle" /\ job.cmd # "validate" /\ UNCHANGED suites
  BY DEF AdoptFound, AdoptNew, Adopt, At
<1>2. marker' \in {marker, job.path, NoPath}
  BY Zenon DEF AdoptFound, AdoptNew, Adopt, KeepAdoption
<1>3. marker' \in Paths \cup {NoPath}
  BY <1>1, <1>2 DEF PInv, PathsOK
<1>4. \/ \E next : next # "idle" /\ Goto(next)
      \/ \E code : Exit(code)
  BY DEF AdoptFound, AdoptNew, Adopt
<1> QED
  BY <1>1, <1>3, <1>4, StillAside

LEMMA CreateStage ==
  ASSUME JobOK, PInv, NEW at, NEW field \in {"toml", "ini"}, NEW next, at # "idle", next # "idle",
         CreateFile(at, field, next)
  PROVE  PInv'
<1>1. job.at # "idle" /\ job.cmd # "validate" /\ Goto(next) /\ marker' \in Paths \cup {NoPath}
  BY DEF CreateFile, At, KeepAdoption, PInv, PathsOK
<1>2. field \in FileNames
  BY DEF FileNames
<1>3. UNCHANGED suites \/ \E value : Put(field, value)
  BY DEF CreateFile
<1> QED
  BY <1>1, <1>2, <1>3, StillAside, PutAside

LEMMA NoSuiteSited == ASSUME NEW d PROVE Sited(NoSuite, d)
BY DEF Sited, FileNames, NoSuite, NoText

LEMMA LeftoverSited ==
  ASSUME NEW s, NEW d, Sited(s, d), NEW left \in Leftover(s)
  PROVE  Sited(left, d)
<1>1. left = [f \in FileNames |-> left[f]]
  BY DEF Leftover, FileNames
<1>2. left.cmake \in {NoText, s.cmake} /\ left.build \subseteq s.build
      /\ left.scratch \subseteq s.scratch
  BY DEF Leftover
<1>3. left.cmake.whole => left.cmake = s.cmake
  BY <1>2 DEF NoText
<1>4. left.cmake.whole => left.cmake.data.name = d
  BY <1>3 DEF Sited
<1>5. \A e \in left.build \cup left.scratch : e.name = d
  BY <1>2 DEF Sited
<1> QED
  BY <1>1, <1>4, <1>5 DEF Sited

LEMMA RemoveStage ==
  ASSUME JobOK, PInv, RemoveAll
  PROVE  PInv'
<1>1. job.at # "idle" /\ job.cmd # "validate" /\ marker' \in Paths \cup {NoPath}
  BY DEF RemoveAll, At, PInv, PathsOK
<1>2. Goto("unadopt") \/ Exit(1)
  BY DEF RemoveAll
<1>3. PICK left : suites' = [suites EXCEPT ![job.path.dir] = left] /\ Sited(left, job.path.dir)
  <2>1. Sited(Suite, job.path.dir)
    BY <1>1, DriverAssumption DEF PInv, PathsOK, SuitesOK, Suite, Paths
  <2> QED
    BY <2>1, NoSuiteSited, LeftoverSited DEF RemoveAll
<1>4. SuitesOK'
  BY <1>3 DEF PInv, SuitesOK
<1> QED
  BY <1>1, <1>2, <1>4, AsideKeeps DEF PInv

LEMMA ClearStage ==
  ASSUME JobOK, PInv, ClearSuiteIfCurrent
  PROVE  PInv'
<1>1. job.at # "idle" /\ job.cmd # "validate" /\ marker' \in Paths \cup {NoPath}
  BY DEF ClearSuiteIfCurrent, At, PInv, PathsOK
<1>2. Exit(0) /\ UNCHANGED suites
  BY DEF ClearSuiteIfCurrent
<1> QED
  BY <1>1, <1>2, StillAside

LEMMA WriteStubStage ==
  ASSUME JobOK, PInv, WriteStub
  PROVE  PInv'
<1>1. job.at # "idle" /\ job.cmd # "validate" /\ marker' \in Paths \cup {NoPath}
  BY DEF WriteStub, At, KeepAdoption, PInv, PathsOK
<1>2. \E value : Put("stubs", value)
  BY DEF WriteStub
<1>3. Goto("entry") \/ Exit(1)
  BY DEF WriteStub, ReportOrLose
<1>4. "stubs" \in FileNames
  BY DEF FileNames
<1> QED
  BY <1>1, <1>2, <1>3, <1>4, PutAside

LEMMA AppendStages ==
  ASSUME JobOK, PInv, AppendEntry \/ AppendFixture
  PROVE  PInv'
<1>1. job.at # "idle" /\ job.cmd # "validate" /\ KeepAdoption
  BY Zenon DEF AppendEntry, AppendToToml, AppendFixture, AppendTo, At
<1>2. marker' \in Paths \cup {NoPath}
  BY <1>1 DEF KeepAdoption, PInv, PathsOK
<1>3. \E value : Put("toml", value) \/ Put("ini", value)
  BY Zenon DEF AppendEntry, AppendToToml, AppendFixture, AppendTo
<1>4. Goto("register") \/ Exit(0) \/ Exit(1)
  BY Zenon DEF AppendEntry, AppendToToml, AppendFixture, AppendTo
<1>5. "toml" \in FileNames /\ "ini" \in FileNames
  BY DEF FileNames
<1> QED
  BY <1>1, <1>2, <1>3, <1>4, <1>5, PutAside

LEMMA QuietStages ==
  ASSUME JobOK, PInv, InitDone \/ Locate \/ Launch
  PROVE  PInv'
<1>1. /\ job.at # "idle" /\ job.cmd # "validate" /\ UNCHANGED suites
      /\ marker' \in Paths \cup {NoPath}
  BY DEF InitDone, Locate, Launch, At, KeepAdoption, PInv, PathsOK, Validating, Stages
<1>2. Goto("launch") \/ Exit(0) \/ Exit(1)
  BY DEF InitDone, Locate, Launch
<1> QED
  BY <1>1, <1>2, StillAside

LEMMA DriverStepStage ==
  ASSUME JobOK, PInv, DriverStep
  PROVE  PInv'
<1>1. CASE WriteHeader
  BY <1>1, ResolveStage DEF WriteHeader
<1>2. CASE WriteMain
  BY <1>2, ResolveStage DEF WriteMain
<1>3. CASE WriteCMake
  <2>1. BuildCMakeLists(job.path, job.request.fixtures).name = job.path.dir
    BY DEF BuildCMakeLists, SuiteExecutableName
  <2> QED
    BY <1>3, <2>1, ResolveStage DEF WriteCMake
<1>4. CASE CreateToml \/ CreateIni
  BY <1>4, CreateStage DEF CreateToml, CreateIni
<1> QED
  BY <1>1, <1>2, <1>3, <1>4, ReadSuiteStage, AdoptStage, RemoveStage, ClearStage, WriteStubStage,
     AppendStages, BuildRunStage, QuietStages, ClearScratchStage, BuildScratchStage,
     DropBuildStage, PromoteStage DEF DriverStep

LEMMA KillStage ==
  ASSUME JobOK, PInv, Kill
  PROVE  PInv'
<1>1. /\ Exit(-1) /\ faulted' /\ UNCHANGED suites /\ marker' = marker /\ before' = before
  BY DEF Kill, Fault, Quiet
<1>2. SuitesOK'
  BY <1>1 DEF PInv, SuitesOK
<1>3. CASE job.cmd = "validate"
  <2>1. Suite.build \subseteq before.build /\ suites'[job.path.dir].build = Suite.build
    BY <1>1, <1>3 DEF PInv, Validating, Suite
  <2> QED
    BY <1>1, <1>2, <1>3, <2>1, FailureKeeps DEF PInv
<1>4. CASE job.cmd # "validate"
  <2>1. job' = NoJob /\ last'.job.cmd = job.cmd
    BY <1>1, Ends
  <2>2. PathsOK' /\ Validating' /\ ValidatePromotesWhatBuilt'
    BY <1>1, <1>4, <2>1, NoJobShape DEF PInv, PathsOK, Validating, ValidatePromotesWhatBuilt
  <2> QED
    BY <1>2, <2>2 DEF PInv
<1> QED
  BY <1>3, <1>4

LEMMA BeginStage ==
  ASSUME PInv, NEW command, NEW path \in Paths, Shaped(command), command.at # "idle",
         command.cmd = "validate" => command.at = "read", Begin(command, path)
  PROVE  PInv'
<1>1. /\ UNCHANGED suites /\ marker' = marker
      /\ job' = [command EXCEPT !.path = path]
      /\ command.cmd = "validate" => before' = suites[path.dir]
  BY Zenon DEF Begin
<1>2. job'.at = command.at /\ job'.cmd = command.cmd /\ job'.path = path
  BY <1>1 DEF Shaped
<1>3. SuitesOK' /\ PathsOK' /\ ValidatePromotesWhatBuilt'
  BY <1>1, <1>2, Unpromised DEF PInv, SuitesOK, PathsOK
<1>4. Suite' = suites[path.dir]
  BY <1>1, <1>2 DEF Suite
<1>5. Validating'
  BY <1>1, <1>2, <1>4 DEF Validating, Stages
<1> QED
  BY <1>3, <1>5 DEF PInv

LEMMA RefuseStage ==
  ASSUME PInv, NEW command, Shaped(command), command.path = NoPath, NEW code, Refuse(command, code)
  PROVE  PInv'
<1>1. /\ UNCHANGED <<suites, marker, job>> /\ job = NoJob
      /\ last' = [job |-> [command EXCEPT !.at = "idle"], code |-> code]
  BY DEF Refuse
<1>2. last'.job.path = NoPath
  BY <1>1 DEF Shaped
<1>3. SuitesOK' /\ PathsOK' /\ Validating'
  BY <1>1, NoJobShape DEF PInv, SuitesOK, PathsOK, Validating
<1>4. ValidatePromotesWhatBuilt'
  BY <1>2 DEF ValidatePromotesWhatBuilt
<1> QED
  BY <1>3, <1>4 DEF PInv

LEMMA JobPath == ASSUME NEW cmd, NEW at PROVE Job(cmd, at).path = NoPath
BY DEF Job

LEMMA PathCommandStages ==
  ASSUME PInv, NEW path \in Paths, InitSuite(path) \/ FindSuite(path) \/ RemoveSuite(path)
  PROVE  PInv'
<1>1. CASE InitSuite(path)
  BY <1>1, JobShape, BeginStage DEF InitSuite
<1>2. CASE FindSuite(path)
  BY <1>2, JobShape, JobPath, BeginStage, RefuseStage DEF FindSuite
<1>3. CASE RemoveSuite(path)
  BY <1>3, JobShape, JobPath, BeginStage, RefuseStage DEF RemoveSuite
<1> QED
  BY <1>1, <1>2, <1>3

LEMMA LoadedPath == ASSUME PInv, Loads(marker) PROVE marker \in Paths
BY DEF PInv, PathsOK, Loads

LEMMA StartRunStage ==
  ASSUME PInv, NEW cmd \in {"run", "validate"}, NEW config, StartRun(cmd, config)
  PROVE  PInv'
<1> DEFINE plain == Job(cmd, "read")
           command == [plain EXCEPT !.config = config]
<1>0. Shaped(plain) /\ plain.cmd = cmd /\ plain.at = "read" /\ plain.path = NoPath
  BY JobShape, JobPath
<1> HIDE DEF plain
<1>1. /\ Shaped(command) /\ command.cmd = cmd /\ command.at = "read"
      /\ command.path = NoPath
  BY <1>0 DEF Shaped
<1> USE DEF plain
<1>2. (Loads(marker) /\ Begin(command, marker)) \/ Refuse(command, 1)
  BY DEF StartRun
<1> HIDE DEF command
<1> QED
  BY <1>1, <1>2, LoadedPath, BeginStage, RefuseStage

LEMMA NewTestStage ==
  ASSUME PInv, NEW id, NEW kind, NEW flags, NewTest(id, kind, flags)
  PROVE  PInv'
<1>1. PICK entry, isNew, fixture, code :
        \/ /\ Loads(marker)
           /\ Begin([Job("new-test", "stub") EXCEPT !.entry = entry, !.isNew = isNew,
                                                    !.fixture = fixture], marker)
        \/ Refuse([Job("new-test", "stub") EXCEPT !.entry = entry, !.isNew = isNew,
                                                  !.fixture = fixture], code)
        \/ Refuse(Job("new-test", "stub"), code)
  BY Zenon DEF NewTest
<1> DEFINE plain == Job("new-test", "stub")
           named == [plain EXCEPT !.entry = entry]
           dated == [named EXCEPT !.isNew = isNew]
           command == [dated EXCEPT !.fixture = fixture]
<1>3. \/ Loads(marker) /\ Begin(command, marker)
      \/ Refuse(command, code) \/ Refuse(plain, code)
  BY <1>1
<1>0. Shaped(plain) /\ plain.cmd = "new-test" /\ plain.at = "stub" /\ plain.path = NoPath
  BY JobShape, JobPath
<1> HIDE DEF plain
<1>2. Shaped(named) /\ named.cmd = "new-test" /\ named.at = "stub" /\ named.path = NoPath
  BY <1>0 DEF Shaped
<1> HIDE DEF named
<1>4. Shaped(dated) /\ dated.cmd = "new-test" /\ dated.at = "stub" /\ dated.path = NoPath
  BY <1>2 DEF Shaped
<1> HIDE DEF dated
<1>5. Shaped(command) /\ command.cmd = "new-test" /\ command.at = "stub" /\ command.path = NoPath
  BY <1>4 DEF Shaped
<1> HIDE DEF command
<1> QED
  BY <1>0, <1>3, <1>5, LoadedPath, BeginStage, RefuseStage

LEMMA GiveStage == ASSUME PInv, Give PROVE PInv'
<1>1. CASE \E path \in Paths : InitSuite(path) \/ FindSuite(path) \/ RemoveSuite(path)
  BY <1>1, PathCommandStages
<1>2. CASE \E test \in NewTests, flags \in NewFixtures : NewTest(test.id, test.kind, flags)
  BY <1>2, NewTestStage
<1>3. CASE \E cmd \in {"run", "validate"}, i \in DOMAIN Configs : StartRun(cmd, Configs[i])
  BY <1>3, StartRunStage
<1> QED
  BY <1>1, <1>2, <1>3 DEF Give

LEMMA EditStage == ASSUME PInv, EditToml \/ EditIni PROVE PInv'
<1>1. job = NoJob /\ Loads(marker)
  BY DEF EditToml, EditIni, MayEdit
<1>2. PICK field \in {"toml", "ini"} : \E file : Edit(field, file)
  BY Zenon DEF EditToml, EditIni
<1>3. PICK file : Edit(field, file)
  BY <1>2
<1>4. /\ suites' = [suites EXCEPT ![marker.dir][field] = file]
      /\ UNCHANGED <<marker, job>> /\ last' = NoResult
  BY <1>3 DEF Edit
<1>5. marker.dir \in Dirs
  BY <1>1, LoadedPath DEF Paths
<1>6. SuitesOK'
  <2> DEFINE s == suites'[marker.dir]
  <2>1. /\ suites' = [d \in Dirs |-> suites'[d]]
        /\ \A d \in Dirs \ {marker.dir} : suites'[d] = suites[d]
        /\ s = [f \in FileNames |-> IF f = field THEN file ELSE suites[marker.dir][f]]
    BY <1>4, <1>5 DEF PInv, SuitesOK, Sited, FileNames
  <2>2. \A f \in FileNames \ {"toml", "ini"} : s[f] = suites[marker.dir][f]
    BY <2>1
  <2>3. s = [f \in FileNames |-> s[f]]
    BY <2>1
  <2>4. Sited(suites[marker.dir], marker.dir)
    BY <1>5 DEF PInv, SuitesOK
  <2>5. Sited(s, marker.dir)
    BY <2>2, <2>3, <2>4 DEF Sited, FileNames
  <2> QED
    BY <2>1, <2>5 DEF PInv, SuitesOK
<1>7. PathsOK' /\ Validating'
  BY <1>1, <1>4, NoJobShape DEF PInv, PathsOK, Validating
<1>8. ValidatePromotesWhatBuilt'
  BY <1>4, NoJobShape DEF ValidatePromotesWhatBuilt, NoResult
<1> QED
  BY <1>6, <1>7, <1>8 DEF PInv

LEMMA PInit == DriverInit => PInv
<1> SUFFICES ASSUME DriverInit PROVE PInv
  OBVIOUS
<1>1. /\ job = NoJob /\ marker = NoPath /\ last = NoResult
      /\ suites = [d \in Dirs |-> NoSuite]
  BY DEF DriverInit
<1>2. SuitesOK
  BY <1>1, NoSuiteSited DEF SuitesOK
<1>3. PathsOK /\ Validating
  BY <1>1, NoJobShape DEF PathsOK, Validating
<1>4. ValidatePromotesWhatBuilt
  BY <1>1, NoJobShape DEF ValidatePromotesWhatBuilt, NoResult
<1> QED
  BY <1>2, <1>3, <1>4 DEF PInv

LEMMA PStep == JobOK /\ PInv /\ [DriverNext]_dvars => PInv'
<1> SUFFICES ASSUME JobOK, PInv, [DriverNext]_dvars PROVE PInv'
  OBVIOUS
<1>1. CASE DriverNext
  BY <1>1, GiveStage, DriverStepStage, KillStage, EditStage DEF DriverNext
<1>2. CASE UNCHANGED dvars
  <2>1. UNCHANGED <<marker, suites, job, last, before, faulted>>
    BY <1>2 DEF dvars, history
  <2> QED
    BY <2>1 DEF PInv, SuitesOK, Sited, PathsOK, Validating, ValidatePromotesWhatBuilt, Suite
<1> QED
  BY <1>1, <1>2, Zenon

\* validate only ever puts what it built, and what is declared, into run's build, and a
\* validate that fails or is killed anywhere leaves there no more than there was: cmdValidate
\* of Commands.cpp, over all commands, files and faults.
THEOREM PromotesWhatBuilt == DriverSpec => []ValidatePromotesWhatBuilt
<1>1. DriverSpec => []MInv
  BY MInit, MStep, PTL DEF DriverSpec
<1>2. MInv => JobOK
  BY DEF MInv
<1>3. PInv => ValidatePromotesWhatBuilt
  BY DEF PInv
<1> QED
  BY <1>1, <1>2, <1>3, PInit, PStep, PTL DEF DriverSpec

-----------------------------------------------------------------------------
(* What run starts.                                                        *)

RunStages == {"read", "header", "main", "cmake", "configure", "locate", "launch"}
LateStages == {"configure", "locate", "launch"}

Programs(build, config) == {e.program : e \in Own(build, config)}

\* What is known of a suite at each stage of its run, which only run has the last ones of.
Running ==
  /\ job.at \in LateStages => job.cmd = "run"
  /\ job.cmd = "run" =>
       /\ job.at \in RunStages
       /\ job.at # "read" => job.request = AllOf(Suite)
       /\ job.at \in {"cmake", "configure"} /\ Suite.main.whole =>
            Suite.main.data = Declared(Suite)
       /\ job.at \in {"locate", "launch"} =>
            Programs(Suite.build, job.config) = {Declared(Suite)}
       /\ job.at = "launch" => Executable # {}

\* Of the executables of that name the one of the config asked for is found, if there is one.
LEMMA FindsOwn ==
  ASSUME NEW build, NEW name, NEW config, Own(build, config) # {}, \A e \in build : e.name = name
  PROVE  FindGeneratedExecutable(build, name, config) = Own(build, config)
<1> DEFINE order == <<config>> \o Configs
           at(i) == {e \in build : e.name = name /\ e.config = order[i]}
           found == {i \in DOMAIN order : at(i) # {}}
<1>1. DOMAIN order \subseteq Nat \ {0} /\ 1 \in DOMAIN order /\ order[1] = config
  <2>0. PICK names : Configs \in Seq(names)
    BY DriverAssumption
  <2> DEFINE known == names \cup {config}
  <2>1. Configs \in Seq(names) /\ config \in known /\ names \subseteq known
    BY <2>0
  <2> HIDE DEF known
  <2>2. <<config>> \in Seq(known) /\ Configs \in Seq(known)
    <3>1. \A k \in 1 .. Len(Configs) : Configs[k] \in known
      BY <2>1
    <3>2. Len(Configs) \in Nat /\ Configs = [k \in 1 .. Len(Configs) |-> Configs[k]]
      BY <2>1
    <3> QED
      BY <2>1, <3>1, <3>2
  <2> QED
    BY <2>2
<1> HIDE DEF order
<1>2. at(1) = Own(build, config)
  BY <1>1 DEF Own
<1>3. 1 \in found /\ found \subseteq Nat \ {0}
  BY <1>1, <1>2
<1>4. FindGeneratedExecutable(build, name, config)
        = at(CHOOSE i \in found : \A k \in found : i <= k)
  <2>1. FindGeneratedExecutable(build, name, config)
          = IF found = {} THEN {} ELSE at(CHOOSE i \in found : \A k \in found : i <= k)
    BY DEF FindGeneratedExecutable, order
  <2> QED
    BY <1>3, <2>1
<1>5. (CHOOSE i \in found : \A k \in found : i <= k) = 1
  <2> HIDE DEF found
  <2>1. \A k \in found : 1 <= k
    BY <1>3
  <2>2. \A i \in found : (\A k \in found : i <= k) => i = 1
    BY <1>3
  <2> QED
    BY <1>3, <2>1, <2>2
<1> QED
  BY <1>2, <1>4, <1>5

\* What is found has the name that was looked for.
LEMMA FoundIsNamed ==
  ASSUME NEW build, NEW name, NEW config, FindGeneratedExecutable(build, name, config) # {}
  PROVE  \E e \in build : e.name = name
BY DEF FindGeneratedExecutable

LEMMA RunningMeansDeclared ==
  ASSUME PInv, Running
  PROVE  ProgramIsDeclared
<1> DEFINE name == DriverExecutableName(job.path)
<1>1. ASSUME job.at \in {"locate", "launch"}
      PROVE  /\ job.cmd = "run" /\ Programs(Suite.build, job.config) = {Declared(Suite)}
             /\ Own(Suite.build, job.config) # {}
             /\ \A e \in Suite.build : e.name = job.path.dir
  <2>1. job.path.dir \in Dirs
    BY <1>1 DEF PInv, PathsOK, Paths
  <2>2. \A e \in Suite.build : e.name = job.path.dir
    BY <2>1 DEF PInv, SuitesOK, Sited, Suite
  <2>3. job.cmd = "run" /\ Programs(Suite.build, job.config) = {Declared(Suite)}
    BY <1>1 DEF Running, LateStages
  <2> QED
    BY <2>2, <2>3 DEF Programs
<1>2. ASSUME job.at = "launch" PROVE {e.program : e \in Executable} = {Declared(Suite)}
  <2>1. Executable # {}
    BY <1>1, <1>2 DEF Running
  <2>2. name = job.path.dir
    BY <1>1, <1>2, <2>1, FoundIsNamed DEF Executable
  <2>3. Executable = Own(Suite.build, job.config)
    BY <1>1, <1>2, <2>2, FindsOwn DEF Executable
  <2> QED
    BY <1>1, <1>2, <2>3 DEF Programs
<1>3. ASSUME job.at = "locate", job.path.spelling = "plain" PROVE Executable # {}
  <2>1. name = job.path.dir
    BY <1>3 DEF DriverExecutableName
  <2> QED
    BY <1>1, <1>3, <2>1, FindsOwn DEF Executable
<1> QED
  BY <1>2, <1>3 DEF ProgramIsDeclared

LEMMA RunOver ==
  ASSUME job' = NoJob
  PROVE  Running'
BY NoJobShape DEF Running, LateStages

LEMMA RunAside ==
  ASSUME JobOK, job.cmd # "run", NEW next, next \notin LateStages, Goto(next)
  PROVE  Running'
<1>1. job'.at = next /\ job'.cmd = job.cmd
  BY GoesOn
<1> QED
  BY <1>1 DEF Running

LEMMA RunGoesOn ==
  ASSUME JobOK, job.cmd = "run", NEW next \in RunStages \ {"read"}, Goto(next),
         NEW s, s = suites'[job.path.dir], s.toml = Suite.toml, s.ini = Suite.ini,
         job.request = AllOf(Suite),
         next \in {"cmake", "configure"} /\ s.main.whole => s.main.data = Declared(Suite),
         next \in {"locate", "launch"} => Programs(s.build, job.config) = {Declared(Suite)},
         next = "launch" => Executable # {} /\ s.build = Suite.build
  PROVE  Running'
<1>1. /\ job'.at = next /\ job'.cmd = "run" /\ job'.path = job.path
      /\ job'.config = job.config /\ job'.request = job.request
  BY GoesOn
<1>2. AllOf(s) = AllOf(Suite) /\ Declared(s) = Declared(Suite)
  BY SameFiles
<1>3. Suite' = s
  BY <1>1 DEF Suite
<1>4. next = "launch" => Executable' # {}
  BY <1>1, <1>3 DEF Executable
<1> QED
  BY <1>1, <1>2, <1>3, <1>4 DEF Running

LEMMA ReadSuiteRuns ==
  ASSUME JobOK, PInv, Running, ReadSuite
  PROVE  Running'
<1>1. CASE Exit(1)
  BY <1>1, Ends, RunOver
<1>2. CASE job' = [job EXCEPT !.at = "header", !.request = AllOf(Suite)] /\ UNCHANGED suites
  <2>0. Shaped(job)
    BY DEF JobOK
  <2>1. /\ job'.at = "header" /\ job'.cmd = job.cmd /\ job'.path = job.path
        /\ job'.request = AllOf(Suite)
    BY <1>2, <2>0 DEF Shaped
  <2>2. Suite' = Suite
    BY <1>2, <2>1 DEF Suite
  <2> QED
    BY <2>1, <2>2 DEF Running, RunStages, LateStages, AllOf
<1> QED
  BY <1>1, <1>2 DEF ReadSuite, AllOf

LEMMA ResolveRuns ==
  ASSUME JobOK, PInv, Running, NEW field \in {"header", "main", "cmake"}, NEW data, NEW next,
         next = CASE field = "header" -> "main" [] field = "main" -> "cmake"
                  [] OTHER -> AfterResolve(job.cmd),
         field = "main" => data = BuildMain(job.request.fixtures, job.request.tests),
         Resolve(field, data, next)
  PROVE  Running'
<1> DEFINE s == suites'[job.path.dir]
<1>1. job.at = field /\ job.path.dir \in Dirs /\ field \in FileNames
  BY DEF Resolve, PInv, PathsOK, Paths, FileNames
<1>2. PICK value : /\ Put(field, value)
                   /\ value.whole => value = Text(data)
                   /\ Goto(next) \/ Exit(1)
  BY DEF Resolve, NoText, ReportOrLose
<1>3. value.whole => value.data = data
  BY <1>2 DEF Text
<1>4. \A f \in FileNames \ {field} : s[f] = Suite[f]
  BY <1>1, <1>2, PutField DEF PInv
<1>5. s[field] = value
  BY <1>1, <1>2, PutField DEF PInv
<1>6. s.toml = Suite.toml /\ s.ini = Suite.ini
  BY <1>4 DEF FileNames
<1>7. CASE Exit(1)
  BY <1>7, Ends, RunOver
<1>8. CASE Goto(next) /\ job.cmd # "run"
  <2>1. next \notin LateStages
    BY <1>8 DEF AfterResolve, LateStages
  <2> QED
    BY <1>8, <2>1, RunAside
<1>9. CASE Goto(next) /\ job.cmd = "run"
  <2>1. /\ job.request = AllOf(Suite)
        /\ field = "cmake" /\ Suite.main.whole => Suite.main.data = Declared(Suite)
    BY <1>1, <1>9 DEF Running
  <2>2. next \in {"main", "cmake", "configure"} /\ (next = "cmake" <=> field = "main")
        /\ (next = "configure" <=> field = "cmake")
    BY <1>9 DEF AfterResolve
  <2>3. field = "main" => data = Declared(Suite)
    <3>1. AllOf(Suite).fixtures = ReadRegistryIni(Suite.ini).fixtures
          /\ AllOf(Suite).tests = ReadSuiteToml(Suite.toml).tests
      BY DEF AllOf, Request
    <3> QED
      BY <2>1, <3>1 DEF Declared
  <2>4. next \in {"cmake", "configure"} /\ s.main.whole => s.main.data = Declared(Suite)
    <3>1. CASE field = "main"
      BY <1>3, <1>5, <2>3, <3>1
    <3>2. CASE field # "main"
      BY <1>4, <2>1, <2>2, <3>2 DEF FileNames
    <3> QED
      BY <3>1, <3>2
  <2>5. next \in RunStages \ {"read"} /\ next \notin {"locate", "launch"}
    BY <2>2 DEF RunStages
  <2> QED
    BY <1>6, <1>9, <2>1, <2>4, <2>5, RunGoesOn
<1> QED
  BY <1>2, <1>7, <1>8, <1>9

LEMMA BuildRunRuns ==
  ASSUME JobOK, PInv, Running, BuildRun
  PROVE  Running'
<1> DEFINE s == suites'[job.path.dir]
<1>1. /\ job.at = "configure" /\ job.path.dir \in Dirs /\ "build" \in FileNames
      /\ job.cmd = "run"
  BY DEF BuildRun, BuildInto, PInv, PathsOK, Paths, FileNames, Running, LateStages
<1>2. CASE Exit(1)
  BY <1>2, Ends, RunOver
<1>3. CASE Configurable /\ Goto("locate") /\ Put("build", With(Suite.build))
  <2> DEFINE there == With(Suite.build)
  <2>1. \A e \in Suite.build : e.name = job.path.dir
    BY <1>1 DEF PInv, SuitesOK, Sited, Suite
  <2>2. Own(there, job.config) = {Built} /\ Built.program = Suite.main.data
    BY <1>1, <1>3, <2>1, BuiltFits
  <2> HIDE DEF there
  <2>3. s.build = there /\ \A f \in FileNames \ {"build"} : s[f] = Suite[f]
    <3>1. Put("build", there)
      BY <1>3 DEF there
    <3> QED
      BY <1>1, <3>1, PutField DEF PInv
  <2>4. s.toml = Suite.toml /\ s.ini = Suite.ini
    BY <2>3 DEF FileNames
  <2>5. job.request = AllOf(Suite) /\ Suite.main.data = Declared(Suite)
    BY <1>1, <1>3 DEF Running, Configurable
  <2>6. Programs(s.build, job.config) = {Declared(Suite)}
    BY <2>2, <2>3, <2>5 DEF Programs
  <2>7. "locate" \in RunStages \ {"read"}
    BY DEF RunStages
  <2> QED
    BY <1>1, <1>3, <2>4, <2>5, <2>6, <2>7, RunGoesOn
<1> QED
  BY <1>2, <1>3 DEF BuildRun, BuildInto, With

LEMMA LocateRuns ==
  ASSUME JobOK, PInv, Running, Locate
  PROVE  Running'
<1>1. job.at = "locate" /\ UNCHANGED suites /\ job.cmd = "run"
  BY DEF Locate, Running, LateStages
<1>2. CASE Exit(1)
  BY <1>2, Ends, RunOver
<1>3. CASE Executable # {} /\ Goto("launch")
  <2>1. suites'[job.path.dir] = Suite
    BY <1>1 DEF Suite
  <2>2. job.request = AllOf(Suite) /\ Programs(Suite.build, job.config) = {Declared(Suite)}
    BY <1>1 DEF Running
  <2>3. "launch" \in RunStages \ {"read"}
    BY DEF RunStages
  <2> QED
    BY <1>1, <1>3, <2>1, <2>2, <2>3, RunGoesOn
<1> QED
  BY <1>2, <1>3 DEF Locate

\* The steps that are no part of a run.
LEMMA OtherStepsRun ==
  ASSUME JobOK, Running,
         \/ AdoptFound \/ CreateToml \/ CreateIni \/ AdoptNew \/ InitDone
         \/ RemoveAll \/ ClearSuiteIfCurrent \/ WriteStub \/ AppendEntry \/ AppendFixture
         \/ Launch \/ ClearScratch \/ BuildScratch \/ DropBuild \/ Promote
  PROVE  Running'
<1>1. \/ \E code : Exit(code)
      \/ job.cmd # "run" /\ \E next : next \notin LateStages /\ Goto(next)
  <2>1. CASE AdoptFound \/ CreateToml \/ CreateIni \/ AdoptNew \/ InitDone
    BY <2>1 DEF AdoptFound, CreateToml, CreateIni, CreateFile, AdoptNew, Adopt, InitDone, At, LateStages
  <2>2. CASE RemoveAll \/ ClearSuiteIfCurrent \/ WriteStub
    BY <2>2 DEF RemoveAll, ClearSuiteIfCurrent, WriteStub, ReportOrLose, At, LateStages
  <2>3. CASE AppendEntry \/ AppendFixture
    <3>1. "register" \notin LateStages
      BY DEF LateStages
    <3>2. job.cmd # "run"
      BY <2>3 DEF AppendEntry, AppendFixture, At
    <3>3. Goto("register") \/ Exit(0) \/ Exit(1)
      BY <2>3, Zenon DEF AppendEntry, AppendToToml, AppendFixture, AppendTo
    <3> QED
      BY <3>1, <3>2, <3>3
  <2>4. CASE Launch \/ ClearScratch \/ BuildScratch \/ DropBuild \/ Promote
    BY <2>4 DEF Launch, ClearScratch, BuildScratch, BuildInto, DropBuild, Promote, Running,
                RunStages, LateStages
  <2> QED
    BY <2>1, <2>2, <2>3, <2>4
<1> QED
  BY <1>1, Ends, RunOver, RunAside

LEMMA DriverStepRuns ==
  ASSUME JobOK, PInv, Running, DriverStep
  PROVE  Running'
<1>1. CASE WriteHeader
  BY <1>1, ResolveRuns DEF WriteHeader
<1>2. CASE WriteMain
  BY <1>2, ResolveRuns DEF WriteMain
<1>3. CASE WriteCMake
  BY <1>3, ResolveRuns DEF WriteCMake
<1> QED
  BY <1>1, <1>2, <1>3, ReadSuiteRuns, BuildRunRuns, LocateRuns, OtherStepsRun DEF DriverStep

LEMMA BeginRuns ==
  ASSUME NEW command, NEW path, Shaped(command), command.at \notin LateStages,
         command.cmd = "run" => command.at = "read", Begin(command, path)
  PROVE  Running'
<1>1. job'.at = command.at /\ job'.cmd = command.cmd
  BY DEF Begin, Shaped
<1> QED
  BY <1>1 DEF Running, RunStages

LEMMA RefuseRuns ==
  ASSUME NEW command, NEW code, Refuse(command, code)
  PROVE  Running'
BY RunOver DEF Refuse

LEMMA GiveRuns ==
  ASSUME Give
  PROVE  Running'
<1>1. ASSUME NEW path, InitSuite(path) \/ FindSuite(path) \/ RemoveSuite(path) PROVE Running'
  BY <1>1, JobShape, BeginRuns, RefuseRuns DEF InitSuite, FindSuite, RemoveSuite, LateStages
<1>2. ASSUME NEW id, NEW kind, NEW flags, NewTest(id, kind, flags) PROVE Running'
  <2>1. PICK entry, isNew, fixture, code :
          \/ Begin([Job("new-test", "stub") EXCEPT !.entry = entry, !.isNew = isNew,
                                                   !.fixture = fixture], marker)
          \/ \E command : Refuse(command, code)
    BY <1>2, Zenon DEF NewTest
  <2> DEFINE plain == Job("new-test", "stub")
             named == [plain EXCEPT !.entry = entry]
             dated == [named EXCEPT !.isNew = isNew]
             command == [dated EXCEPT !.fixture = fixture]
  <2>2. Begin(command, marker) \/ \E refused : Refuse(refused, code)
    BY <2>1
  <2>3. Shaped(plain) /\ plain.cmd = "new-test" /\ plain.at = "stub"
    BY JobShape
  <2> HIDE DEF plain
  <2>4. Shaped(named) /\ named.cmd = "new-test" /\ named.at = "stub"
    BY <2>3 DEF Shaped
  <2> HIDE DEF named
  <2>5. Shaped(dated) /\ dated.cmd = "new-test" /\ dated.at = "stub"
    BY <2>4 DEF Shaped
  <2> HIDE DEF dated
  <2>6. Shaped(command) /\ command.cmd = "new-test" /\ command.at = "stub"
    BY <2>5 DEF Shaped
  <2> HIDE DEF command
  <2> QED
    BY <2>2, <2>6, BeginRuns, RefuseRuns DEF LateStages
<1>3. ASSUME NEW cmd, NEW config, StartRun(cmd, config) PROVE Running'
  <2> DEFINE plain == Job(cmd, "read")
             command == [plain EXCEPT !.config = config]
  <2>1. Shaped(plain) /\ plain.cmd = cmd /\ plain.at = "read"
    BY JobShape
  <2> HIDE DEF plain
  <2>2. Shaped(command) /\ command.cmd = cmd /\ command.at = "read"
    BY <2>1 DEF Shaped
  <2> HIDE DEF command
  <2>3. Begin(command, marker) \/ Refuse(command, 1)
    BY <1>3 DEF StartRun, command, plain
  <2> QED
    BY <2>2, <2>3, BeginRuns, RefuseRuns DEF LateStages
<1> QED
  BY <1>1, <1>2, <1>3 DEF Give

LEMMA RStep == JobOK /\ PInv /\ Running /\ [DriverNext]_dvars => Running'
<1> SUFFICES ASSUME JobOK, PInv, Running, [DriverNext]_dvars PROVE Running'
  OBVIOUS
<1>1. CASE Kill
  BY <1>1, Ends, RunOver DEF Kill
<1>2. CASE EditToml \/ EditIni
  <2>1. job' = NoJob
    BY <1>2, Zenon DEF EditToml, EditIni, Edit, MayEdit
  <2> QED
    BY <2>1, RunOver
<1>3. CASE DriverNext
  BY <1>1, <1>2, <1>3, GiveRuns, DriverStepRuns DEF DriverNext
<1>4. CASE UNCHANGED dvars
  <2>1. UNCHANGED <<suites, job>>
    BY <1>4 DEF dvars
  <2> QED
    BY <2>1 DEF Running, Suite, Executable
<1> QED
  BY <1>3, <1>4

\* What run is about to start is the program suite.toml and registry.ini declare, in whatever
\* config, whatever else was built and whatever went wrong before; and under a path without a
\* trailing separator there is something to start (cmdRun and findGeneratedExecutable of
\* Commands.cpp).
THEOREM RunsWhatIsDeclared == DriverSpec => []ProgramIsDeclared
<1>1. DriverSpec => []MInv
  BY MInit, MStep, PTL DEF DriverSpec
<1>2. MInv => JobOK
  BY DEF MInv
<1>3. DriverInit => Running
  BY NoJobShape DEF DriverInit, Running, LateStages
<1>4. PInv /\ Running => ProgramIsDeclared
  BY RunningMeansDeclared
<1> QED
  BY <1>1, <1>2, <1>3, <1>4, PInit, PStep, RStep, PTL DEF DriverSpec

-----------------------------------------------------------------------------
(* Going through the lines of a file: place by place.                      *)

LEMMA LeastNatural ==
  ASSUME NEW T, T \subseteq Nat, T # {}
  PROVE  \E n \in T : \A m \in T : n <= m
<1> DEFINE R == {ss \in Nat \X Nat : ss[1] < ss[2]}
<1>1. IsWellFoundedOn(R, Nat)
  BY NatLessThanWellFounded DEF OpToRel
<1>2. PICK n \in T : \A m \in T : ~ (<<m, n>> \in R)
  BY <1>1, WFMin
<1>3. \A m \in T : ~(m < n)
  BY <1>2
<1> QED
  BY <1>3

\* Induction over the places from first to top, for a set of places.
LEMMA PlaceByPlace ==
  ASSUME NEW first \in Nat, NEW top \in Nat, NEW Good, first \in Good,
         \A n \in first + 1 .. top : n - 1 \in Good => n \in Good
  PROVE  \A n \in first .. top : n \in Good
<1> DEFINE Bad == {n \in first .. top : n \notin Good}
<1>1. SUFFICES ASSUME Bad # {} PROVE FALSE
  OBVIOUS
<1>0. Bad \subseteq Nat
  OBVIOUS
<1>2. PICK n \in Bad : \A m \in Bad : n <= m
  <2> HIDE DEF Bad
  <2> QED
    BY <1>0, <1>1, LeastNatural
<1>3. n \in first + 1 .. top /\ n - 1 \in first .. top /\ ~(n <= n - 1)
  BY <1>2
<1>4. n - 1 \in Good
  BY <1>2, <1>3
<1> QED
  BY <1>2, <1>3, <1>4

-----------------------------------------------------------------------------
(* suite.toml, line by line.                                               *)

\* What the parser knows after each of the first m lines.
TomlSoFar(lines, m, after) ==
  after = [n \in 0 .. m |-> IF n = 0 THEN StartParser ELSE HandleLine(after[n - 1], lines[n])]

LEMMA TomlSteps ==
  ASSUME NEW lines, Len(lines) \in Nat
  PROVE  /\ TomlAfter(lines)[0] = StartParser
         /\ \A n \in 1 .. Len(lines) :
              TomlAfter(lines)[n] = HandleLine(TomlAfter(lines)[n - 1], lines[n])
<1> DEFINE Good == {m \in Nat : \E after : TomlSoFar(lines, m, after)}
           step(p, n) == HandleLine(p, lines[n])
<1>1. 0 \in Good
  <2> DEFINE none == [n \in 0 .. 0 |-> StartParser]
  <2>1. TomlSoFar(lines, 0, none)
    BY DEF TomlSoFar
  <2> QED
    BY <2>1
<1>2. ASSUME NEW m \in 1 .. Len(lines), m - 1 \in Good PROVE m \in Good
  <2>1. PICK f : TomlSoFar(lines, m - 1, f)
    BY <1>2
  <2> DEFINE g == [n \in 0 .. m |-> IF n = m THEN step(f[m - 1], m) ELSE f[n]]
  <2> HIDE DEF step
  <2>2. \A n \in 0 .. m - 1 : f[n] = IF n = 0 THEN StartParser ELSE step(f[n - 1], n)
    BY <2>1 DEF TomlSoFar, step
  <2>3. m \in Nat /\ m # 0 /\ m - 1 \in 0 .. m /\ \A n \in 0 .. m : n # m => n \in 0 .. m - 1
    OBVIOUS
  <2>4. \A n \in 0 .. m : g[n] = IF n = 0 THEN StartParser ELSE step(g[n - 1], n)
    BY <2>2, <2>3
  <2>5. g = [n \in 0 .. m |-> g[n]]
    OBVIOUS
  <2> HIDE DEF g
  <2>6. g = [n \in 0 .. m |-> IF n = 0 THEN StartParser ELSE step(g[n - 1], n)]
    BY <2>4, <2>5
  <2>7. TomlSoFar(lines, m, g)
    BY <2>6 DEF TomlSoFar, step
  <2> QED
    BY <2>3, <2>7
<1>3. Len(lines) \in Good
  <2> HIDE DEF Good
  <2> QED
    BY <1>1, <1>2, PlaceByPlace
<1>4. TomlAfter(lines) = CHOOSE after : TomlSoFar(lines, Len(lines), after)
  BY DEF TomlAfter, TomlSoFar
<1>5. TomlSoFar(lines, Len(lines), TomlAfter(lines))
  BY <1>3, <1>4
<1> HIDE DEF Good, step
<1> DEFINE after == TomlAfter(lines)
<1> HIDE DEF after
<1>6. after = [n \in 0 .. Len(lines) |-> IF n = 0 THEN StartParser ELSE step(after[n - 1], n)]
  BY <1>5 DEF TomlSoFar, after, step
<1>7. after[0] = StartParser /\ \A n \in 1 .. Len(lines) : after[n] = step(after[n - 1], n)
  BY <1>6
<1> QED
  BY <1>7 DEF after, step

LEMMA JoinedLines ==
  ASSUME NEW S, NEW lines \in Seq(S), NEW more \in Seq(S)
  PROVE  /\ lines \o more \in Seq(S) /\ Len(lines \o more) = Len(lines) + Len(more)
         /\ \A n \in 1 .. Len(lines) : (lines \o more)[n] = lines[n]
         /\ \A k \in 1 .. Len(more) : (lines \o more)[Len(lines) + k] = more[k]
OBVIOUS

\* What follows a line changes nothing of what the parser knew there.
LEMMA TomlPrefix ==
  ASSUME NEW S, NEW lines \in Seq(S), NEW more \in Seq(S)
  PROVE  \A n \in 0 .. Len(lines) : TomlAfter(lines \o more)[n] = TomlAfter(lines)[n]
<1> DEFINE all == lines \o more
           Good == {n \in 0 .. Len(lines) : TomlAfter(all)[n] = TomlAfter(lines)[n]}
<1>1. /\ Len(lines) \in Nat /\ Len(all) \in Nat /\ Len(lines) <= Len(all)
      /\ \A n \in 1 .. Len(lines) : all[n] = lines[n]
  BY JoinedLines
<1> HIDE DEF all
<1>2. 0 \in Good
  BY <1>1, TomlSteps
<1>3. ASSUME NEW n \in 1 .. Len(lines), n - 1 \in Good PROVE n \in Good
  <2>1. n \in 1 .. Len(all)
    BY <1>1
  <2>2. TomlAfter(all)[n] = HandleLine(TomlAfter(all)[n - 1], lines[n])
    BY <1>1, <2>1, TomlSteps
  <2>3. TomlAfter(lines)[n] = HandleLine(TomlAfter(lines)[n - 1], lines[n])
    BY <1>1, TomlSteps
  <2> QED
    BY <1>3, <2>2, <2>3
<1> HIDE DEF Good
<1>4. \A n \in 0 .. Len(lines) : n \in Good
  <2>1. \A n \in 0 + 1 .. Len(lines) : n - 1 \in Good => n \in Good
    BY <1>3
  <2> QED
    BY <1>1, <1>2, <2>1, PlaceByPlace
<1> QED
  BY <1>4 DEF Good, all

\* The end of the file, and what the lines that are added make of it.
TomlEnd(lines) == TomlAfter(lines)[Len(lines)]

LEMMA TomlGoesOn ==
  ASSUME NEW S, NEW lines \in Seq(S), NEW more \in Seq(S)
  PROVE  /\ TomlAfter(lines \o more)[Len(lines)] = TomlEnd(lines)
         /\ TomlEnd(lines \o more) = TomlAfter(lines \o more)[Len(lines) + Len(more)]
         /\ \A k \in 1 .. Len(more) :
              TomlAfter(lines \o more)[Len(lines) + k]
                = HandleLine(TomlAfter(lines \o more)[Len(lines) + k - 1], more[k])
<1>1. /\ Len(lines) \in Nat /\ Len(lines \o more) = Len(lines) + Len(more) /\ Len(more) \in Nat
      /\ \A k \in 1 .. Len(more) : (lines \o more)[Len(lines) + k] = more[k]
  BY JoinedLines
<1>2. TomlAfter(lines \o more)[Len(lines)] = TomlEnd(lines)
  BY <1>1, TomlPrefix DEF TomlEnd
<1>3. ASSUME NEW k \in 1 .. Len(more)
      PROVE  TomlAfter(lines \o more)[Len(lines) + k]
               = HandleLine(TomlAfter(lines \o more)[Len(lines) + k - 1], more[k])
  <2> DEFINE all == lines \o more
             n == Len(lines) + k
  <2>1. n \in 1 .. Len(all) /\ Len(all) \in Nat /\ all[n] = more[k]
    BY <1>1
  <2>2. TomlAfter(all)[n] = HandleLine(TomlAfter(all)[n - 1], all[n])
    <3> HIDE DEF all, n
    <3> QED
      BY <2>1, TomlSteps
  <2> QED
    BY <2>1, <2>2
<1> QED
  BY <1>1, <1>2, <1>3 DEF TomlEnd

-----------------------------------------------------------------------------
(* What a parser of suite.toml can be.                                     *)

\* The texts of the two files.  (Those named here are texts like all the others, but the
\* provers do not know it.)
Texts ==
  STRING \cup {"", "test", "foreign", "[[", Glued, Cut} \cup Kinds \cup KnownKeys \cup IniKeys
  \cup {"header", "single", "pair", "junk", "blank", "section"}
  \cup {"String", "Integer", "Float", "none"}

TextValues == [type : Texts, text : Texts, num : Int]
TextLines  == [kind : Texts, name : Texts, value : TextValues]
TomlPairs  == [key : Texts, value : TextValues]
OneEach(table) == \A i, j \in DOMAIN table : table[i].key = table[j].key => i = j
TomlTables == {table \in Seq(TomlPairs) : OneEach(table)}

TomlParser(p) ==
  /\ p.tables \in Seq(TomlTables) /\ p.current \in TomlTables
  /\ ~p.inTarget => p.current = <<>>

LEMMA NoTable == <<>> \in TomlTables /\ <<>> \in Seq(TomlTables)
BY DEF TomlTables, OneEach

LEMMA StartIsParser ==
  /\ TomlParser(StartParser) /\ StartParser.tables = <<>> /\ StartParser.current = <<>>
  /\ ~StartParser.inTarget /\ StartParser.ok
BY NoTable DEF StartParser, Parser, TomlParser

LEMMA ReportedIs ==
  ASSUME NEW p, TomlParser(p)
  PROVE  /\ TomlParser(Reported(p)) /\ ~Reported(p).ok /\ Reported(p).tables = p.tables
         /\ Reported(p).current = p.current /\ Reported(p).inTarget = p.inTarget
BY DEF Reported, TomlParser, Parser

LEMMA CloseIs ==
  ASSUME NEW p, TomlParser(p)
  PROVE  /\ TomlParser(CloseTable(p)) /\ CloseTable(p).ok = p.ok /\ ~CloseTable(p).inTarget
         /\ CloseTable(p).current = <<>>
         /\ CloseTable(p).tables = IF p.inTarget THEN Append(p.tables, p.current) ELSE p.tables
<1>1. CASE p.inTarget
  <2>1. Append(p.tables, p.current) \in Seq(TomlTables)
    BY DEF TomlParser
  <2> QED
    BY <1>1, <2>1, NoTable DEF CloseTable, TomlParser, Parser
<1>2. CASE ~p.inTarget
  BY <1>2 DEF CloseTable, TomlParser
<1> QED
  BY <1>1, <1>2

\* What a header does.
LEMMA HeaderIs ==
  ASSUME NEW p, TomlParser(p), NEW line, line.kind \in {"header", "single"}
  PROVE  /\ TomlParser(HandleLine(p, line))
         /\ HandleLine(p, line).tables = CloseTable(p).tables
         /\ HandleLine(p, line).current = <<>>
         /\ HandleLine(p, line).inTarget = OpensTest(line)
         /\ HandleLine(p, line).ok => p.ok
         /\ p.ok /\ line.kind = "header" => HandleLine(p, line).ok
<1> DEFINE closed == CloseTable(p)
           next == HandleLine(p, line)
<1>1. closed.tables \in Seq(TomlTables) /\ closed.current = <<>>
  BY CloseIs DEF TomlParser
<1> HIDE DEF closed
<1>2. next = Parser(closed.tables, closed.current, OpensTest(line), p.ok /\ line.kind # "single")
  BY DEF HandleLine, HandleHeader, closed
<1> HIDE DEF next
<1>3. /\ next.tables = closed.tables /\ next.current = <<>> /\ next.inTarget = OpensTest(line)
      /\ next.ok => p.ok
      /\ p.ok /\ line.kind = "header" => next.ok
  BY <1>1, <1>2 DEF Parser
<1>4. TomlParser(next)
  BY <1>1, <1>3, NoTable DEF TomlParser
<1> QED
  BY <1>3, <1>4 DEF next, closed

\* What a pair, a line that is none, or nothing does.
LEMMA PairIs ==
  ASSUME NEW p, TomlParser(p), NEW line \in TextLines, line.kind \notin {"header", "single"}
  PROVE  /\ TomlParser(HandleLine(p, line)) /\ HandleLine(p, line).tables = p.tables
         /\ HandleLine(p, line).inTarget = p.inTarget
         /\ HandleLine(p, line).ok => p.ok
         /\ \/ HandleLine(p, line).current = p.current
            \/ /\ p.inTarget /\ ~HasKey(p.current, line.name)
               /\ HandleLine(p, line).current
                    = Append(p.current, [key |-> line.name, value |-> line.value])
<1> DEFINE next == HandleLine(p, line)
           pair == [key |-> line.name, value |-> line.value]
<1>1. \/ next = p
      \/ next = Reported(p)
      \/ /\ p.inTarget /\ ~HasKey(p.current, line.name)
         /\ next = Parser(p.tables, Append(p.current, pair), TRUE, p.ok)
  BY DEF HandleLine, HandleKeyValue
<1> HIDE DEF next
<1>2. CASE next = p
  BY <1>2 DEF next
<1>3. CASE next = Reported(p)
  BY <1>3, ReportedIs DEF next
<1>4. CASE /\ p.inTarget /\ ~HasKey(p.current, line.name)
           /\ next = Parser(p.tables, Append(p.current, pair), TRUE, p.ok)
  <2>1. pair \in TomlPairs /\ pair.key = line.name
    BY DEF TextLines, TomlPairs
  <2>2. p.current \in Seq(TomlPairs) /\ OneEach(p.current)
    BY DEF TomlParser, TomlTables
  <2>3. \A i \in DOMAIN p.current : p.current[i].key # pair.key
    BY <1>4, <2>1 DEF HasKey
  <2> HIDE DEF pair
  <2>4. /\ Append(p.current, pair) \in Seq(TomlPairs)
        /\ DOMAIN Append(p.current, pair) = 1 .. Len(p.current) + 1
        /\ DOMAIN p.current = 1 .. Len(p.current) /\ Len(p.current) \in Nat
        /\ \A i \in DOMAIN p.current : Append(p.current, pair)[i] = p.current[i]
        /\ Append(p.current, pair)[Len(p.current) + 1] = pair
    BY <2>1, <2>2
  <2> DEFINE longer == Append(p.current, pair)
  <2> HIDE DEF longer
  <2>5. OneEach(longer)
    BY <2>2, <2>3, <2>4 DEF OneEach, longer
  <2>6. longer \in TomlTables
    BY <2>4, <2>5 DEF TomlTables, longer
  <2>7. /\ next.tables = p.tables /\ next.current = longer /\ next.inTarget /\ next.ok = p.ok
    BY <1>4 DEF Parser, longer
  <2>8. TomlParser(next)
    BY <2>6, <2>7 DEF TomlParser
  <2> QED
    BY <1>4, <2>7, <2>8 DEF next, longer, pair
<1> QED
  BY <1>1, <1>2, <1>3, <1>4

\* A parser of suite.toml stays one, and what was reported stays reported.
LEMMA LineKeepsParser ==
  ASSUME NEW p, TomlParser(p), NEW line \in TextLines
  PROVE  TomlParser(HandleLine(p, line)) /\ (HandleLine(p, line).ok => p.ok)
<1>1. CASE line.kind \in {"header", "single"}
  BY <1>1, HeaderIs
<1>2. CASE line.kind \notin {"header", "single"}
  BY <1>2, PairIs
<1> QED
  BY <1>1, <1>2

LEMMA ParserThroughout ==
  ASSUME NEW lines \in Seq(TextLines)
  PROVE  /\ \A n \in 0 .. Len(lines) : TomlParser(TomlAfter(lines)[n])
         /\ TomlParser(TomlEnd(lines))
<1> DEFINE Good == {n \in 0 .. Len(lines) : TomlParser(TomlAfter(lines)[n])}
<1>1. Len(lines) \in Nat /\ \A n \in 1 .. Len(lines) : lines[n] \in TextLines
  OBVIOUS
<1>2. 0 \in Good
  BY <1>1, TomlSteps, StartIsParser
<1>3. ASSUME NEW n \in 1 .. Len(lines), n - 1 \in Good PROVE n \in Good
  <2>1. TomlAfter(lines)[n] = HandleLine(TomlAfter(lines)[n - 1], lines[n])
    BY <1>1, TomlSteps
  <2> QED
    BY <1>1, <1>3, <2>1, LineKeepsParser
<1> HIDE DEF Good
<1>4. \A n \in 0 .. Len(lines) : n \in Good
  <2>1. \A n \in 0 + 1 .. Len(lines) : n - 1 \in Good => n \in Good
    BY <1>3
  <2> QED
    BY <1>1, <1>2, <2>1, PlaceByPlace
<1>5. \A n \in 0 .. Len(lines) : TomlParser(TomlAfter(lines)[n])
  BY <1>4 DEF Good
<1> QED
  BY <1>1, <1>5 DEF TomlEnd

\* The tables of a file, the one that is still open included.
TomlTablesOf(lines) == CloseTable(TomlEnd(lines)).tables

LEMMA ReadsItsLines ==
  ASSUME NEW file, file.exists, file.lines \in Seq(TextLines)
  PROVE  /\ ReadToml(file).tables = TomlTablesOf(file.lines)
         /\ ReadToml(file).ok = TomlEnd(file.lines).ok
         /\ TomlTablesOf(file.lines) \in Seq(TomlTables)
<1>1. TomlParser(TomlEnd(file.lines))
  BY ParserThroughout
<1>2. ReadToml(file) = CloseTable(TomlEnd(file.lines))
  BY DEF ReadToml, TomlEnd
<1> QED
  BY <1>1, <1>2, CloseIs DEF TomlTablesOf, TomlParser

\* What is written of a test without settings, and what a table is made of that.
TextPair(key, text) == [key |-> key, value |-> StringValue(text)]
NewTable(id, fixture, kind) ==
  Append(Append(Append(<<>>, TextPair("id", id)), TextPair("fixture", fixture)), TextPair("kind", kind))

LEMMA NewEntryIs ==
  ASSUME NEW id, NEW fixture, NEW kind
  PROVE  LET entry == NewEntry(id, fixture, kind)
         IN  /\ entry.id = id /\ entry.fixture = fixture /\ entry.kind = kind
             /\ \A key \in Counts \cup Doubles : entry.settings[key] = 0
BY DEF NewEntry

LEMMA SomeTexts ==
  /\ {"", "test", "foreign", "[[", Glued, Cut, "id", "fixture", "kind", "header", "single", "pair",
      "junk", "blank", "section", "String", "Integer", "Float", "none"} \subseteq Texts
  /\ Counts \cup Doubles \cup Kinds \cup IniKeys \cup STRING \subseteq Texts
BY DEF Texts, KnownKeys

LEMMA LinesAreText ==
  /\ \A text \in Texts : StringValue(text) \in TextValues
  /\ \A n \in Int : IntegerValue(n) \in TextValues /\ FloatValue(n) \in TextValues
  /\ Malformed \in TextValues
  /\ \A key \in Texts, value \in TextValues : Pair(key, value) \in TextLines
  /\ \A name \in Texts : Header(name) \in TextLines
  /\ {SingleBracket, Junk, OpenHeader, Comment} \subseteq TextLines
<1>1. \A type, text \in Texts, num \in Int :
        [type |-> type, text |-> text, num |-> num] \in TextValues
  BY DEF TextValues
<1>2. {"", "[[", "header", "single", "pair", "junk", "blank",
       "String", "Integer", "Float", "none"} \subseteq Texts
  BY SomeTexts
<1>3. Malformed \in TextValues /\ \A text \in Texts : StringValue(text) \in TextValues
  <2>1. "" \in Texts /\ "none" \in Texts /\ "String" \in Texts
    BY <1>2, Zenon
  <2>2. \A type, text \in Texts : [type |-> type, text |-> text, num |-> 0] \in TextValues
    BY DEF TextValues
  <2>3. Malformed \in TextValues
    BY <2>1, <2>2, Zenon DEF Malformed
  <2>4. \A text \in Texts : StringValue(text) \in TextValues
    BY <2>1, <2>2, Zenon DEF StringValue
  <2> QED
    BY <2>3, <2>4
<1>4. \A n \in Int : IntegerValue(n) \in TextValues /\ FloatValue(n) \in TextValues
  BY <1>1, <1>2 DEF IntegerValue, FloatValue
<1>5. \A kind, name \in Texts, value \in TextValues : Line(kind, name, value) \in TextLines
  BY DEF Line, TextLines
<1>6. \A key \in Texts, value \in TextValues : Pair(key, value) \in TextLines
  BY <1>2, <1>5 DEF Pair
<1>7. \A name \in Texts : Header(name) \in TextLines
  BY <1>2, <1>3, <1>5 DEF Header
<1>8. {SingleBracket, Junk, OpenHeader, Comment} \subseteq TextLines
  <2>1. SingleBracket \in TextLines /\ Junk \in TextLines
    BY <1>2, <1>3, <1>5 DEF SingleBracket, Junk
  <2>2. OpenHeader \in TextLines /\ Comment \in TextLines
    BY <1>2, <1>3, <1>5 DEF OpenHeader, Comment
  <2> QED
    BY <2>1, <2>2
<1> QED
  BY <1>3, <1>4, <1>6, <1>7, <1>8

LEMMA NewEntryLines ==
  ASSUME NEW id \in Texts, NEW fixture \in Texts, NEW kind \in Texts,
         NEW block, block = EntryLines(NewEntry(id, fixture, kind))
  PROVE  /\ block \in Seq(TextLines) /\ Len(block) = 5
         /\ block[1] = Header("test") /\ block[2] = Pair("id", StringValue(id))
         /\ block[3] = Pair("fixture", StringValue(fixture))
         /\ block[4] = Pair("kind", StringValue(kind)) /\ block[5] = Comment
<1> DEFINE entry == NewEntry(id, fixture, kind)
           table == <<Header("test"), Pair("id", StringValue(id)),
                      Pair("fixture", StringValue(fixture)), Pair("kind", StringValue(kind))>>
<1>1. \A key \in Counts \cup Doubles : SettingLine(entry, key) = <<>>
  BY NewEntryIs DEF SettingLine
<1>2. table \in Seq(TextLines) /\ Comment \in TextLines
  <2>1. {"test", "id", "fixture", "kind"} \subseteq Texts
    BY SomeTexts
  <2>2. /\ Header("test") \in TextLines /\ Pair("id", StringValue(id)) \in TextLines
        /\ Pair("fixture", StringValue(fixture)) \in TextLines
        /\ Pair("kind", StringValue(kind)) \in TextLines /\ Comment \in TextLines
    BY <2>1, LinesAreText
  <2> QED
    BY <2>2
<1>3. {"warmup_count", "cv_threshold", "helper_thread_count", "read_criticality",
       "fixed_slice_count"} \subseteq Counts \cup Doubles
  BY DEF Counts, Doubles
<1>4. block = table \o <<>> \o <<>> \o <<>> \o <<>> \o <<>> \o <<Comment>>
  <2>1. entry.id = id /\ entry.fixture = fixture /\ entry.kind = kind
    BY NewEntryIs
  <2>2. block = EntryLines(entry)
    OBVIOUS
  <2> HIDE DEF entry
  <2> QED
    BY <1>1, <1>3, <2>1, <2>2 DEF EntryLines
<1>5. /\ Len(table) = 4 /\ table[1] = Header("test") /\ table[2] = Pair("id", StringValue(id))
      /\ table[3] = Pair("fixture", StringValue(fixture)) /\ table[4] = Pair("kind", StringValue(kind))
  OBVIOUS
<1> HIDE DEF table
<1>6. table \o <<>> = table
  BY <1>2
<1>7. block = table \o <<Comment>>
  BY <1>4, <1>6
<1>8. Len(block) = 5 /\ block \in Seq(TextLines) /\ block[5] = Comment
      /\ \A i \in 1 .. 4 : block[i] = table[i]
  <2>1. <<Comment>> \in Seq(TextLines) /\ Len(<<Comment>>) = 1 /\ <<Comment>>[1] = Comment
    BY <1>2
  <2> QED
    BY <1>2, <1>5, <1>7, <2>1, JoinedLines
<1> QED
  BY <1>5, <1>8

LEMMA TextPairIs ==
  ASSUME NEW key, NEW text
  PROVE  /\ Pair(key, StringValue(text)).kind = "pair" /\ Pair(key, StringValue(text)).name = key
         /\ Pair(key, StringValue(text)).value = StringValue(text)
         /\ StringValue(text) # Malformed /\ StringValue(text).type = "String"
         /\ StringValue(text).text = text
         /\ TextPair(key, text).key = key /\ TextPair(key, text).value = StringValue(text)
<1>1. StringValue(text).type = "String" /\ StringValue(text).text = text /\ Malformed.type = "none"
  BY DEF StringValue, Malformed
<1> QED
  BY <1>1 DEF Pair, Line, TextPair

\* A pair of a test that has not been given yet.
LEMMA TakesPair ==
  ASSUME NEW p, TomlParser(p), p.inTarget, NEW key \in Texts, NEW text \in Texts,
         ~HasKey(p.current, key),
         NEW next, next = HandleLine(p, Pair(key, StringValue(text)))
  PROVE  /\ TomlParser(next) /\ next.tables = p.tables /\ next.inTarget
         /\ next.current = Append(p.current, TextPair(key, text)) /\ next.ok = p.ok
<1> DEFINE line == Pair(key, StringValue(text))
<1>1. line.kind = "pair" /\ line.name = key /\ line.value = StringValue(text) /\ line.value # Malformed
  BY TextPairIs
<1>2. line \in TextLines
  BY LinesAreText
<1> HIDE DEF line
<1>3. next = HandleLine(p, line)
  BY DEF line
<1>4. next = Parser(p.tables, Append(p.current, [key |-> line.name, value |-> line.value]), TRUE, p.ok)
  BY <1>1, <1>3 DEF HandleLine, HandleKeyValue
<1>5. next.tables = p.tables /\ next.inTarget /\ next.ok = p.ok
      /\ next.current = Append(p.current, [key |-> line.name, value |-> line.value])
  BY <1>4 DEF Parser
<1>6. TomlParser(next)
  BY <1>1, <1>2, <1>3, PairIs
<1> QED
  BY <1>1, <1>5, <1>6 DEF TextPair

LEMMA AppendedPair ==
  ASSUME NEW table \in Seq(TomlPairs), NEW pair \in TomlPairs
  PROVE  /\ Append(table, pair) \in Seq(TomlPairs)
         /\ \A key : HasKey(Append(table, pair), key) <=> HasKey(table, key) \/ pair.key = key
<1> DEFINE longer == Append(table, pair)
<1>1. /\ longer \in Seq(TomlPairs) /\ DOMAIN longer = 1 .. Len(table) + 1
      /\ DOMAIN table = 1 .. Len(table) /\ Len(table) \in Nat
      /\ \A i \in DOMAIN table : longer[i] = table[i]
      /\ longer[Len(table) + 1] = pair
  OBVIOUS
<1> HIDE DEF longer
<1>2. \A key : HasKey(longer, key) <=> HasKey(table, key) \/ pair.key = key
  BY <1>1 DEF HasKey
<1> QED
  BY <1>1, <1>2 DEF longer

LEMMA NewTableIs ==
  ASSUME NEW id \in Texts, NEW fixture \in Texts, NEW kind \in Texts,
         NEW table, table = NewTable(id, fixture, kind)
  PROVE  /\ Len(table) = 3 /\ DOMAIN table = 1 .. 3
         /\ table[1] = TextPair("id", id) /\ table[2] = TextPair("fixture", fixture)
         /\ table[3] = TextPair("kind", kind)
BY DEF NewTable

LEMMA LinesOn ==
  ASSUME NEW lines \in Seq(TextLines), NEW more \in Seq(TextLines)
  PROVE  \A all : all = lines \o more =>
           /\ all \in Seq(TextLines) /\ Len(lines) \in Nat
           /\ TomlAfter(all)[Len(lines)] = TomlEnd(lines)
           /\ TomlEnd(all) = TomlAfter(all)[Len(lines) + Len(more)]
           /\ \A k \in 1 .. Len(more) :
                TomlAfter(all)[Len(lines) + k] = HandleLine(TomlAfter(all)[Len(lines) + k - 1], more[k])
<1>1. TomlAfter(lines \o more)[Len(lines)] = TomlEnd(lines)
  BY TomlGoesOn
<1>2. TomlEnd(lines \o more) = TomlAfter(lines \o more)[Len(lines) + Len(more)]
  BY TomlGoesOn
<1>3. \A k \in 1 .. Len(more) :
        TomlAfter(lines \o more)[Len(lines) + k]
          = HandleLine(TomlAfter(lines \o more)[Len(lines) + k - 1], more[k])
  BY TomlGoesOn
<1>4. lines \o more \in Seq(TextLines) /\ Len(lines) \in Nat
  BY JoinedLines
<1> QED
  BY <1>1, <1>2, <1>3, <1>4, Zenon

LEMMA FiveLinesOn ==
  ASSUME NEW lines \in Seq(TextLines), NEW more \in Seq(TextLines), Len(more) = 5
  PROVE  \A all : all = lines \o more =>
           /\ all \in Seq(TextLines) /\ Len(lines) \in Nat
           /\ TomlAfter(all)[Len(lines)] = TomlEnd(lines)
           /\ TomlEnd(all) = TomlAfter(all)[Len(lines) + 5]
           /\ \A k \in 1 .. 5 :
                TomlAfter(all)[Len(lines) + k] = HandleLine(TomlAfter(all)[Len(lines) + k - 1], more[k])
<1> DEFINE n == Len(more)
<1>1. \A all : all = lines \o more =>
        /\ all \in Seq(TextLines) /\ Len(lines) \in Nat
        /\ TomlAfter(all)[Len(lines)] = TomlEnd(lines)
        /\ TomlEnd(all) = TomlAfter(all)[Len(lines) + n]
        /\ \A k \in 1 .. n :
             TomlAfter(all)[Len(lines) + k] = HandleLine(TomlAfter(all)[Len(lines) + k - 1], more[k])
  BY LinesOn, Zenon
<1>2. n = 5
  OBVIOUS
<1> HIDE DEF n
<1> QED
  BY <1>1, <1>2, Zenon

\* The test that is appended is read as a table of its own, behind those that were there.
LEMMA EntryIsAppended ==
  ASSUME NEW lines \in Seq(TextLines), NEW id \in Texts, NEW fixture \in Texts, NEW kind \in Texts
  PROVE  /\ lines \o EntryLines(NewEntry(id, fixture, kind)) \in Seq(TextLines)
         /\ TomlTablesOf(lines \o EntryLines(NewEntry(id, fixture, kind)))
              = Append(TomlTablesOf(lines), NewTable(id, fixture, kind))
         /\ TomlEnd(lines).ok => TomlEnd(lines \o EntryLines(NewEntry(id, fixture, kind))).ok
<1> DEFINE block == EntryLines(NewEntry(id, fixture, kind))
           all == lines \o block
           p(k) == TomlAfter(all)[Len(lines) + k]
<1>1. /\ block \in Seq(TextLines) /\ Len(block) = 5
      /\ block[1] = Header("test") /\ block[2] = Pair("id", StringValue(id))
      /\ block[3] = Pair("fixture", StringValue(fixture))
      /\ block[4] = Pair("kind", StringValue(kind)) /\ block[5] = Comment
  BY NewEntryLines
<1>2. all = lines \o block
  OBVIOUS
<1> HIDE DEF block, all
<1>3. /\ all \in Seq(TextLines) /\ Len(lines) \in Nat
      /\ TomlAfter(all)[Len(lines)] = TomlEnd(lines)
      /\ TomlEnd(all) = TomlAfter(all)[Len(lines) + 5]
      /\ \A k \in 1 .. 5 :
           TomlAfter(all)[Len(lines) + k] = HandleLine(TomlAfter(all)[Len(lines) + k - 1], block[k])
  <2> HIDE DEF p
  <2>1. block \in Seq(TextLines) /\ Len(block) = 5
    BY <1>1
  <2>2. all \in Seq(TextLines) /\ Len(lines) \in Nat
    BY <1>2, <2>1, FiveLinesOn
  <2>3. TomlAfter(all)[Len(lines)] = TomlEnd(lines)
    BY <1>2, <2>1, FiveLinesOn
  <2>4. TomlEnd(all) = TomlAfter(all)[Len(lines) + 5]
    BY <1>2, <2>1, FiveLinesOn
  <2>5. ASSUME NEW k \in 1 .. 5
        PROVE  TomlAfter(all)[Len(lines) + k]
                 = HandleLine(TomlAfter(all)[Len(lines) + k - 1], block[k])
    BY <1>2, <2>1, FiveLinesOn
  <2> QED
    BY <2>2, <2>3, <2>4, <2>5, Zenon
<1>4. /\ p(1) = HandleLine(TomlEnd(lines), block[1]) /\ p(2) = HandleLine(p(1), block[2])
      /\ p(3) = HandleLine(p(2), block[3]) /\ p(4) = HandleLine(p(3), block[4])
      /\ TomlEnd(all) = HandleLine(p(4), block[5])
  <2>1. \A k \in 1 .. 5 : k - 1 \in 0 .. 4 /\ Len(lines) + k - 1 = Len(lines) + (k - 1)
    BY <1>3
  <2>2. Len(lines) + 0 = Len(lines)
    BY <1>3
  <2>3. \A k \in 1 .. 5 : p(k) = HandleLine(p(k - 1), block[k])
    BY <1>3, <2>1
  <2>4. p(0) = TomlEnd(lines) /\ TomlEnd(all) = p(5)
    BY <1>3, <2>2
  <2> HIDE DEF p
  <2>5. /\ p(1) = HandleLine(p(1 - 1), block[1]) /\ p(2) = HandleLine(p(2 - 1), block[2])
        /\ p(3) = HandleLine(p(3 - 1), block[3]) /\ p(4) = HandleLine(p(4 - 1), block[4])
        /\ p(5) = HandleLine(p(5 - 1), block[5])
    BY <2>3
  <2> QED
    BY <2>4, <2>5
<1> HIDE DEF p
<1>5. TomlParser(TomlEnd(lines))
  BY ParserThroughout
<1>6. /\ TomlParser(p(1)) /\ p(1).tables = TomlTablesOf(lines) /\ p(1).current = <<>> /\ p(1).inTarget
      /\ p(1).ok => TomlEnd(lines).ok
      /\ TomlEnd(lines).ok => p(1).ok
  <2>1. Header("test").kind = "header" /\ OpensTest(Header("test"))
    BY DEF Header, Line, OpensTest
  <2> QED
    BY <1>1, <1>4, <1>5, <2>1, HeaderIs DEF TomlTablesOf
<1>7. {"id", "fixture", "kind"} \subseteq Texts
  BY SomeTexts
<1>8. \A key : ~HasKey(<<>>, key)
  BY DEF HasKey
<1> DEFINE table1 == Append(<<>>, TextPair("id", id))
           table2 == Append(table1, TextPair("fixture", fixture))
<1>9. /\ TomlParser(p(2)) /\ p(2).tables = TomlTablesOf(lines) /\ p(2).inTarget
      /\ p(2).current = table1 /\ p(2).ok = p(1).ok
  BY <1>1, <1>4, <1>6, <1>7, <1>8, TakesPair
<1>10. \A key, text \in Texts : TextPair(key, text) \in TomlPairs /\ TextPair(key, text).key = key
  BY LinesAreText DEF TextPair, TomlPairs
<1>11. table1 \in Seq(TomlPairs) /\ \A key : HasKey(table1, key) <=> key = "id"
  <2>1. <<>> \in Seq(TomlPairs)
    OBVIOUS
  <2>2. TextPair("id", id) \in TomlPairs /\ TextPair("id", id).key = "id"
    BY <1>7, <1>10
  <2> QED
    BY <1>8, <2>1, <2>2, AppendedPair
<1>12. table2 \in Seq(TomlPairs) /\ \A key : HasKey(table2, key) <=> key \in {"id", "fixture"}
  <2> HIDE DEF table1
  <2> QED
    BY <1>7, <1>10, <1>11, AppendedPair
<1>13. /\ TomlParser(p(3)) /\ p(3).tables = TomlTablesOf(lines) /\ p(3).inTarget
       /\ p(3).current = table2 /\ p(3).ok = p(2).ok
  <2> HIDE DEF table1
  <2>1. ~HasKey(p(2).current, "fixture") /\ "fixture" \in Texts
    BY <1>7, <1>9, <1>11
  <2>2. p(3) = HandleLine(p(2), Pair("fixture", StringValue(fixture)))
    BY <1>1, <1>4
  <2> QED
    BY <1>9, <2>1, <2>2, TakesPair
<1>14. /\ TomlParser(p(4)) /\ p(4).tables = TomlTablesOf(lines) /\ p(4).inTarget
       /\ p(4).current = NewTable(id, fixture, kind) /\ p(4).ok = p(3).ok
  <2>1. Append(table2, TextPair("kind", kind)) = NewTable(id, fixture, kind)
    BY DEF NewTable
  <2> HIDE DEF table2
  <2>4. p(3).current = table2 /\ "kind" \notin {"id", "fixture"}
    BY <1>13
  <2>5. ~HasKey(table2, "kind")
    BY <1>12, <2>4
  <2>2. ~HasKey(p(3).current, "kind") /\ "kind" \in Texts
    BY <1>7, <2>4, <2>5
  <2>3. p(4) = HandleLine(p(3), Pair("kind", StringValue(kind)))
    BY <1>1, <1>4
  <2>6. TomlParser(p(3)) /\ p(3).inTarget
    BY <1>13
  <2>7. /\ TomlParser(p(4)) /\ p(4).tables = p(3).tables /\ p(4).inTarget
        /\ p(4).current = Append(p(3).current, TextPair("kind", kind)) /\ p(4).ok = p(3).ok
    BY <2>2, <2>3, <2>6, TakesPair
  <2> QED
    BY <1>13, <2>1, <2>4, <2>7
<1>15. TomlEnd(all) = p(4)
  <2>1. Comment.kind = "blank"
    BY DEF Comment, Line
  <2> QED
    BY <1>1, <1>4, <2>1 DEF HandleLine
<1>16. TomlTablesOf(all) = Append(TomlTablesOf(lines), NewTable(id, fixture, kind))
  BY <1>14, <1>15, CloseIs DEF TomlTablesOf
<1>17. TomlEnd(lines).ok => TomlEnd(all).ok
  BY <1>6, <1>9, <1>13, <1>14, <1>15
<1> QED
  BY <1>3, <1>16, <1>17 DEF all, block

-----------------------------------------------------------------------------
(* Tables and their entries.                                               *)

\* A key that is there once is found with its type, and not with another one.
LEMMA FindsOne ==
  ASSUME NEW table, NEW i \in DOMAIN table, NEW key, NEW type, table[i].key = key,
         \A j \in DOMAIN table : table[j].key = key => j = i
  PROVE  Find(table, key, type) = IF table[i].value.type = type THEN {table[i].value} ELSE {}
BY DEF Find

LEMMA FindsNone ==
  ASSUME NEW table, NEW key, NEW type, ~HasKey(table, key)
  PROVE  Find(table, key, type) = {}
BY DEF Find, HasKey

LEMMA OnlyText == ASSUME NEW value, NEW default PROVE TextOr({value}, default) = value.text
BY DEF TextOr

LEMMA NewTableEntry ==
  ASSUME NEW id \in Texts, NEW fixture \in Texts, NEW kind \in Kinds
  PROVE  LET table == NewTable(id, fixture, kind)
         IN  EntryOf(table) = NewEntry(id, fixture, kind) /\ Mappable(table) /\ OnlyKnownKeys(table)
<1> DEFINE table == NewTable(id, fixture, kind)
<1>1. /\ DOMAIN table = 1 .. 3
      /\ table[1] = TextPair("id", id) /\ table[2] = TextPair("fixture", fixture)
      /\ table[3] = TextPair("kind", kind)
  <2>1. kind \in Texts
    BY SomeTexts
  <2> QED
    BY <2>1, NewTableIs
<1> HIDE DEF table
<1>2. \A key, text : /\ TextPair(key, text).key = key
                     /\ TextPair(key, text).value.type = "String"
                     /\ TextPair(key, text).value.text = text
  BY TextPairIs
<1>3. /\ table[1].key = "id" /\ table[2].key = "fixture" /\ table[3].key = "kind"
      /\ \A i \in 1 .. 3 : table[i].value.type = "String"
      /\ table[1].value.text = id /\ table[2].value.text = fixture /\ table[3].value.text = kind
  BY <1>1, <1>2
<1>4. 1 \in DOMAIN table /\ 2 \in DOMAIN table /\ 3 \in DOMAIN table
      /\ \A j \in DOMAIN table : j = 1 \/ j = 2 \/ j = 3
  BY <1>1
<1>5. Find(table, "id", "String") = {table[1].value}
  <2>1. \A j \in DOMAIN table : table[j].key = "id" => j = 1
    BY <1>3, <1>4
  <2>2. table[1].value.type = "String" /\ table[1].key = "id" /\ 1 \in DOMAIN table
    BY <1>1, <1>3
  <2> QED
    BY <2>1, <2>2, Zenon DEF Find
<1>6. Find(table, "fixture", "String") = {table[2].value}
  <2>1. \A j \in DOMAIN table : table[j].key = "fixture" => j = 2
    BY <1>3, <1>4
  <2>2. table[2].value.type = "String" /\ table[2].key = "fixture" /\ 2 \in DOMAIN table
    BY <1>1, <1>3
  <2> QED
    BY <2>1, <2>2, Zenon DEF Find
<1>7. Find(table, "kind", "String") = {table[3].value}
  <2>1. \A j \in DOMAIN table : table[j].key = "kind" => j = 3
    BY <1>3, <1>4
  <2>2. table[3].value.type = "String" /\ table[3].key = "kind" /\ 3 \in DOMAIN table
    BY <1>1, <1>3
  <2> QED
    BY <2>1, <2>2, Zenon DEF Find
<1>8. \A key \in Counts \cup Doubles : SettingOf(table, key) = 0
  <2>1. ASSUME NEW key \in Counts \cup Doubles PROVE ~HasKey(table, key)
    BY <1>3, <1>4 DEF HasKey, Counts, Doubles
  <2>2. NumOr0({}) = 0 /\ 0 % UintRange = 0
    BY TomlAssumption DEF NumOr0
  <2> QED
    BY <2>1, <2>2, FindsNone DEF SettingOf
<1>9. EntryOf(table) = NewEntry(id, fixture, kind)
  BY <1>3, <1>5, <1>6, <1>7, <1>8, OnlyText DEF EntryOf, NewEntry
<1>10. Mappable(table)
  BY <1>5, <1>6, <1>9 DEF Mappable, NewEntry
<1>11. OnlyKnownKeys(table)
  BY <1>3, <1>4 DEF OnlyKnownKeys, KnownKeys
<1> QED
  BY <1>9, <1>10, <1>11 DEF table

\* The entries of the first m tables.
MapSoFar(tables, m, entries) ==
  entries = [n \in 0 .. m |->
               IF n = 0 THEN <<>>
               ELSE IF Mappable(tables[n]) THEN Append(entries[n - 1], EntryOf(tables[n]))
               ELSE entries[n - 1]]

LEMMA MapSteps ==
  ASSUME NEW tables, Len(tables) \in Nat
  PROVE  /\ Mapped(tables)[0] = <<>>
         /\ \A n \in 1 .. Len(tables) :
              Mapped(tables)[n] = IF Mappable(tables[n])
                                  THEN Append(Mapped(tables)[n - 1], EntryOf(tables[n]))
                                  ELSE Mapped(tables)[n - 1]
<1> DEFINE Good == {m \in Nat : \E entries : MapSoFar(tables, m, entries)}
           step(e, n) == IF Mappable(tables[n]) THEN Append(e, EntryOf(tables[n])) ELSE e
<1>1. 0 \in Good
  <2> DEFINE none == [n \in 0 .. 0 |-> <<>>]
  <2>1. MapSoFar(tables, 0, none)
    BY DEF MapSoFar
  <2> QED
    BY <2>1
<1>2. ASSUME NEW m \in 1 .. Len(tables), m - 1 \in Good PROVE m \in Good
  <2>1. PICK f : MapSoFar(tables, m - 1, f)
    BY <1>2
  <2> DEFINE g == [n \in 0 .. m |-> IF n = m THEN step(f[m - 1], m) ELSE f[n]]
  <2> HIDE DEF step
  <2>2. \A n \in 0 .. m - 1 : f[n] = IF n = 0 THEN <<>> ELSE step(f[n - 1], n)
    BY <2>1 DEF MapSoFar, step
  <2>3. m \in Nat /\ m # 0 /\ m - 1 \in 0 .. m /\ \A n \in 0 .. m : n # m => n \in 0 .. m - 1
    OBVIOUS
  <2>4. \A n \in 0 .. m : g[n] = IF n = 0 THEN <<>> ELSE step(g[n - 1], n)
    BY <2>2, <2>3
  <2>5. g = [n \in 0 .. m |-> g[n]]
    OBVIOUS
  <2> HIDE DEF g
  <2>6. g = [n \in 0 .. m |-> IF n = 0 THEN <<>> ELSE step(g[n - 1], n)]
    BY <2>4, <2>5
  <2>7. MapSoFar(tables, m, g)
    BY <2>6 DEF MapSoFar, step
  <2> QED
    BY <2>3, <2>7
<1>3. Len(tables) \in Good
  <2> HIDE DEF Good
  <2> QED
    BY <1>1, <1>2, PlaceByPlace
<1>4. Mapped(tables) = CHOOSE entries : MapSoFar(tables, Len(tables), entries)
  BY DEF Mapped, MapSoFar
<1>5. MapSoFar(tables, Len(tables), Mapped(tables))
  BY <1>3, <1>4
<1> HIDE DEF Good, step
<1> DEFINE entries == Mapped(tables)
<1> HIDE DEF entries
<1>6. entries = [n \in 0 .. Len(tables) |-> IF n = 0 THEN <<>> ELSE step(entries[n - 1], n)]
  BY <1>5 DEF MapSoFar, entries, step
<1>7. entries[0] = <<>> /\ \A n \in 1 .. Len(tables) : entries[n] = step(entries[n - 1], n)
  BY <1>6
<1> QED
  BY <1>7 DEF entries, step

LEMMA OneMore ==
  ASSUME NEW S, NEW n \in Nat \ {0}, NEW f \in [1 .. n -> S]
  PROVE  Append([i \in 1 .. n - 1 |-> f[i]], f[n]) = [i \in 1 .. n |-> f[i]]
<1> DEFINE short == [i \in 1 .. n - 1 |-> f[i]]
<1>1. short \in Seq(S) /\ Len(short) = n - 1 /\ f[n] \in S /\ DOMAIN short = 1 .. n - 1
      /\ \A i \in 1 .. n - 1 : short[i] = f[i]
  OBVIOUS
<1> HIDE DEF short
<1>2. /\ Append(short, f[n]) \in Seq(S) /\ Len(Append(short, f[n])) = n
      /\ \A i \in 1 .. n : Append(short, f[n])[i] = f[i]
  BY <1>1
<1>3. Append(short, f[n]) = [i \in 1 .. n |-> Append(short, f[n])[i]]
  BY <1>2
<1> QED
  BY <1>2, <1>3 DEF short

\* Tables that can all be mapped have one entry each.
LEMMA AllMapped ==
  ASSUME NEW tables, Len(tables) \in Nat, DOMAIN tables = 1 .. Len(tables),
         \A i \in DOMAIN tables : Mappable(tables[i])
  PROVE  Mapped(tables)[Len(tables)] = [i \in DOMAIN tables |-> EntryOf(tables[i])]
<1> DEFINE S == {EntryOf(tables[i]) : i \in DOMAIN tables}
           f == [i \in DOMAIN tables |-> EntryOf(tables[i])]
           Good == {n \in 0 .. Len(tables) : Mapped(tables)[n] = [i \in 1 .. n |-> f[i]]}
<1>1. \A i \in DOMAIN tables : f[i] = EntryOf(tables[i]) /\ f[i] \in S
  OBVIOUS
<1>6. f = [i \in DOMAIN tables |-> f[i]]
  OBVIOUS
<1> HIDE DEF f, S
<1>2. 0 \in Good
  <2>1. [i \in 1 .. 0 |-> f[i]] = <<>>
    OBVIOUS
  <2> QED
    BY <2>1, MapSteps
<1>3. ASSUME NEW n \in 1 .. Len(tables), n - 1 \in Good PROVE n \in Good
  <2>1. Mapped(tables)[n] = Append([i \in 1 .. n - 1 |-> f[i]], f[n])
    BY <1>1, <1>3, MapSteps
  <2> DEFINE g == [i \in 1 .. n |-> f[i]]
  <2>2. n \in Nat \ {0} /\ g \in [1 .. n -> S] /\ g[n] = f[n]
        /\ [i \in 1 .. n - 1 |-> g[i]] = [i \in 1 .. n - 1 |-> f[i]]
        /\ g = [i \in 1 .. n |-> g[i]]
    BY <1>1
  <2> HIDE DEF g
  <2>3. Append([i \in 1 .. n - 1 |-> g[i]], g[n]) = g
    BY <2>2, OneMore
  <2> QED
    BY <2>1, <2>2, <2>3, SMTT(20) DEF g
<1> HIDE DEF Good
<1>4. \A n \in 0 .. Len(tables) : n \in Good
  <2>1. \A n \in 0 + 1 .. Len(tables) : n - 1 \in Good => n \in Good
    BY <1>3
  <2> QED
    BY <1>2, <2>1, PlaceByPlace
<1>5. Mapped(tables)[Len(tables)] = [i \in 1 .. Len(tables) |-> f[i]]
  BY <1>4 DEF Good
<1> QED
  BY <1>5, <1>6 DEF f

\* Every table of a suite that is read without a complaint is a test of it.
LEMMA SuiteReads ==
  ASSUME NEW file, file.exists, file.lines \in Seq(TextLines),
         NEW tables, tables = TomlTablesOf(file.lines)
  PROVE  /\ ReadSuiteToml(file).ok => TomlEnd(file.lines).ok
         /\ ReadSuiteToml(file).ok =>
              \A i \in DOMAIN tables : Mappable(tables[i]) /\ OnlyKnownKeys(tables[i])
         /\ TomlEnd(file.lines).ok
              /\ (\A i \in DOMAIN tables : Mappable(tables[i]) /\ OnlyKnownKeys(tables[i]))
              => ReadSuiteToml(file).ok
         /\ ReadSuiteToml(file).ok =>
              ReadSuiteToml(file).tests = [i \in DOMAIN tables |-> EntryOf(tables[i])]
<1>1. /\ ReadToml(file).tables = tables /\ ReadToml(file).ok = TomlEnd(file.lines).ok
      /\ tables \in Seq(TomlTables)
  BY ReadsItsLines
<1>2. Len(tables) \in Nat /\ DOMAIN tables = 1 .. Len(tables)
  BY <1>1
<1>3. /\ ReadSuiteToml(file).tests = Mapped(tables)[Len(tables)]
      /\ ReadSuiteToml(file).ok => TomlEnd(file.lines).ok
      /\ ReadSuiteToml(file).ok =>
           \A i \in DOMAIN tables : Mappable(tables[i]) /\ OnlyKnownKeys(tables[i])
      /\ TomlEnd(file.lines).ok
           /\ (\A i \in DOMAIN tables : Mappable(tables[i]) /\ OnlyKnownKeys(tables[i]))
           => ReadSuiteToml(file).ok
  BY <1>1 DEF ReadSuiteToml
<1>4. ASSUME ReadSuiteToml(file).ok
      PROVE  ReadSuiteToml(file).tests = [i \in DOMAIN tables |-> EntryOf(tables[i])]
  BY <1>2, <1>3, <1>4, AllMapped
<1> QED
  BY <1>3, <1>4

LEMMA OneTableMore ==
  ASSUME NEW S, NEW tables \in Seq(S), NEW table \in S, NEW longer, longer = Append(tables, table)
  PROVE  /\ longer \in Seq(S) /\ Len(longer) = Len(tables) + 1 /\ Len(tables) \in Nat
         /\ DOMAIN longer = 1 .. Len(tables) + 1 /\ DOMAIN tables = 1 .. Len(tables)
         /\ \A i \in DOMAIN tables : longer[i] = tables[i]
         /\ longer[Len(tables) + 1] = table
OBVIOUS

\* A test that is appended to a suite that reads well is the last one of it, and nothing
\* of it is reported: what entryToTable and writeToml write, readSuiteToml reads back, whatever
\* is in the file before.
THEOREM EntryReads ==
  ASSUME NEW file, file.exists, file.lines \in Seq(TextLines), ReadSuiteToml(file).ok,
         NEW id \in Texts, NEW fixture \in Texts, NEW kind \in Kinds,
         NEW new, new = File(file.lines \o EntryLines(NewEntry(id, fixture, kind)))
  PROVE  /\ ReadSuiteToml(new).ok
         /\ ReadSuiteToml(new).tests
              = Append(ReadSuiteToml(file).tests, NewEntry(id, fixture, kind))
<1> DEFINE tables == TomlTablesOf(file.lines)
           longer == TomlTablesOf(new.lines)
           table == NewTable(id, fixture, kind)
           entry == NewEntry(id, fixture, kind)
<1>1. kind \in Texts
  BY SomeTexts
<1>2. new.exists /\ new.lines = file.lines \o EntryLines(entry)
  BY DEF File, Saved
<1>3. /\ new.lines \in Seq(TextLines) /\ longer = Append(tables, table)
      /\ TomlEnd(file.lines).ok => TomlEnd(new.lines).ok
  <2> DEFINE all == file.lines \o EntryLines(entry)
  <2>1. all \in Seq(TextLines) /\ (TomlEnd(file.lines).ok => TomlEnd(all).ok)
    BY <1>1, EntryIsAppended
  <2>3. TomlTablesOf(all) = Append(tables, table)
    BY <1>1, EntryIsAppended
  <2> HIDE DEF tables, table, entry
  <2> QED
    BY <1>2, <2>1, <2>3
<1>4. longer \in Seq(TomlTables) /\ tables \in Seq(TomlTables)
  BY <1>2, <1>3, ReadsItsLines
<1>5. EntryOf(table) = entry /\ Mappable(table) /\ OnlyKnownKeys(table)
  BY NewTableEntry
<1>6. /\ TomlEnd(file.lines).ok
      /\ \A i \in DOMAIN tables : Mappable(tables[i]) /\ OnlyKnownKeys(tables[i])
      /\ ReadSuiteToml(file).tests = [i \in DOMAIN tables |-> EntryOf(tables[i])]
  BY SuiteReads
<1> DEFINE S == {tables[i] : i \in DOMAIN tables} \cup {table}
<1>8. tables \in Seq(S) /\ table \in S
  <2>1. Len(tables) \in Nat /\ tables = [i \in 1 .. Len(tables) |-> tables[i]]
        /\ \A i \in 1 .. Len(tables) : tables[i] \in S
    BY <1>4
  <2> HIDE DEF tables
  <2> QED
    BY <2>1
<1> HIDE DEF tables, longer, table, entry, S
<1>7. /\ DOMAIN longer = 1 .. Len(tables) + 1 /\ DOMAIN tables = 1 .. Len(tables)
      /\ Len(tables) \in Nat /\ \A i \in DOMAIN tables : longer[i] = tables[i]
      /\ longer[Len(tables) + 1] = table
  BY <1>3, <1>8, OneTableMore
<1>9. \A i \in DOMAIN longer : Mappable(longer[i]) /\ OnlyKnownKeys(longer[i])
  <2>1. \A i \in DOMAIN longer : i \in DOMAIN tables \/ i = Len(tables) + 1
    BY <1>7
  <2> QED
    BY <1>5, <1>6, <1>7, <2>1
<1>10. /\ ReadSuiteToml(new).ok
       /\ ReadSuiteToml(new).tests = [i \in DOMAIN longer |-> EntryOf(longer[i])]
  <2>1. new.exists /\ new.lines \in Seq(TextLines) /\ longer = TomlTablesOf(new.lines)
        /\ TomlEnd(new.lines).ok
    BY <1>2, <1>3, <1>6 DEF longer
  <2>2. ReadSuiteToml(new).ok
    BY <1>9, <2>1, SuiteReads
  <2> QED
    BY <2>1, <2>2, SuiteReads
<1>11. [i \in DOMAIN longer |-> EntryOf(longer[i])]
         = Append([i \in DOMAIN tables |-> EntryOf(tables[i])], entry)
  <2> DEFINE f == [i \in DOMAIN longer |-> EntryOf(longer[i])]
             n == Len(tables) + 1
             T == {f[i] : i \in 1 .. n}
  <2>1. n \in Nat \ {0} /\ f \in [1 .. n -> T] /\ f[n] = entry /\ f = [i \in 1 .. n |-> f[i]]
        /\ n - 1 = Len(tables)
    BY <1>5, <1>7
  <2>2. [i \in 1 .. n - 1 |-> f[i]] = [i \in DOMAIN tables |-> EntryOf(tables[i])]
    BY <1>7
  <2> HIDE DEF f, T, n
  <2>3. Append([i \in 1 .. n - 1 |-> f[i]], f[n]) = [i \in 1 .. n |-> f[i]]
    BY <2>1, OneMore
  <2>4. f = Append([i \in DOMAIN tables |-> EntryOf(tables[i])], entry)
    BY <2>1, <2>2, <2>3
  <2> QED
    BY <2>4 DEF f
<1> QED
  BY <1>6, <1>10, <1>11 DEF entry

-----------------------------------------------------------------------------
(* registry.ini, line by line.                                             *)

IniTextLines == [kind : Texts, name : Texts, text : Texts]
Fixtures     == [name : Texts, keys : [IniKeys -> Texts]]

\* What the parser knows after each of the first m lines.
IniSoFar(lines, m, after) ==
  after = [n \in 0 .. m |-> IF n = 0 THEN StartRegistry ELSE HandleIniLine(after[n - 1], lines[n])]

LEMMA IniSteps ==
  ASSUME NEW lines, Len(lines) \in Nat
  PROVE  /\ IniAfter(lines)[0] = StartRegistry
         /\ \A n \in 1 .. Len(lines) :
              IniAfter(lines)[n] = HandleIniLine(IniAfter(lines)[n - 1], lines[n])
<1> DEFINE Good == {m \in Nat : \E after : IniSoFar(lines, m, after)}
           step(p, n) == HandleIniLine(p, lines[n])
<1>1. 0 \in Good
  <2> DEFINE none == [n \in 0 .. 0 |-> StartRegistry]
  <2>1. IniSoFar(lines, 0, none)
    BY DEF IniSoFar
  <2> QED
    BY <2>1
<1>2. ASSUME NEW m \in 1 .. Len(lines), m - 1 \in Good PROVE m \in Good
  <2>1. PICK f : IniSoFar(lines, m - 1, f)
    BY <1>2
  <2> DEFINE g == [n \in 0 .. m |-> IF n = m THEN step(f[m - 1], m) ELSE f[n]]
  <2> HIDE DEF step
  <2>2. \A n \in 0 .. m - 1 : f[n] = IF n = 0 THEN StartRegistry ELSE step(f[n - 1], n)
    BY <2>1 DEF IniSoFar, step
  <2>3. m \in Nat /\ m # 0 /\ m - 1 \in 0 .. m /\ \A n \in 0 .. m : n # m => n \in 0 .. m - 1
    OBVIOUS
  <2>4. \A n \in 0 .. m : g[n] = IF n = 0 THEN StartRegistry ELSE step(g[n - 1], n)
    BY <2>2, <2>3
  <2>5. g = [n \in 0 .. m |-> g[n]]
    OBVIOUS
  <2> HIDE DEF g
  <2>6. g = [n \in 0 .. m |-> IF n = 0 THEN StartRegistry ELSE step(g[n - 1], n)]
    BY <2>4, <2>5
  <2>7. IniSoFar(lines, m, g)
    BY <2>6 DEF IniSoFar, step
  <2> QED
    BY <2>3, <2>7
<1>3. Len(lines) \in Good
  <2> HIDE DEF Good
  <2> QED
    BY <1>1, <1>2, PlaceByPlace
<1>4. IniAfter(lines) = CHOOSE after : IniSoFar(lines, Len(lines), after)
  BY DEF IniAfter, IniSoFar
<1>5. IniSoFar(lines, Len(lines), IniAfter(lines))
  BY <1>3, <1>4
<1> HIDE DEF Good, step
<1> DEFINE after == IniAfter(lines)
<1> HIDE DEF after
<1>6. after = [n \in 0 .. Len(lines) |-> IF n = 0 THEN StartRegistry ELSE step(after[n - 1], n)]
  BY <1>5 DEF IniSoFar, after, step
<1>7. after[0] = StartRegistry /\ \A n \in 1 .. Len(lines) : after[n] = step(after[n - 1], n)
  BY <1>6
<1> QED
  BY <1>7 DEF after, step
\* What follows a line changes nothing of what the parser knew there.
LEMMA IniPrefix ==
  ASSUME NEW S, NEW lines \in Seq(S), NEW more \in Seq(S)
  PROVE  \A n \in 0 .. Len(lines) : IniAfter(lines \o more)[n] = IniAfter(lines)[n]
<1> DEFINE all == lines \o more
           Good == {n \in 0 .. Len(lines) : IniAfter(all)[n] = IniAfter(lines)[n]}
<1>1. /\ Len(lines) \in Nat /\ Len(all) \in Nat /\ Len(lines) <= Len(all)
      /\ \A n \in 1 .. Len(lines) : all[n] = lines[n]
  BY JoinedLines
<1> HIDE DEF all
<1>2. 0 \in Good
  BY <1>1, IniSteps
<1>3. ASSUME NEW n \in 1 .. Len(lines), n - 1 \in Good PROVE n \in Good
  <2>1. n \in 1 .. Len(all)
    BY <1>1
  <2>2. IniAfter(all)[n] = HandleIniLine(IniAfter(all)[n - 1], lines[n])
    BY <1>1, <2>1, IniSteps
  <2>3. IniAfter(lines)[n] = HandleIniLine(IniAfter(lines)[n - 1], lines[n])
    BY <1>1, IniSteps
  <2> QED
    BY <1>3, <2>2, <2>3
<1> HIDE DEF Good
<1>4. \A n \in 0 .. Len(lines) : n \in Good
  <2>1. \A n \in 0 + 1 .. Len(lines) : n - 1 \in Good => n \in Good
    BY <1>3
  <2> QED
    BY <1>1, <1>2, <2>1, PlaceByPlace
<1> QED
  BY <1>4 DEF Good, all

\* The end of the file, and what the lines that are added make of it.
IniEnd(lines) == IniAfter(lines)[Len(lines)]

LEMMA IniGoesOn ==
  ASSUME NEW S, NEW lines \in Seq(S), NEW more \in Seq(S)
  PROVE  /\ IniAfter(lines \o more)[Len(lines)] = IniEnd(lines)
         /\ IniEnd(lines \o more) = IniAfter(lines \o more)[Len(lines) + Len(more)]
         /\ \A k \in 1 .. Len(more) :
              IniAfter(lines \o more)[Len(lines) + k]
                = HandleIniLine(IniAfter(lines \o more)[Len(lines) + k - 1], more[k])
<1>1. /\ Len(lines) \in Nat /\ Len(lines \o more) = Len(lines) + Len(more) /\ Len(more) \in Nat
      /\ \A k \in 1 .. Len(more) : (lines \o more)[Len(lines) + k] = more[k]
  BY JoinedLines
<1>2. IniAfter(lines \o more)[Len(lines)] = IniEnd(lines)
  BY <1>1, IniPrefix DEF IniEnd
<1>3. ASSUME NEW k \in 1 .. Len(more)
      PROVE  IniAfter(lines \o more)[Len(lines) + k]
               = HandleIniLine(IniAfter(lines \o more)[Len(lines) + k - 1], more[k])
  <2> DEFINE all == lines \o more
             n == Len(lines) + k
  <2>1. n \in 1 .. Len(all) /\ Len(all) \in Nat /\ all[n] = more[k]
    BY <1>1
  <2>2. IniAfter(all)[n] = HandleIniLine(IniAfter(all)[n - 1], all[n])
    <3> HIDE DEF all, n
    <3> QED
      BY <2>1, IniSteps
  <2> QED
    BY <2>1, <2>2
<1> QED
  BY <1>1, <1>2, <1>3 DEF IniEnd

LEMMA IniLinesOn ==
  ASSUME NEW lines \in Seq(IniTextLines), NEW more \in Seq(IniTextLines)
  PROVE  \A all : all = lines \o more =>
           /\ all \in Seq(IniTextLines) /\ Len(lines) \in Nat
           /\ IniAfter(all)[Len(lines)] = IniEnd(lines)
           /\ IniEnd(all) = IniAfter(all)[Len(lines) + Len(more)]
           /\ \A k \in 1 .. Len(more) :
                IniAfter(all)[Len(lines) + k] = HandleIniLine(IniAfter(all)[Len(lines) + k - 1], more[k])
<1>1. IniAfter(lines \o more)[Len(lines)] = IniEnd(lines)
  BY IniGoesOn
<1>2. IniEnd(lines \o more) = IniAfter(lines \o more)[Len(lines) + Len(more)]
  BY IniGoesOn
<1>3. \A k \in 1 .. Len(more) :
        IniAfter(lines \o more)[Len(lines) + k]
          = HandleIniLine(IniAfter(lines \o more)[Len(lines) + k - 1], more[k])
  BY IniGoesOn
<1>4. lines \o more \in Seq(IniTextLines) /\ Len(lines) \in Nat
  BY JoinedLines
<1> QED
  BY <1>1, <1>2, <1>3, <1>4, Zenon

LEMMA FiveIniLinesOn ==
  ASSUME NEW lines \in Seq(IniTextLines), NEW more \in Seq(IniTextLines), Len(more) = 5
  PROVE  \A all : all = lines \o more =>
           /\ all \in Seq(IniTextLines) /\ Len(lines) \in Nat
           /\ IniAfter(all)[Len(lines)] = IniEnd(lines)
           /\ IniEnd(all) = IniAfter(all)[Len(lines) + 5]
           /\ \A k \in 1 .. 5 :
                IniAfter(all)[Len(lines) + k] = HandleIniLine(IniAfter(all)[Len(lines) + k - 1], more[k])
<1> DEFINE n == Len(more)
<1>1. \A all : all = lines \o more =>
        /\ all \in Seq(IniTextLines) /\ Len(lines) \in Nat
        /\ IniAfter(all)[Len(lines)] = IniEnd(lines)
        /\ IniEnd(all) = IniAfter(all)[Len(lines) + n]
        /\ \A k \in 1 .. n :
             IniAfter(all)[Len(lines) + k] = HandleIniLine(IniAfter(all)[Len(lines) + k - 1], more[k])
  BY IniLinesOn, Zenon
<1>2. n = 5
  OBVIOUS
<1> HIDE DEF n
<1> QED
  BY <1>1, <1>2, Zenon

IniParser(p) == p.fixtures \in Seq(Fixtures) /\ p.current \in Fixtures

LEMMA EmptyIsFixture == ASSUME NEW name \in Texts PROVE EmptyFixture(name) \in Fixtures
<1>1. "" \in Texts
  BY SomeTexts
<1> QED
  BY <1>1 DEF EmptyFixture, Fixtures

LEMMA FinishIs ==
  ASSUME NEW p, IniParser(p)
  PROVE  /\ IniParser(FinishSection(p))
         /\ FinishSection(p).ok => p.ok
BY DEF FinishSection, IniParser, Registry

LEMMA LineKeepsIni ==
  ASSUME NEW p, IniParser(p), NEW line \in IniTextLines
  PROVE  IniParser(HandleIniLine(p, line)) /\ (HandleIniLine(p, line).ok => p.ok)
<1> DEFINE next == HandleIniLine(p, line)
           finished == FinishSection(p)
<1>0. line.name \in Texts /\ line.text \in Texts
  BY DEF IniTextLines
<1>1. \/ next = p
      \/ next = Rejected(p)
      \/ next = Registry(finished.fixtures, EmptyFixture(line.name), TRUE, finished.ok)
      \/ line.name \in IniKeys
         /\ next = Registry(p.fixtures, WithKey(p.current, line.name, line.text), TRUE, p.ok)
  BY DEF HandleIniLine, HandleIniPair
<1>2. IniParser(finished) /\ (finished.ok => p.ok) /\ EmptyFixture(line.name) \in Fixtures
  BY <1>0, FinishIs, EmptyIsFixture
<1> HIDE DEF next, finished
<1>3. CASE next = p
  BY <1>3 DEF next
<1>4. CASE next = Rejected(p)
  <2>1. IniParser(next) /\ (next.ok => p.ok)
    BY <1>4 DEF Rejected, Registry, IniParser
  <2> QED
    BY <2>1 DEF next
<1>5. CASE next = Registry(finished.fixtures, EmptyFixture(line.name), TRUE, finished.ok)
  <2>1. IniParser(next) /\ (next.ok => p.ok)
    BY <1>2, <1>5 DEF Registry, IniParser
  <2> QED
    BY <2>1 DEF next
<1>6. CASE line.name \in IniKeys
           /\ next = Registry(p.fixtures, WithKey(p.current, line.name, line.text), TRUE, p.ok)
  <2>1. WithKey(p.current, line.name, line.text) \in Fixtures
    BY <1>0 DEF WithKey, Fixtures, IniParser
  <2>2. IniParser(next) /\ (next.ok => p.ok)
    BY <1>6, <2>1 DEF Registry, IniParser
  <2> QED
    BY <2>2 DEF next
<1> QED
  BY <1>1, <1>3, <1>4, <1>5, <1>6

LEMMA IniThroughout ==
  ASSUME NEW lines \in Seq(IniTextLines)
  PROVE  /\ \A n \in 0 .. Len(lines) : IniParser(IniAfter(lines)[n])
         /\ IniParser(IniEnd(lines))
<1> DEFINE Good == {n \in 0 .. Len(lines) : IniParser(IniAfter(lines)[n])}
<1>1. Len(lines) \in Nat /\ \A n \in 1 .. Len(lines) : lines[n] \in IniTextLines
  OBVIOUS
<1>2. 0 \in Good
  <2>1. IniParser(StartRegistry)
    <3>1. "" \in Texts
      BY SomeTexts
    <3>2. EmptyFixture("") \in Fixtures
      BY <3>1, EmptyIsFixture, Zenon
    <3>3. <<>> \in Seq(Fixtures)
      OBVIOUS
    <3> QED
      BY <3>2, <3>3 DEF StartRegistry, Registry, IniParser
  <2> QED
    BY <1>1, <2>1, IniSteps
<1>3. ASSUME NEW n \in 1 .. Len(lines), n - 1 \in Good PROVE n \in Good
  <2>1. IniAfter(lines)[n] = HandleIniLine(IniAfter(lines)[n - 1], lines[n])
    BY <1>1, IniSteps
  <2> QED
    BY <1>1, <1>3, <2>1, LineKeepsIni
<1> HIDE DEF Good
<1>4. \A n \in 0 .. Len(lines) : n \in Good
  <2>1. \A n \in 0 + 1 .. Len(lines) : n - 1 \in Good => n \in Good
    BY <1>3
  <2> QED
    BY <1>1, <1>2, <2>1, PlaceByPlace
<1>5. \A n \in 0 .. Len(lines) : IniParser(IniAfter(lines)[n])
  BY <1>4 DEF Good
<1> QED
  BY <1>1, <1>5 DEF IniEnd

\* A fixture of which some keys have been read.
Partly(fixture, done) ==
  [name |-> fixture.name, keys |-> [k \in IniKeys |-> IF k \in done THEN fixture.keys[k] ELSE ""]]

LEMMA PartlyIs ==
  ASSUME NEW fixture \in Fixtures
  PROVE  /\ Partly(fixture, {}) = EmptyFixture(fixture.name)
         /\ Partly(fixture, IniKeys) = fixture
<1>1. Partly(fixture, {}) = EmptyFixture(fixture.name)
  BY DEF Partly, EmptyFixture
<1>2. /\ fixture = [name |-> fixture.name, keys |-> fixture.keys]
      /\ fixture.keys = [k \in IniKeys |-> fixture.keys[k]]
  BY DEF Fixtures
<1>3. [k \in IniKeys |-> IF k \in IniKeys THEN fixture.keys[k] ELSE ""]
        = [k \in IniKeys |-> fixture.keys[k]]
  OBVIOUS
<1> QED
  BY <1>1, <1>2, <1>3 DEF Partly

LEMMA PartlyMore ==
  ASSUME NEW fixture, NEW done, NEW key \in IniKeys
  PROVE  WithKey(Partly(fixture, done), key, fixture.keys[key]) = Partly(fixture, done \cup {key})
<1> DEFINE read == [k \in IniKeys |-> IF k \in done THEN fixture.keys[k] ELSE ""]
           more == [k \in IniKeys |-> IF k \in done \cup {key} THEN fixture.keys[k] ELSE ""]
<1>1. [read EXCEPT ![key] = fixture.keys[key]] = more
  OBVIOUS
<1>2. /\ Partly(fixture, done) = [name |-> fixture.name, keys |-> read]
      /\ Partly(fixture, done \cup {key}) = [name |-> fixture.name, keys |-> more]
  BY DEF Partly
<1> HIDE DEF read, more
<1>3. Partly(fixture, done).name = fixture.name /\ Partly(fixture, done).keys = read
  BY <1>2
<1> QED
  BY <1>1, <1>2, <1>3 DEF WithKey

LEMMA PartlySame ==
  ASSUME NEW fixture, NEW done, NEW key \in IniKeys, fixture.keys[key] = ""
  PROVE  Partly(fixture, done \cup {key}) = Partly(fixture, done)
BY DEF Partly

\* In the middle of a fixture, after what was read up to it.
InFixture(p, from, fixture, done) ==
  /\ p.fixtures = from.fixtures /\ p.current = Partly(fixture, done) /\ p.inSection
  /\ p.ok = from.ok

LEMMA KeyIsRead ==
  ASSUME NEW p, NEW from, NEW fixture, NEW done, NEW key \in IniKeys,
         InFixture(p, from, fixture, done)
  PROVE  InFixture(HandleIniLine(p, IniPair(key, fixture.keys[key])), from, fixture, done \cup {key})
<1> DEFINE line == IniPair(key, fixture.keys[key])
           next == HandleIniLine(p, line)
<1>1. line.kind = "pair" /\ line.name = key /\ line.text = fixture.keys[key]
  BY DEF IniPair, IniLine
<1>2. p.inSection /\ p.current = Partly(fixture, done)
  BY DEF InFixture
<1>3. WithKey(Partly(fixture, done), key, fixture.keys[key]) = Partly(fixture, done \cup {key})
  BY PartlyMore
<1> HIDE DEF line
<1>4. next = Registry(p.fixtures, WithKey(p.current, line.name, line.text), TRUE, p.ok)
  BY <1>1, <1>2 DEF HandleIniLine, HandleIniPair
<1>5. WithKey(p.current, line.name, line.text) = Partly(fixture, done \cup {key})
  BY <1>1, <1>2, <1>3
<1> HIDE DEF next
<1>6. /\ next.fixtures = p.fixtures /\ next.current = Partly(fixture, done \cup {key})
      /\ next.inSection /\ next.ok = p.ok
  BY <1>4, <1>5 DEF Registry
<1>7. InFixture(next, from, fixture, done \cup {key})
  BY <1>6 DEF InFixture
<1> QED
  BY <1>7 DEF next, line

LEMMA IniLinesAreText ==
  /\ \A name \in Texts : Section(name) \in IniTextLines
  /\ \A key, text \in Texts : IniPair(key, text) \in IniTextLines
  /\ IniJunk \in IniTextLines /\ IniComment \in IniTextLines
<1>1. "" \in Texts /\ "section" \in Texts /\ "pair" \in Texts /\ "junk" \in Texts /\ "blank" \in Texts
  BY SomeTexts, Zenon
<1>2. \A kind, name, text \in Texts : IniLine(kind, name, text) \in IniTextLines
  BY DEF IniLine, IniTextLines
<1>3. \A name \in Texts : Section(name) \in IniTextLines
  BY <1>1, <1>2, Zenon DEF Section
<1>4. \A key, text \in Texts : IniPair(key, text) \in IniTextLines
  BY <1>1, <1>2, Zenon DEF IniPair
<1>5. IniJunk \in IniTextLines /\ IniComment \in IniTextLines
  BY <1>1, <1>2, Zenon DEF IniJunk, IniComment
<1> QED
  BY <1>3, <1>4, <1>5

LEMMA OneIniLine ==
  ASSUME NEW lines \in Seq(IniTextLines), NEW line \in IniTextLines
  PROVE  IniEnd(lines \o <<line>>) = HandleIniLine(IniEnd(lines), line)
<1> DEFINE more == <<line>>
<1>1. more \in Seq(IniTextLines) /\ Len(more) = 1 /\ more[1] = line
  OBVIOUS
<1>2. Len(lines) \in Nat
  OBVIOUS
<1> HIDE DEF more
<1> DEFINE after == IniAfter(lines \o more)
<1>3. after[Len(lines)] = IniEnd(lines)
  BY <1>1, IniGoesOn
<1>4. IniEnd(lines \o more) = after[Len(lines) + Len(more)]
  BY <1>1, IniGoesOn
<1>5. \A k \in 1 .. Len(more) :
        after[Len(lines) + k] = HandleIniLine(after[Len(lines) + k - 1], more[k])
  BY <1>1, IniGoesOn
<1> HIDE DEF after
<1>6. after[Len(lines) + 1] = HandleIniLine(after[Len(lines) + 1 - 1], more[1])
  BY <1>1, <1>5
<1>7. Len(lines) + 1 - 1 = Len(lines)
  BY <1>2
<1> QED
  BY <1>1, <1>3, <1>4, <1>6, <1>7 DEF more

LEMMA OptionalIsRead ==
  ASSUME NEW lines \in Seq(IniTextLines), NEW fixture \in Fixtures, NEW from, NEW done,
         NEW key \in IniKeys, InFixture(IniEnd(lines), from, fixture, done)
  PROVE  /\ OptionalLine(fixture, key) \in Seq(IniTextLines)
         /\ lines \o OptionalLine(fixture, key) \in Seq(IniTextLines)
         /\ InFixture(IniEnd(lines \o OptionalLine(fixture, key)), from, fixture, done \cup {key})
<1>1. CASE fixture.keys[key] = ""
  <2>1. OptionalLine(fixture, key) = <<>>
    BY <1>1 DEF OptionalLine
  <2>3. lines \o <<>> = lines /\ <<>> \in Seq(IniTextLines)
    OBVIOUS
  <2>2. Partly(fixture, done \cup {key}) = Partly(fixture, done)
    BY <1>1, PartlySame
  <2> QED
    BY <2>1, <2>2, <2>3 DEF InFixture
<1>2. CASE fixture.keys[key] # ""
  <2> DEFINE line == IniPair(key, fixture.keys[key])
  <2>1. key \in Texts /\ fixture.keys[key] \in Texts
    <3>1. key \in Texts
      BY SomeTexts
    <3> QED
      BY <3>1 DEF Fixtures
  <2>2. line \in IniTextLines
    BY <2>1, IniLinesAreText
  <2>3. InFixture(HandleIniLine(IniEnd(lines), line), from, fixture, done \cup {key})
    BY KeyIsRead
  <2>4. OptionalLine(fixture, key) = <<line>>
    BY <1>2 DEF OptionalLine
  <2> HIDE DEF line
  <2>5. IniEnd(lines \o <<line>>) = HandleIniLine(IniEnd(lines), line)
    BY <2>2, OneIniLine
  <2>6. <<line>> \in Seq(IniTextLines) /\ lines \o <<line>> \in Seq(IniTextLines)
    BY <2>2
  <2> QED
    BY <2>3, <2>4, <2>5, <2>6
<1> QED
  BY <1>1, <1>2

\* The lines of the name and of the required keys.
FirstLines(fixture) ==
  <<Section(fixture.name), IniPair("header", fixture.keys["header"]),
    IniPair("adapter", fixture.keys["adapter"]), IniPair("chrono", fixture.keys["chrono"]),
    IniPair("hash", fixture.keys["hash"])>>

LEMMA FirstLinesAre ==
  ASSUME NEW fixture \in Fixtures
  PROVE  /\ FirstLines(fixture) \in Seq(IniTextLines) /\ Len(FirstLines(fixture)) = 5
         /\ FirstLines(fixture)[1] = Section(fixture.name)
         /\ FirstLines(fixture)[2] = IniPair("header", fixture.keys["header"])
         /\ FirstLines(fixture)[3] = IniPair("adapter", fixture.keys["adapter"])
         /\ FirstLines(fixture)[4] = IniPair("chrono", fixture.keys["chrono"])
         /\ FirstLines(fixture)[5] = IniPair("hash", fixture.keys["hash"])
<1>1. "header" \in Texts /\ "adapter" \in Texts /\ "chrono" \in Texts /\ "hash" \in Texts
  <2>1. "header" \in IniKeys /\ "adapter" \in IniKeys /\ "chrono" \in IniKeys /\ "hash" \in IniKeys
    BY DEF IniKeys, RequiredKeys
  <2> QED
    BY <2>1, SomeTexts, Zenon
<1>2. fixture.name \in Texts /\ \A key \in IniKeys : fixture.keys[key] \in Texts
  BY DEF Fixtures
<1>3. {"header", "adapter", "chrono", "hash"} \subseteq IniKeys
  BY DEF IniKeys, RequiredKeys
<1>4. /\ Section(fixture.name) \in IniTextLines
      /\ IniPair("header", fixture.keys["header"]) \in IniTextLines
      /\ IniPair("adapter", fixture.keys["adapter"]) \in IniTextLines
      /\ IniPair("chrono", fixture.keys["chrono"]) \in IniTextLines
      /\ IniPair("hash", fixture.keys["hash"]) \in IniTextLines
  BY <1>1, <1>2, <1>3, IniLinesAreText
<1> QED
  BY <1>4 DEF FirstLines

\* The name and the required keys of a fixture are read.
LEMMA FirstLinesAreRead ==
  ASSUME NEW lines \in Seq(IniTextLines), NEW fixture \in Fixtures
  PROVE  /\ lines \o FirstLines(fixture) \in Seq(IniTextLines)
         /\ InFixture(IniEnd(lines \o FirstLines(fixture)), FinishSection(IniEnd(lines)), fixture,
                      RequiredKeys)
<1> DEFINE five == FirstLines(fixture)
           all == lines \o five
           from == FinishSection(IniEnd(lines))
           p(k) == IniAfter(all)[Len(lines) + k]
<1>1. /\ five \in Seq(IniTextLines) /\ Len(five) = 5
      /\ five[1] = Section(fixture.name) /\ five[2] = IniPair("header", fixture.keys["header"])
      /\ five[3] = IniPair("adapter", fixture.keys["adapter"])
      /\ five[4] = IniPair("chrono", fixture.keys["chrono"])
      /\ five[5] = IniPair("hash", fixture.keys["hash"])
  BY FirstLinesAre
<1>2. all = lines \o five
  OBVIOUS
<1> HIDE DEF five, all
<1>3. /\ all \in Seq(IniTextLines) /\ Len(lines) \in Nat
      /\ IniAfter(all)[Len(lines)] = IniEnd(lines)
      /\ IniEnd(all) = IniAfter(all)[Len(lines) + 5]
      /\ \A k \in 1 .. 5 :
           IniAfter(all)[Len(lines) + k] = HandleIniLine(IniAfter(all)[Len(lines) + k - 1], five[k])
  <2> HIDE DEF p
  <2>1. five \in Seq(IniTextLines) /\ Len(five) = 5
    BY <1>1
  <2>2. all \in Seq(IniTextLines) /\ Len(lines) \in Nat
    BY <1>2, <2>1, FiveIniLinesOn
  <2>3. IniAfter(all)[Len(lines)] = IniEnd(lines)
    BY <1>2, <2>1, FiveIniLinesOn
  <2>4. IniEnd(all) = IniAfter(all)[Len(lines) + 5]
    BY <1>2, <2>1, FiveIniLinesOn
  <2>5. ASSUME NEW k \in 1 .. 5
        PROVE  IniAfter(all)[Len(lines) + k]
                 = HandleIniLine(IniAfter(all)[Len(lines) + k - 1], five[k])
    BY <1>2, <2>1, FiveIniLinesOn
  <2> QED
    BY <2>2, <2>3, <2>4, <2>5, Zenon
<1>4. /\ p(1) = HandleIniLine(IniEnd(lines), five[1]) /\ p(2) = HandleIniLine(p(1), five[2])
      /\ p(3) = HandleIniLine(p(2), five[3]) /\ p(4) = HandleIniLine(p(3), five[4])
      /\ IniEnd(all) = HandleIniLine(p(4), five[5])
  <2>1. \A k \in 1 .. 5 : k - 1 \in 0 .. 4 /\ Len(lines) + k - 1 = Len(lines) + (k - 1)
    BY <1>3
  <2>2. Len(lines) + 0 = Len(lines)
    BY <1>3
  <2>3. \A k \in 1 .. 5 : p(k) = HandleIniLine(p(k - 1), five[k])
    BY <1>3, <2>1
  <2>4. p(0) = IniEnd(lines) /\ IniEnd(all) = p(5)
    BY <1>3, <2>2
  <2> HIDE DEF p
  <2>5. /\ p(1) = HandleIniLine(p(1 - 1), five[1]) /\ p(2) = HandleIniLine(p(2 - 1), five[2])
        /\ p(3) = HandleIniLine(p(3 - 1), five[3]) /\ p(4) = HandleIniLine(p(4 - 1), five[4])
        /\ p(5) = HandleIniLine(p(5 - 1), five[5])
    BY <2>3
  <2> QED
    BY <2>4, <2>5
<1> HIDE DEF p
<1>5. InFixture(p(1), from, fixture, {})
  <2>1. Section(fixture.name).kind = "section" /\ Section(fixture.name).name = fixture.name
    BY DEF Section, IniLine
  <2>2. p(1) = Registry(from.fixtures, EmptyFixture(fixture.name), TRUE, from.ok)
    BY <1>1, <1>4, <2>1 DEF HandleIniLine
  <2> HIDE DEF from
  <2>3. /\ p(1).fixtures = from.fixtures /\ p(1).current = EmptyFixture(fixture.name)
        /\ p(1).inSection /\ p(1).ok = from.ok
    BY <2>2 DEF Registry
  <2> QED
    BY <2>3, PartlyIs DEF InFixture
<1> HIDE DEF from
<1>6. "header" \in IniKeys /\ "adapter" \in IniKeys /\ "chrono" \in IniKeys /\ "hash" \in IniKeys
  BY DEF IniKeys, RequiredKeys
<1>7. InFixture(p(2), from, fixture, {} \cup {"header"})
  <2>1. p(2) = HandleIniLine(p(1), IniPair("header", fixture.keys["header"]))
    BY <1>1, <1>4
  <2>2. InFixture(HandleIniLine(p(1), IniPair("header", fixture.keys["header"])), from, fixture,
                  {} \cup {"header"})
    BY <1>5, <1>6, KeyIsRead
  <2> QED
    BY <2>1, <2>2
<1>8. InFixture(p(3), from, fixture, {} \cup {"header"} \cup {"adapter"})
  <2>1. p(3) = HandleIniLine(p(2), IniPair("adapter", fixture.keys["adapter"]))
    BY <1>1, <1>4
  <2>2. InFixture(HandleIniLine(p(2), IniPair("adapter", fixture.keys["adapter"])), from, fixture,
                  {} \cup {"header"} \cup {"adapter"})
    BY <1>7, <1>6, KeyIsRead
  <2> QED
    BY <2>1, <2>2
<1>9. InFixture(p(4), from, fixture, {} \cup {"header"} \cup {"adapter"} \cup {"chrono"})
  <2>1. p(4) = HandleIniLine(p(3), IniPair("chrono", fixture.keys["chrono"]))
    BY <1>1, <1>4
  <2>2. InFixture(HandleIniLine(p(3), IniPair("chrono", fixture.keys["chrono"])), from, fixture,
                  {} \cup {"header"} \cup {"adapter"} \cup {"chrono"})
    BY <1>8, <1>6, KeyIsRead
  <2> QED
    BY <2>1, <2>2
<1>10. InFixture(IniEnd(all), from, fixture, {} \cup {"header"} \cup {"adapter"} \cup {"chrono"} \cup {"hash"})
  <2>1. IniEnd(all) = HandleIniLine(p(4), IniPair("hash", fixture.keys["hash"]))
    BY <1>1, <1>4
  <2>2. InFixture(HandleIniLine(p(4), IniPair("hash", fixture.keys["hash"])), from, fixture,
                  {} \cup {"header"} \cup {"adapter"} \cup {"chrono"} \cup {"hash"})
    BY <1>9, <1>6, KeyIsRead
  <2> QED
    BY <2>1, <2>2
<1>11. {} \cup {"header"} \cup {"adapter"} \cup {"chrono"} \cup {"hash"} = RequiredKeys
  BY DEF RequiredKeys
<1>12. InFixture(IniEnd(all), from, fixture, RequiredKeys)
  BY <1>10, <1>11
<1> QED
  BY <1>3, <1>12 DEF all, five, from

\* A valid fixture that is appended to a registry is the last one of it, and nothing of it is
\* reported: what writeRegistryIni writes, readRegistryIni reads back, whatever is in the file
\* before.
THEOREM FixtureIsAppended ==
  ASSUME NEW lines \in Seq(IniTextLines), NEW fixture \in Fixtures, ValidFixture(fixture)
  PROVE  LET old == FinishSection(IniEnd(lines))
             new == FinishSection(IniEnd(lines \o FixtureLines(fixture)))
         IN  /\ lines \o FixtureLines(fixture) \in Seq(IniTextLines)
             /\ new.fixtures = Append(old.fixtures, fixture) /\ new.ok = old.ok
<1> DEFINE five == FirstLines(fixture)
           dir == OptionalLine(fixture, "extra_link_dir")
           target == OptionalLine(fixture, "extra_link_target")
           from == FinishSection(IniEnd(lines))
           all == (((lines \o five) \o dir) \o target) \o <<IniComment>>
<1>1. five \in Seq(IniTextLines) /\ lines \o five \in Seq(IniTextLines)
      /\ InFixture(IniEnd(lines \o five), from, fixture, RequiredKeys)
  BY FirstLinesAre, FirstLinesAreRead
<1>2. "extra_link_dir" \in IniKeys /\ "extra_link_target" \in IniKeys
  BY DEF IniKeys, OptionalKeys
<1> HIDE DEF from, five
<1>3. /\ dir \in Seq(IniTextLines) /\ (lines \o five) \o dir \in Seq(IniTextLines)
      /\ InFixture(IniEnd((lines \o five) \o dir), from, fixture, RequiredKeys \cup {"extra_link_dir"})
  BY <1>1, <1>2, OptionalIsRead
<1> HIDE DEF dir
<1>4. /\ target \in Seq(IniTextLines) /\ ((lines \o five) \o dir) \o target \in Seq(IniTextLines)
      /\ InFixture(IniEnd(((lines \o five) \o dir) \o target), from, fixture,
                   RequiredKeys \cup {"extra_link_dir"} \cup {"extra_link_target"})
  BY <1>2, <1>3, OptionalIsRead
<1> HIDE DEF target
<1>5. RequiredKeys \cup {"extra_link_dir"} \cup {"extra_link_target"} = IniKeys
  BY DEF IniKeys, OptionalKeys
<1> DEFINE long == ((lines \o five) \o dir) \o target
<1>6. long \in Seq(IniTextLines) /\ InFixture(IniEnd(long), from, fixture, IniKeys)
  BY <1>4, <1>5
<1>7. IniComment \in IniTextLines /\ IniComment.kind = "blank"
  BY IniLinesAreText DEF IniComment, IniLine
<1>8. IniEnd(long \o <<IniComment>>) = IniEnd(long)
  <2> HIDE DEF long
  <2>1. IniEnd(long \o <<IniComment>>) = HandleIniLine(IniEnd(long), IniComment)
    BY <1>6, <1>7, OneIniLine
  <2> QED
    BY <1>7, <2>1 DEF HandleIniLine
<1>9. long \o <<IniComment>> = lines \o FixtureLines(fixture)
  <2> DEFINE last1 == <<IniComment>>
  <2>1. last1 \in Seq(IniTextLines)
    BY <1>7
  <2>2. FixtureLines(fixture) = ((five \o dir) \o target) \o last1
    BY DEF FixtureLines, FirstLines, five, dir, target
  <2> HIDE DEF last1
  <2> DEFINE two == five \o dir
             three == two \o target
  <2>3. two \in Seq(IniTextLines) /\ three \in Seq(IniTextLines)
    BY <1>1, <1>3, <1>4
  <2>4. (lines \o five) \o dir = lines \o two
    BY <1>1, <1>3
  <2> HIDE DEF two
  <2>5. (lines \o two) \o target = lines \o three
    BY <1>4, <2>3
  <2> HIDE DEF three
  <2>6. (lines \o three) \o last1 = lines \o (three \o last1)
    BY <2>1, <2>3
  <2>7. long \o last1 = lines \o (three \o last1)
    BY <2>4, <2>5, <2>6
  <2> QED
    BY <2>2, <2>7 DEF last1, three, two
<1> HIDE DEF long
<1>10. long \o <<IniComment>> \in Seq(IniTextLines)
  BY <1>6, <1>7
<1>11. Partly(fixture, IniKeys) = fixture
  BY PartlyIs
<1> DEFINE end == IniEnd(long)
<1>12. end.fixtures = from.fixtures /\ end.current = fixture /\ end.inSection /\ end.ok = from.ok
  BY <1>6, <1>11 DEF InFixture
<1> HIDE DEF end
<1>13. FinishSection(end) = Registry(Append(from.fixtures, fixture), fixture, FALSE, end.ok)
  BY <1>12 DEF FinishSection
<1>14. FinishSection(end).fixtures = Append(from.fixtures, fixture) /\ FinishSection(end).ok = from.ok
  BY <1>12, <1>13 DEF Registry
<1> QED
  BY <1>8, <1>9, <1>10, <1>14 DEF end, from

-----------------------------------------------------------------------------
(* What the two files hold are texts.                                      *)

\* The lines of a file are of the set given, and a file without a newline at its end has a
\* last line.
TextOf(file, S) == file.lines \in Seq(S) /\ (~file.ended => file.lines # <<>>)
TextsOK(s) == TextOf(s.toml, TextLines) /\ TextOf(s.ini, IniTextLines)

LEMMA FrontAndLast ==
  ASSUME NEW S, NEW lines \in Seq(S), lines # <<>>
  PROVE  Front(lines) \in Seq(S) /\ Last(lines) \in S /\ Tail(lines) \in Seq(S)
BY DEF Front, Last

LEMMA AppendIsText ==
  ASSUME NEW S, NEW file, TextOf(file, S), NEW block \in Seq(S), block # <<>>,
         NEW joined, ~file.ended => joined \in S
  PROVE  /\ TextOf(AppendBlock(file, block, joined), S)
         /\ AppendBlock(file, block, joined).exists /\ AppendBlock(file, block, joined).ended
         /\ file.ended => AppendBlock(file, block, joined) = File(file.lines \o block)
<1>1. CASE file.ended
  <2>1. file.lines \o block \in Seq(S)
    BY JoinedLines DEF TextOf
  <2> QED
    BY <1>1, <2>1 DEF AppendBlock, File, Saved, TextOf
<1>2. CASE ~file.ended
  <2> DEFINE front == Front(file.lines)
             one == <<joined>>
             rest == Tail(block)
  <2>1. front \in Seq(S) /\ one \in Seq(S) /\ rest \in Seq(S)
    BY <1>2, FrontAndLast DEF TextOf
  <2>2. AppendBlock(file, block, joined) = File(front \o one \o rest)
    BY <1>2 DEF AppendBlock
  <2> HIDE DEF front, one, rest
  <2>3. front \o one \in Seq(S)
    BY <2>1
  <2>4. front \o one \o rest \in Seq(S)
    BY <2>1, <2>3
  <2> QED
    BY <1>2, <2>2, <2>4 DEF File, Saved, TextOf
<1> QED
  BY <1>1, <1>2

LEMMA CutIsText ==
  ASSUME NEW S, NEW file, TextOf(file, S), NEW block \in Seq(S), block # <<>>,
         NEW joined, ~file.ended => joined \in S,
         NEW parts, \A n \in DOMAIN block : parts[n] \subseteq S,
         NEW cut \in CutAppends(file, block, joined, parts)
  PROVE  TextOf(cut, S)
<1> DEFINE left(n) == IF n = 0 THEN file ELSE AppendBlock(file, SubSeq(block, 1, n), joined)
<1>1. ASSUME NEW n \in 0 .. Len(block) - 1 PROVE TextOf(left(n), S)
  <2>1. CASE n = 0
    BY <2>1
  <2>2. CASE n # 0
    <3> DEFINE part == SubSeq(block, 1, n)
    <3>1. part \in Seq(S) /\ part # <<>>
      <4>1. Len(block) \in Nat /\ n \in 1 .. Len(block)
        BY <2>2
      <4>2. part = [i \in 1 .. n |-> block[i]]
        BY <4>1
      <4>3. \A i \in 1 .. n : block[i] \in S
        BY <4>1
      <4> QED
        BY <4>1, <4>2, <4>3
    <3> HIDE DEF part
    <3>2. TextOf(AppendBlock(file, part, joined), S)
      BY <3>1, AppendIsText
    <3> QED
      BY <2>2, <3>2 DEF part
  <2> QED
    BY <2>1, <2>2
<1>2. CASE \E n \in 0 .. Len(block) - 1 : cut = left(n)
  BY <1>1, <1>2
<1>3. CASE \E n \in 1 .. Len(block) - 1, line \in S :
             cut = Saved(Append(left(n - 1).lines, line), FALSE)
  <2>1. PICK n \in 1 .. Len(block) - 1, line \in S :
             cut = Saved(Append(left(n - 1).lines, line), FALSE)
    BY <1>3
  <2>2. n - 1 \in 0 .. Len(block) - 1
    BY <2>1
  <2> DEFINE lines == left(n - 1).lines
  <2>3. lines \in Seq(S)
    BY <1>1, <2>2 DEF TextOf
  <2> HIDE DEF lines
  <2>4. Append(lines, line) \in Seq(S) /\ Append(lines, line) # <<>>
    <3>1. line \in S
      BY <2>1
    <3>2. Append(lines, line) \in Seq(S)
      BY <2>3, <3>1
    <3>3. Len(Append(lines, line)) = Len(lines) + 1 /\ Len(lines) \in Nat
      BY <2>3
    <3>4. Len(<<>>) = 0
      OBVIOUS
    <3>5. Append(lines, line) # <<>>
      BY <3>3, <3>4
    <3> QED
      BY <3>2, <3>5
  <2> QED
    BY <2>1, <2>4 DEF Saved, TextOf, lines
<1>4. \/ \E n \in 0 .. Len(block) - 1 : cut = left(n)
      \/ \E n \in 1 .. Len(block) - 1, line \in S :
             cut = Saved(Append(left(n - 1).lines, line), FALSE)
  <2>1. \A n \in 1 .. Len(block) - 1 : n \in DOMAIN block /\ parts[n] \cup {block[n]} \subseteq S
    OBVIOUS
  <2>2. (IF file.ended THEN 1 ELSE 2) .. Len(block) - 1 \subseteq 1 .. Len(block) - 1
    OBVIOUS
  <2>3. \/ cut \in {left(n) : n \in 0 .. Len(block) - 1}
        \/ \E n \in (IF file.ended THEN 1 ELSE 2) .. Len(block) - 1 :
             \E line \in parts[n] \cup {block[n]} :
               cut = Saved(Append(left(n - 1).lines, line), FALSE)
    BY ZenonT(30) DEF CutAppends
  <2> HIDE DEF left
  <2>4. ASSUME NEW n \in (IF file.ended THEN 1 ELSE 2) .. Len(block) - 1,
               NEW line \in parts[n] \cup {block[n]}
        PROVE  n \in 1 .. Len(block) - 1 /\ line \in S
    BY <2>1, <2>2, Zenon
  <2> QED
    BY <2>3, <2>4, Zenon
<1> QED
  BY <1>2, <1>3, <1>4

LEMMA EditsAreText == TomlLines \subseteq TextLines /\ Seq(TomlLines) \subseteq Seq(TextLines)
<1>1. STRING \subseteq Texts
  BY SomeTexts
<1>2. TomlValues \subseteq TextValues
  BY <1>1 DEF TomlValues, TextValues
<1>3. TomlLines \subseteq TextLines
  BY <1>1, <1>2 DEF TomlLines, TextLines
<1>4. ASSUME NEW lines \in Seq(TomlLines) PROVE lines \in Seq(TextLines)
  <2>1. Len(lines) \in Nat /\ lines = [i \in 1 .. Len(lines) |-> lines[i]]
    BY <1>4
  <2>2. \A i \in 1 .. Len(lines) : lines[i] \in TextLines
    BY <1>3, <1>4
  <2> QED
    BY <2>1, <2>2
<1> QED
  BY <1>3, <1>4

LEMMA JoinedIsText ==
  ASSUME NEW line \in TextLines
  PROVE  JoinedWithHeader(line) \in TextLines /\ PartsOfLine(line) \subseteq TextLines
<1>1. Header("foreign") \in TextLines /\ OpenHeader \in TextLines /\ Junk \in TextLines
  <2>1. "foreign" \in Texts
    BY SomeTexts, Zenon
  <2>2. {SingleBracket, Junk, OpenHeader, Comment} \subseteq TextLines
    BY LinesAreText
  <2> QED
    BY <2>1, <2>2, LinesAreText
<1>2. Pair(line.name, Malformed) \in TextLines
  <2>1. line.name \in Texts
    BY DEF TextLines
  <2>2. Malformed \in TextValues /\ \A key \in Texts, value \in TextValues : Pair(key, value) \in TextLines
    BY LinesAreText
  <2> QED
    BY <2>1, <2>2
<1>3. JoinedWithHeader(line) \in {Header("foreign"), Pair(line.name, Malformed), line}
  BY Zenon DEF JoinedWithHeader
<1> QED
  BY <1>1, <1>2, <1>3 DEF PartsOfLine

LEMMA JoinedIniIsText ==
  ASSUME NEW line \in IniTextLines
  PROVE  JoinedWithSection(line) \in IniTextLines /\ PartsOfIniLine(line) \subseteq IniTextLines
<1>1. Glued \in Texts /\ Cut \in Texts /\ line.name \in Texts
  BY SomeTexts DEF IniTextLines
<1>2. /\ Section(Glued) \in IniTextLines /\ IniPair(line.name, Glued) \in IniTextLines
      /\ IniPair(line.name, Cut) \in IniTextLines /\ IniJunk \in IniTextLines
  BY <1>1, IniLinesAreText
<1>3. JoinedWithSection(line) \in {Section(Glued), IniPair(line.name, Glued), line}
  BY Zenon DEF JoinedWithSection
<1>4. PartsOfIniLine(line) \subseteq {IniPair(line.name, Cut), IniJunk}
  BY DEF PartsOfIniLine
<1> QED
  BY <1>2, <1>3, <1>4

LEMMA FixtureLinesAreText ==
  ASSUME NEW fixture \in Fixtures
  PROVE  FixtureLines(fixture) \in Seq(IniTextLines) /\ FixtureLines(fixture) # <<>>
<1> DEFINE first == FirstLines(fixture)
           dir == OptionalLine(fixture, "extra_link_dir")
           target == OptionalLine(fixture, "extra_link_target")
           end == <<IniComment>>
<1>1. first \in Seq(IniTextLines) /\ Len(first) = 5
  BY FirstLinesAre
<1>2. ASSUME NEW key \in IniKeys PROVE OptionalLine(fixture, key) \in Seq(IniTextLines)
  <2>1. key \in Texts /\ fixture.keys[key] \in Texts
    BY SomeTexts DEF Fixtures
  <2>2. IniPair(key, fixture.keys[key]) \in IniTextLines
    BY <2>1, IniLinesAreText
  <2>3. <<IniPair(key, fixture.keys[key])>> \in Seq(IniTextLines) /\ <<>> \in Seq(IniTextLines)
    BY <2>2
  <2> QED
    BY <2>3, Zenon DEF OptionalLine
<1>3. dir \in Seq(IniTextLines) /\ target \in Seq(IniTextLines)
  BY <1>2 DEF IniKeys, OptionalKeys
<1>4. end \in Seq(IniTextLines)
  BY IniLinesAreText
<1>5. FixtureLines(fixture) = first \o dir \o target \o end
  BY DEF FixtureLines, FirstLines
<1> HIDE DEF first, dir, target, end
<1>6. first \o dir \in Seq(IniTextLines) /\ Len(first \o dir) = 5 + Len(dir) /\ Len(dir) \in Nat
  <2>1. first \in Seq(IniTextLines)
    BY <1>1
  <2>2. Len(first \o dir) = Len(first) + Len(dir) /\ Len(dir) \in Nat
    BY <1>3, <2>1
  <2>3. first \o dir \in Seq(IniTextLines)
    BY <1>3, <2>1
  <2> QED
    BY <1>1, <2>2, <2>3
<1> DEFINE two == first \o dir
<1> HIDE DEF two
<1>7. two \o target \in Seq(IniTextLines) /\ Len(two \o target) = Len(two) + Len(target) /\ Len(target) \in Nat
  BY <1>3, <1>6 DEF two
<1> DEFINE three == two \o target
<1> HIDE DEF three
<1>8. three \o end \in Seq(IniTextLines)
  BY <1>4, <1>7 DEF three
<1>9. Len(three \o end) = Len(three) + Len(end) /\ Len(end) \in Nat
  BY <1>4, <1>7 DEF three
<1>10. Len(three \o end) # 0
  BY <1>6, <1>7, <1>9 DEF two, three
<1>11. FixtureLines(fixture) = three \o end
  BY <1>5 DEF two, three
<1> QED
  BY <1>8, <1>10, <1>11

\* The test of a new-test, and the fixture it asks for.
TestTyped(entry) ==
  \E id \in Texts, fixture \in Texts, kind \in Kinds : entry = NewEntry(id, fixture, kind)

LEMMA EntryLinesAreText ==
  ASSUME NEW entry, TestTyped(entry)
  PROVE  EntryLines(entry) \in Seq(TextLines) /\ EntryLines(entry) # <<>>
<1>1. PICK id \in Texts, fixture \in Texts, kind \in Kinds : entry = NewEntry(id, fixture, kind)
  BY DEF TestTyped
<1>2. kind \in Texts
  BY SomeTexts
<1> DEFINE block == EntryLines(NewEntry(id, fixture, kind))
<1>3. block \in Seq(TextLines) /\ Len(block) = 5
  BY <1>2, NewEntryLines
<1>4. EntryLines(entry) = block
  BY <1>1
<1> HIDE DEF block
<1>5. block # <<>>
  BY <1>3, EmptySeq
<1>6. EntryLines(entry) \in Seq(TextLines)
  BY <1>3, <1>4, SMT
<1>7. EntryLines(entry) # <<>>
  BY <1>4, <1>5, SMT
<1> QED
  BY <1>6, <1>7

-----------------------------------------------------------------------------
(* Steps that leave the two files alone.                                   *)

SameTexts == \A d \in Dirs : suites'[d].toml = suites[d].toml /\ suites'[d].ini = suites[d].ini

LEMMA StillSame == ASSUME UNCHANGED suites PROVE SameTexts
BY DEF SameTexts

LEMMA PutSame ==
  ASSUME PInv, job.at # "idle", NEW field \in FileNames \ {"toml", "ini"}, NEW value,
         Put(field, value)
  PROVE  SameTexts
<1>1. job.path.dir \in Dirs
  BY DEF PInv, PathsOK, Paths
<1>2. /\ \A d \in Dirs \ {job.path.dir} : suites'[d] = suites[d]
      /\ \A f \in FileNames \ {field} : suites'[job.path.dir][f] = Suite[f]
  BY <1>1, PutField DEF PInv
<1>3. "toml" \in FileNames \ {field} /\ "ini" \in FileNames \ {field}
  BY DEF FileNames
<1>4. suites'[job.path.dir].toml = Suite.toml /\ suites'[job.path.dir].ini = Suite.ini
  BY <1>2, <1>3
<1> QED
  BY <1>1, <1>2, <1>4 DEF SameTexts, Suite

\* The steps of run, validate and adoption, and of new-test the stub.
LEMMA OtherFilesSame ==
  ASSUME PInv,
         \/ ReadSuite \/ WriteHeader \/ WriteMain \/ WriteCMake \/ AdoptFound \/ AdoptNew
         \/ InitDone \/ ClearSuiteIfCurrent \/ WriteStub \/ BuildRun \/ Locate \/ Launch
         \/ ClearScratch \/ BuildScratch \/ DropBuild \/ Promote
  PROVE  SameTexts
<1>0. {"header", "main", "cmake", "stubs", "build", "scratch"} \subseteq FileNames \ {"toml", "ini"}
  BY DEF FileNames
<1>1. CASE ReadSuite \/ AdoptFound \/ AdoptNew \/ InitDone \/ ClearSuiteIfCurrent \/ Locate \/ Launch
  <2>1. UNCHANGED suites
    BY <1>1 DEF ReadSuite, AdoptFound, AdoptNew, Adopt, InitDone, ClearSuiteIfCurrent, Locate, Launch
  <2> QED
    BY <2>1, StillSame
<1>2. CASE WriteHeader \/ WriteMain \/ WriteCMake
  <2>1. PICK field \in {"header", "main", "cmake"} : \E data, next : Resolve(field, data, next)
    BY <1>2 DEF WriteHeader, WriteMain, WriteCMake
  <2>2. job.at # "idle" /\ \E value : Put(field, value)
    BY <2>1 DEF Resolve
  <2> QED
    BY <1>0, <2>1, <2>2, PutSame
<1>3. CASE WriteStub \/ ClearScratch \/ DropBuild
  <2>1. job.at # "idle" /\ \E field \in {"stubs", "scratch", "build"} : \E value : Put(field, value)
    BY <1>3 DEF WriteStub, ClearScratch, RemoveTree, DropBuild, At
  <2> QED
    BY <1>0, <2>1, PutSame
<1>4. CASE BuildRun \/ BuildScratch
  <2>1. /\ job.at # "idle"
        /\ UNCHANGED suites \/ \E field \in {"scratch", "build"} : \E value : Put(field, value)
    BY <1>4 DEF BuildRun, BuildScratch, BuildInto
  <2> QED
    BY <1>0, <2>1, PutSame, StillSame
<1>5. CASE Promote
  <2>1. job.path.dir \in Dirs
    BY <1>5 DEF Promote, PInv, PathsOK, Paths
  <2>2. CASE suites' = [suites EXCEPT ![job.path.dir].build = Suite.scratch,
                                      ![job.path.dir].scratch = {}]
    <3>1. \A d \in Dirs \ {job.path.dir} : suites'[d] = suites[d]
      BY <2>1, <2>2 DEF PInv, SuitesOK
    <3>2. suites'[job.path.dir] = [f \in FileNames |->
             CASE f = "build" -> Suite.scratch [] f = "scratch" -> {} [] OTHER -> Suite[f]]
      BY <2>1, <2>2 DEF PInv, SuitesOK, Sited, Suite, FileNames
    <3>3. suites'[job.path.dir]["toml"] = Suite["toml"] /\ suites'[job.path.dir]["ini"] = Suite["ini"]
      BY <3>2 DEF FileNames
    <3> QED
      BY <2>1, <3>1, <3>3 DEF SameTexts, Suite
  <2>3. CASE UNCHANGED suites
    BY <2>3, StillSame
  <2> QED
    BY <1>5, <2>2, <2>3 DEF Promote
<1> QED
  BY <1>1, <1>2, <1>3, <1>4, <1>5

-----------------------------------------------------------------------------
(* The files and the test of a new-test stay texts.                        *)

NewTestStages == {"stub", "entry", "register"}

\* What is known of every suite, and of a new-test in hand.
Typed ==
  /\ \A d \in Dirs : TextsOK(suites[d])
  /\ job.cmd = "new-test" =>
       /\ job.at \in NewTestStages /\ job.fixture \in Fixtures /\ TestTyped(job.entry)
       /\ TextsOK(before)

LEMMA KeepsTest ==
  ASSUME JobOK, NEW next, Goto(next)
  PROVE  job'.isNew = job.isNew /\ job'.fixture = job.fixture /\ job'.entry = job.entry
<1>1. Shaped(job)
  BY DEF JobOK
<1> QED
  BY <1>1 DEF Shaped, Goto

LEMMA EndsTest ==
  ASSUME JobOK, NEW code, Exit(code)
  PROVE  last'.job.entry = job.entry
<1> DEFINE stopped == [job EXCEPT !.at = "idle", !.request = NoJob.request]
<1>0. Shaped(job)
  BY DEF JobOK
<1>1. stopped.entry = job.entry
  BY <1>0 DEF Shaped
<1>2. last' = [job |-> stopped, code |-> code]
  BY DEF Exit
<1> QED
  BY <1>1, <1>2

\* Every step of a command is one of a command, which goes on or ends.
LEMMA StepsMove ==
  ASSUME JobOK, DriverStep
  PROVE  /\ job.at # "idle" /\ job # NoJob
         /\ \/ job'.at # "idle" /\ job'.cmd = job.cmd /\ job'.path = job.path /\ last' = last
            \/ job' = NoJob /\ last'.job.cmd = job.cmd
<1>1. ASSUME job.at # "idle", \E next : next # "idle" /\ Goto(next)
      PROVE  job'.at # "idle" /\ job'.cmd = job.cmd /\ job'.path = job.path /\ last' = last
  BY <1>1, GoesOn
<1>2. ASSUME \E code : Exit(code) PROVE job' = NoJob /\ last'.job.cmd = job.cmd
  BY <1>2, Ends
<1>3. CASE ReadSuite
  <2>2. CASE \E r : job' = [job EXCEPT !.at = "header", !.request = r] /\ UNCHANGED last
    BY <1>3, <2>2, NoJobShape DEF ReadSuite, JobOK, Shaped
  <2>3. CASE Exit(1)
    BY <1>3, <2>3, <1>2, NoJobShape DEF ReadSuite
  <2> QED
    BY <1>3, <2>2, <2>3 DEF ReadSuite
<1>4. CASE WriteHeader \/ WriteMain \/ WriteCMake
  <2>1. /\ job.at # "idle"
        /\ (\E next : next # "idle" /\ Goto(next)) \/ \E code : Exit(code)
    BY <1>4 DEF WriteHeader, WriteMain, WriteCMake, Resolve, ReportOrLose, AfterResolve
  <2> QED
    BY <2>1, <1>1, <1>2, NoJobShape
<1>5. CASE AdoptFound \/ CreateToml \/ CreateIni \/ AdoptNew \/ InitDone
  <2>1. /\ job.at # "idle"
        /\ (\E next : next # "idle" /\ Goto(next)) \/ \E code : Exit(code)
    BY <1>5 DEF AdoptFound, CreateToml, CreateIni, CreateFile, AdoptNew, Adopt, InitDone, At
  <2> QED
    BY <2>1, <1>1, <1>2, NoJobShape
<1>6. CASE RemoveAll \/ ClearSuiteIfCurrent \/ WriteStub
  <2>1. /\ job.at # "idle"
        /\ (\E next : next # "idle" /\ Goto(next)) \/ \E code : Exit(code)
    BY <1>6 DEF RemoveAll, ClearSuiteIfCurrent, WriteStub, ReportOrLose, At
  <2> QED
    BY <2>1, <1>1, <1>2, NoJobShape
<1>7. CASE AppendEntry \/ AppendFixture
  <2>1. Goto("register") \/ Exit(0) \/ Exit(1)
    BY <1>7, Zenon DEF AppendEntry, AppendToToml, AppendFixture, AppendTo
  <2>2. job.at # "idle"
    BY <1>7 DEF AppendEntry, AppendFixture, At
  <2> QED
    BY <2>1, <2>2, <1>1, <1>2, NoJobShape
<1>8. CASE \/ BuildRun \/ Locate \/ Launch \/ ClearScratch \/ BuildScratch \/ DropBuild \/ Promote
  <2>1. /\ job.at # "idle"
        /\ (\E next : next # "idle" /\ Goto(next)) \/ \E code : Exit(code)
    BY <1>8 DEF BuildRun, BuildScratch, BuildInto, Locate, Launch, ClearScratch, DropBuild, Promote
  <2> QED
    BY <2>1, <1>1, <1>2, NoJobShape
<1> QED
  BY <1>3, <1>4, <1>5, <1>6, <1>7, <1>8 DEF DriverStep

\* The steps of new-test.
LEMMA NewTestSteps ==
  ASSUME DriverStep, job.cmd = "new-test", job.at \in NewTestStages
  PROVE  WriteStub \/ AppendEntry \/ AppendFixture
<1>1. job.at \in {"stub", "entry", "register"}
  BY DEF NewTestStages
<1>2. ~ReadSuite /\ ~WriteHeader /\ ~WriteMain /\ ~WriteCMake
  BY <1>1 DEF ReadSuite, WriteHeader, WriteMain, WriteCMake, Resolve
<1>3. /\ ~AdoptFound /\ ~CreateToml /\ ~CreateIni /\ ~AdoptNew /\ ~InitDone
      /\ ~RemoveAll /\ ~ClearSuiteIfCurrent
  BY DEF AdoptFound, CreateToml, CreateIni, CreateFile, AdoptNew, InitDone, RemoveAll,
         ClearSuiteIfCurrent, At
<1>4. /\ ~BuildRun /\ ~Locate /\ ~Launch /\ ~ClearScratch /\ ~BuildScratch /\ ~DropBuild /\ ~Promote
  BY <1>1 DEF BuildRun, BuildScratch, BuildInto, Locate, Launch, ClearScratch, DropBuild, Promote
<1> QED
  BY <1>2, <1>3, <1>4 DEF DriverStep

\* What a registry holds are fixtures.
LEMMA RegistryReads ==
  ASSUME NEW file, file.lines \in Seq(IniTextLines)
  PROVE  /\ ReadRegistryIni(file).fixtures \in Seq(Fixtures)
         /\ ReadRegistryIni(file).ok => file.exists
         /\ file.exists => ReadRegistryIni(file) = FinishSection(IniEnd(file.lines))
         /\ ~file.exists => ReadRegistryIni(file).fixtures = <<>>
<1>1. CASE file.exists
  <2>1. ReadRegistryIni(file) = FinishSection(IniEnd(file.lines))
    BY <1>1 DEF ReadRegistryIni, IniEnd
  <2>2. IniParser(FinishSection(IniEnd(file.lines)))
    BY IniThroughout, FinishIs
  <2> QED
    BY <1>1, <2>1, <2>2 DEF IniParser
<1>2. CASE ~file.exists
  <2>1. ReadRegistryIni(file) = Rejected(StartRegistry)
    BY <1>2 DEF ReadRegistryIni
  <2>2. Rejected(StartRegistry).fixtures = <<>> /\ ~Rejected(StartRegistry).ok
    BY DEF Rejected, StartRegistry, Registry
  <2> QED
    BY <1>2, <2>1, <2>2
<1> QED
  BY <1>1, <1>2

\* A new-test that begins has a fixture: one of the registry, or a valid one of its flags.
NewTestBegun ==
  /\ job = NoJob /\ Loads(marker) /\ job'.path = marker
  /\ job'.cmd = "new-test" /\ job'.at = "stub" /\ TestTyped(job'.entry) /\ job'.fixture \in Fixtures
  /\ job'.isNew => ValidFixture(job'.fixture) /\ job'.fixture.name = job'.entry.fixture
  /\ ~job'.isNew => job'.entry.fixture \in Names(ReadRegistryIni(suites[marker.dir].ini).fixtures)
  /\ before' = suites[marker.dir] /\ ~faulted' /\ last' = NoResult
  /\ UNCHANGED <<marker, suites, blemished>>

LEMMA NewTestBegins ==
  ASSUME PInv, Typed, NEW test \in NewTests, NEW flags \in NewFixtures,
         NewTest(test.id, test.kind, flags)
  PROVE  \/ NewTestBegun
         \/ \E command, code : Refuse(command, code) /\ code # 0
<1> DEFINE registry == ReadRegistryIni(suites[marker.dir].ini)
           fixtures == registry.fixtures
           known == {i \in DOMAIN fixtures : fixtures[i].name = flags.name}
           first == CHOOSE i \in known : \A j \in known : i <= j
           isNew == known = {}
           fixture == IF known = {} THEN flags ELSE fixtures[first]
           entry == NewEntry(test.id, flags.name, test.kind)
           plain == Job("new-test", "stub")
           named == [plain EXCEPT !.entry = entry]
           dated == [named EXCEPT !.isNew = isNew]
           command == [dated EXCEPT !.fixture = fixture]
<1>1. \/ (\E c, code : Refuse(c, code) /\ code # 0)
      \/ Loads(marker) /\ (known = {} => ValidFlags(flags)) /\ Begin(command, marker)
  <2>1. CASE ~Loads(marker) \/ ~registry.ok
    <3>1. Refuse(Job("new-test", "stub"), 1)
      BY <2>1, Zenon DEF NewTest
    <3>2. \E c, code : Refuse(c, code) /\ code # 0
      BY <3>1
    <3> QED
      BY <3>2
  <2>2. CASE Loads(marker) /\ registry.ok /\ known = {} /\ ~ValidFlags(flags)
    <3>1. \E c : Refuse(c, 2)
      BY <2>2, Zenon DEF NewTest
    <3>2. \E c, code : Refuse(c, code) /\ code # 0
      BY <3>1
    <3> QED
      BY <3>2
  <2>3. CASE Loads(marker) /\ registry.ok /\ (known = {} => ValidFlags(flags))
    <3>1. Begin([Job("new-test", "stub") EXCEPT !.entry = entry, !.isNew = isNew,
                                               !.fixture = fixture], marker)
      BY <2>3, Zenon DEF NewTest
    <3> QED
      BY <2>3, <3>1
  <2> QED
    BY <2>1, <2>2, <2>3
<1>2. ASSUME Loads(marker), known = {} => ValidFlags(flags), Begin(command, marker)
      PROVE  NewTestBegun
  <2>1. Shaped(plain) /\ plain.cmd = "new-test" /\ plain.at = "stub"
    BY JobShape
  <2> HIDE DEF plain
  <2>2. Shaped(named) /\ named.cmd = "new-test" /\ named.at = "stub" /\ named.entry = entry
    BY <2>1 DEF Shaped
  <2> HIDE DEF named
  <2>3. /\ Shaped(dated) /\ dated.cmd = "new-test" /\ dated.at = "stub" /\ dated.entry = entry
        /\ dated.isNew = isNew
    <3> HIDE DEF isNew, fixture, entry
    <3> QED
      BY <2>2 DEF Shaped
  <2> HIDE DEF dated
  <2>4. /\ Shaped(command) /\ command.cmd = "new-test" /\ command.at = "stub"
        /\ command.entry = entry /\ command.isNew = isNew /\ command.fixture = fixture
    <3> HIDE DEF isNew, fixture, entry
    <3> QED
      BY <2>3 DEF Shaped
  <2> HIDE DEF command
  <2>5. /\ job = NoJob /\ job' = [command EXCEPT !.path = marker] /\ before' = suites[marker.dir]
        /\ ~faulted' /\ last' = NoResult /\ UNCHANGED <<marker, suites, blemished>>
    BY <1>2, <2>4 DEF Begin
  <2>6. /\ job'.cmd = "new-test" /\ job'.at = "stub" /\ job'.path = marker /\ job'.entry = entry
        /\ job'.isNew = isNew /\ job'.fixture = fixture
    <3> HIDE DEF isNew, fixture, entry
    <3> QED
      BY <2>4, <2>5 DEF Shaped
  <2>7. test.id \in Texts /\ test.kind \in Kinds /\ flags.name \in Texts /\ flags \in Fixtures
    <3>1. STRING \subseteq Texts
      BY SomeTexts
    <3> QED
      BY <3>1, DriverAssumption DEF Fixtures
  <2>8. TestTyped(entry) /\ entry.fixture = flags.name
    BY <2>7, NewEntryIs DEF TestTyped
  <2>9. fixtures \in Seq(Fixtures)
    <3>1. marker.dir \in Dirs
      BY <1>2, LoadedPath DEF Paths
    <3> QED
      BY <3>1, RegistryReads DEF Typed, TextsOK, TextOf
  <2>10. CASE known = {}
    <3>1. fixture = flags /\ isNew
      BY <2>10
    <3> QED
      BY <1>2, <2>5, <2>6, <2>7, <2>8, <2>10, <3>1 DEF NewTestBegun, ValidFlags
  <2>11. CASE known # {}
    <3>1. known \subseteq Nat /\ \A i \in known : i \in DOMAIN fixtures /\ fixtures[i].name = flags.name
      BY <2>9
    <3>2. first \in known
      <4> HIDE DEF known
      <4>1. \E i \in known : \A j \in known : i <= j
        BY <2>11, <3>1, LeastNatural
      <4> QED
        BY <4>1
    <3>3. fixtures[first] \in Fixtures /\ flags.name \in Names(fixtures)
      <4> HIDE DEF known, first, fixtures
      <4> QED
        BY <2>9, <3>1, <3>2 DEF Names
    <3>4. fixture = fixtures[first] /\ ~isNew
      BY <2>11
    <3>5. job'.fixture \in Fixtures /\ job'.entry.fixture \in Names(fixtures) /\ ~job'.isNew
      BY <2>6, <2>8, <3>3, <3>4
    <3> QED
      BY <1>2, <2>5, <2>6, <2>8, <3>5 DEF NewTestBegun
  <2> QED
    BY <2>10, <2>11
<1> QED
  BY <1>1, <1>2

LEMMA AbsentIsText ==
  /\ TextsOK(NoSuite) /\ TextOf(Absent, TextLines) /\ TextOf(Absent, IniTextLines)
  /\ NoSuite.toml = Absent /\ NoSuite.ini = Absent
<1>1. ASSUME NEW S PROVE TextOf(Absent, S)
  BY DEF TextOf, Absent
<1>2. NoSuite.toml = Absent /\ NoSuite.ini = Absent
  BY DEF NoSuite
<1> QED
  BY <1>1, <1>2 DEF TextsOK

LEMMA TInit == DriverInit => Typed
<1> SUFFICES ASSUME DriverInit PROVE Typed
  OBVIOUS
<1>1. job = NoJob /\ \A d \in Dirs : suites[d] = NoSuite
  BY DEF DriverInit
<1> QED
  BY <1>1, NoJobShape, AbsentIsText DEF Typed

\* What a step puts into one of the two files.
LEMMA PutText ==
  ASSUME PInv, job.at # "idle", NEW field \in {"toml", "ini"}, NEW value, Put(field, value)
  PROVE  /\ job.path.dir \in Dirs
         /\ \A d \in Dirs \ {job.path.dir} : suites'[d] = suites[d]
         /\ field = "toml" => suites'[job.path.dir].toml = value /\ suites'[job.path.dir].ini = Suite.ini
         /\ field = "ini" => suites'[job.path.dir].ini = value /\ suites'[job.path.dir].toml = Suite.toml
<1>1. job.path.dir \in Dirs
  BY DEF PInv, PathsOK, Paths
<1>2. field \in FileNames /\ "toml" \in FileNames /\ "ini" \in FileNames
  BY DEF FileNames
<1>3. /\ \A d \in Dirs \ {job.path.dir} : suites'[d] = suites[d]
      /\ \A f \in FileNames \ {field} : suites'[job.path.dir][f] = Suite[f]
      /\ suites'[job.path.dir][field] = value
  BY <1>1, <1>2, PutField DEF PInv
<1> QED
  BY <1>1, <1>2, <1>3

\* The files stay texts.
FilesOK == \A d \in Dirs : TextsOK(suites[d])

LEMMA SameFilesOK == ASSUME FilesOK, SameTexts PROVE FilesOK'
BY DEF FilesOK, SameTexts, TextsOK

LEMMA PutFilesOK ==
  ASSUME PInv, FilesOK, job.at # "idle", NEW field \in {"toml", "ini"}, NEW value,
         Put(field, value), TextOf(value, IF field = "toml" THEN TextLines ELSE IniTextLines)
  PROVE  FilesOK'
<1>1. /\ job.path.dir \in Dirs
      /\ \A d \in Dirs \ {job.path.dir} : suites'[d] = suites[d]
      /\ field = "toml" => suites'[job.path.dir].toml = value /\ suites'[job.path.dir].ini = Suite.ini
      /\ field = "ini" => suites'[job.path.dir].ini = value /\ suites'[job.path.dir].toml = Suite.toml
  BY PutText
<1>2. TextsOK(Suite)
  BY <1>1 DEF FilesOK, Suite
<1>3. TextsOK(suites'[job.path.dir])
  BY <1>1, <1>2 DEF TextsOK
<1> QED
  BY <1>1, <1>3 DEF FilesOK

LEMMA CreateFilesOK ==
  ASSUME PInv, FilesOK, NEW at, at # "idle", NEW field \in {"toml", "ini"}, NEW next,
         CreateFile(at, field, next)
  PROVE  FilesOK'
<1> DEFINE line == IF field = "toml" THEN Comment ELSE IniComment
           S == IF field = "toml" THEN TextLines ELSE IniTextLines
<1>1. job.at # "idle" /\ job.path.dir \in Dirs
  BY DEF CreateFile, At, PInv, PathsOK, Paths
<1>2. \/ UNCHANGED suites
      \/ \E value \in {Suite[field], File(<<line>>), File(<<>>)} : Put(field, value)
  BY Zenon DEF CreateFile
<1>3. TextOf(Suite[field], S)
  BY <1>1 DEF FilesOK, TextsOK, Suite
<1>4. line \in S
  BY LinesAreText, IniLinesAreText
<1> HIDE DEF line, S
<1>5. TextOf(File(<<line>>), S) /\ TextOf(File(<<>>), S)
  BY <1>4 DEF TextOf, File, Saved
<1>6. \/ SameTexts
      \/ \E value : Put(field, value) /\ TextOf(value, S)
  BY <1>2, <1>3, <1>5, StillSame
<1> QED
  BY <1>1, <1>6, SameFilesOK, PutFilesOK DEF S

LEMMA RemoveFilesOK == ASSUME PInv, FilesOK, RemoveAll PROVE FilesOK'
<1>1. job.path.dir \in Dirs
  BY DEF RemoveAll, At, PInv, PathsOK, Paths
<1>2. TextsOK(Suite)
  BY <1>1 DEF FilesOK, Suite
<1>3. ASSUME NEW left \in Leftover(Suite) PROVE TextsOK(left)
  <2>1. left.toml \in {Absent, Suite.toml} /\ left.ini \in {Absent, Suite.ini}
    BY DEF Leftover
  <2> QED
    BY <1>2, <2>1, AbsentIsText DEF TextsOK
<1>4. PICK left : suites' = [suites EXCEPT ![job.path.dir] = left] /\ TextsOK(left)
  BY <1>3, AbsentIsText DEF RemoveAll
<1> QED
  BY <1>1, <1>4 DEF FilesOK, PInv, SuitesOK

\* What an append puts into its file, and how the step goes on.
LEMMA Appends ==
  ASSUME PInv, job.at # "idle", NEW field \in {"toml", "ini"},
         NEW S, S = (IF field = "toml" THEN TextLines ELSE IniTextLines), FilesOK,
         NEW block \in Seq(S), block # <<>>, NEW joined, ~Suite[field].ended => joined \in S,
         NEW parts, \A n \in DOMAIN block : parts[n] \subseteq S,
         NEW next, AppendTo(field, block, joined, parts, next)
  PROVE  FilesOK'
<1>1. job.path.dir \in Dirs
  BY DEF PInv, PathsOK, Paths
<1>2. TextOf(Suite[field], S)
  BY <1>1 DEF FilesOK, TextsOK, Suite
<1>3. \E value : Put(field, value)
          /\ \/ value = AppendBlock(Suite[field], block, joined)
             \/ value \in CutAppends(Suite[field], block, joined, parts)
  BY Zenon DEF AppendTo
<1>4. \E value : Put(field, value) /\ TextOf(value, S)
  <2>1. PICK value : Put(field, value)
                     /\ \/ value = AppendBlock(Suite[field], block, joined)
                        \/ value \in CutAppends(Suite[field], block, joined, parts)
    BY <1>3
  <2> DEFINE file == Suite[field]
  <2>2. TextOf(file, S) /\ (~file.ended => joined \in S)
    BY <1>2
  <2>3. value = AppendBlock(file, block, joined) \/ value \in CutAppends(file, block, joined, parts)
    BY <2>1
  <2> HIDE DEF file
  <2>4. CASE value = AppendBlock(file, block, joined)
    <3>1. TextOf(AppendBlock(file, block, joined), S)
      BY <2>2, AppendIsText
    <3> QED
      BY <2>1, <2>4, <3>1
  <2>5. CASE value \in CutAppends(file, block, joined, parts)
    <3>1. TextOf(value, S)
      BY <2>2, <2>5, CutIsText
    <3> QED
      BY <2>1, <3>1
  <2> QED
    BY <2>3, <2>4, <2>5
<1> QED
  BY <1>4, PutFilesOK

\* The entry of a test, and its fixture, as they are appended.
LEMMA EntryFilesOK ==
  ASSUME PInv, Typed, AppendEntry
  PROVE  FilesOK'
<1> DEFINE block == EntryLines(job.entry)
           joined == JoinedWithHeader(Last(Suite.toml.lines))
           parts == [n \in DOMAIN block |-> PartsOfLine(block[n])]
<1>1. /\ job.at # "idle" /\ job.cmd = "new-test" /\ \E next : AppendTo("toml", block, joined, parts, next)
  BY Zenon DEF AppendEntry, AppendToToml, At
<1>2. block \in Seq(TextLines) /\ block # <<>>
  BY <1>1, EntryLinesAreText DEF Typed
<1>3. job.path.dir \in Dirs
  BY <1>1 DEF PInv, PathsOK, Paths
<1>4. TextOf(Suite.toml, TextLines)
  BY <1>3 DEF Typed, TextsOK, Suite
<1>5. ~Suite.toml.ended => joined \in TextLines
  BY <1>4, FrontAndLast, JoinedIsText DEF TextOf
<1>6. \A n \in DOMAIN block : parts[n] \subseteq TextLines
  <2> HIDE DEF block
  <2>1. \A n \in DOMAIN block : block[n] \in TextLines
    BY <1>2
  <2>2. \A n \in DOMAIN block : parts[n] = PartsOfLine(block[n])
    OBVIOUS
  <2> QED
    BY <2>1, <2>2, JoinedIsText
<1> HIDE DEF block, joined, parts
<1>7. FilesOK
  BY DEF FilesOK, Typed
<1>8. ASSUME NEW next, AppendTo("toml", block, joined, parts, next) PROVE FilesOK'
  BY <1>1, <1>2, <1>5, <1>6, <1>7, <1>8, Appends
<1> QED
  BY <1>1, <1>8

LEMMA FixtureFilesOK ==
  ASSUME PInv, Typed, AppendFixture
  PROVE  FilesOK'
<1> DEFINE block == FixtureLines(job.fixture)
           joined == JoinedWithSection(Last(Suite.ini.lines))
           parts == [n \in DOMAIN block |-> PartsOfIniLine(block[n])]
<1>1. /\ job.at # "idle" /\ job.cmd = "new-test" /\ \E next : AppendTo("ini", block, joined, parts, next)
  BY Zenon DEF AppendFixture, At
<1>2. block \in Seq(IniTextLines) /\ block # <<>>
  BY <1>1, FixtureLinesAreText DEF Typed
<1>3. job.path.dir \in Dirs
  BY <1>1 DEF PInv, PathsOK, Paths
<1>4. TextOf(Suite.ini, IniTextLines)
  BY <1>3 DEF Typed, TextsOK, Suite
<1>5. ~Suite.ini.ended => joined \in IniTextLines
  BY <1>4, FrontAndLast, JoinedIniIsText DEF TextOf
<1>6. \A n \in DOMAIN block : parts[n] \subseteq IniTextLines
  <2> HIDE DEF block
  <2>1. \A n \in DOMAIN block : block[n] \in IniTextLines
    BY <1>2
  <2>2. \A n \in DOMAIN block : parts[n] = PartsOfIniLine(block[n])
    OBVIOUS
  <2> QED
    BY <2>1, <2>2, JoinedIniIsText
<1> HIDE DEF block, joined, parts
<1>7. FilesOK
  BY DEF FilesOK, Typed
<1>8. ASSUME NEW next, AppendTo("ini", block, joined, parts, next) PROVE FilesOK'
  BY <1>1, <1>2, <1>5, <1>6, <1>7, <1>8, Appends
<1> QED
  BY <1>1, <1>8

-----------------------------------------------------------------------------
(* What the user edits.                                                    *)

LEMMA EditText ==
  ASSUME PInv, NEW field \in {"toml", "ini"}, NEW file, marker.dir \in Dirs, Edit(field, file)
  PROVE  /\ \A d \in Dirs \ {marker.dir} : suites'[d] = suites[d]
         /\ field = "toml" => /\ suites'[marker.dir].toml = file
                              /\ suites'[marker.dir].ini = suites[marker.dir].ini
         /\ field = "ini" => /\ suites'[marker.dir].ini = file
                             /\ suites'[marker.dir].toml = suites[marker.dir].toml
         /\ job' = job /\ last' = NoResult /\ marker' = marker /\ blemished' = blemished
         /\ before' = before
<1> DEFINE s == suites'[marker.dir]
<1>1. field \in FileNames /\ "toml" \in FileNames /\ "ini" \in FileNames
  BY DEF FileNames
<1>2. suites' = [suites EXCEPT ![marker.dir][field] = file]
  BY DEF Edit
<1>3. /\ \A d \in Dirs \ {marker.dir} : suites'[d] = suites[d]
      /\ s = [f \in FileNames |-> IF f = field THEN file ELSE suites[marker.dir][f]]
  BY <1>1, <1>2 DEF PInv, SuitesOK, Sited
<1>4. s["toml"] = IF field = "toml" THEN file ELSE suites[marker.dir]["toml"]
  BY <1>1, <1>3
<1>5. s["ini"] = IF field = "ini" THEN file ELSE suites[marker.dir]["ini"]
  BY <1>1, <1>3
<1>6. job' = job /\ last' = NoResult /\ marker' = marker /\ blemished' = blemished /\ before' = before
  BY DEF Edit
<1> QED
  BY <1>3, <1>4, <1>5, <1>6

\* Lines that are added to suite.toml.
LEMMA EditTomlIs ==
  ASSUME PInv, FilesOK, EditToml
  PROVE  \E lines \in TomlEdits, ended \in {TRUE, ~Unterminated} :
           LET old == suites[marker.dir].toml
               new == Saved(old.lines \o lines, ended)
           IN  /\ marker.dir \in Dirs /\ old.exists /\ lines \in Seq(TextLines)
               /\ TextOf(new, TextLines) /\ Edit("toml", new)
<1>1. marker.dir \in Dirs /\ suites[marker.dir].toml.exists
  BY LoadedPath DEF EditToml, MayEdit, Loads, Paths
<1>2. PICK lines \in TomlEdits, ended \in {TRUE, ~Unterminated} :
        Edit("toml", Saved(suites[marker.dir].toml.lines \o lines, ended))
  BY Zenon DEF EditToml
<1>3. lines \in Seq(TextLines) /\ lines # <<>>
  BY EditsAreText, DriverAssumption
<1> DEFINE old == suites[marker.dir].toml.lines
           new == old \o lines
<1>4. old \in Seq(TextLines)
  BY <1>1 DEF FilesOK, TextsOK, TextOf
<1>5. new \in Seq(TextLines) /\ new # <<>>
  <2> HIDE DEF old
  <2>1. new \in Seq(TextLines)
    BY <1>3, <1>4
  <2>2. Len(new) = Len(old) + Len(lines) /\ Len(old) \in Nat /\ Len(lines) \in Nat
    BY <1>3, <1>4
  <2>3. Len(lines) # 0
    BY <1>3
  <2>4. Len(<<>>) = 0
    OBVIOUS
  <2> HIDE DEF new
  <2> QED
    BY <2>1, <2>2, <2>3, <2>4
<1>6. TextOf(Saved(new, ended), TextLines)
  <2> HIDE DEF new
  <2> QED
    BY <1>5 DEF TextOf, Saved
<1>7. WITNESS lines \in TomlEdits, ended \in {TRUE, ~Unterminated}
<1> QED
  BY <1>1, <1>2, <1>3, <1>6

\* Blank lines at the end say nothing.
LEMMA BlankEnd ==
  ASSUME NEW lines \in Seq(IniTextLines), NEW kept \in 0 .. Len(lines),
         \A i \in kept + 1 .. Len(lines) : lines[i].kind = "blank"
  PROVE  /\ SubSeq(lines, 1, kept) \in Seq(IniTextLines)
         /\ IniEnd(SubSeq(lines, 1, kept)) = IniEnd(lines)
<1> DEFINE front == SubSeq(lines, 1, kept)
           rest == SubSeq(lines, kept + 1, Len(lines))
<1>1. front \in Seq(IniTextLines) /\ Len(front) = kept
  <2>1. \A i \in 1 .. kept : lines[i] \in IniTextLines
    OBVIOUS
  <2>2. front = [i \in 1 .. kept |-> lines[i]]
    OBVIOUS
  <2> QED
    BY <2>1, <2>2
<1>2. rest \in Seq(IniTextLines)
  <2>1. \A i \in 1 .. Len(lines) - kept : lines[kept + i] \in IniTextLines
    OBVIOUS
  <2>2. rest = [i \in 1 .. Len(lines) - kept |-> lines[kept + i]]
    OBVIOUS
  <2> QED
    BY <2>1, <2>2
<1>3. front \o rest = lines
  <2>1. front \o rest = SubSeq(lines, 1, Len(lines))
    <3>1. /\ 1 \in 1 .. Len(lines) + 1 /\ kept \in 1 - 1 .. Len(lines)
          /\ Len(lines) \in kept .. Len(lines)
      OBVIOUS
    <3>2. SubSeq(lines, 1, kept) \o SubSeq(lines, kept + 1, Len(lines)) = SubSeq(lines, 1, Len(lines))
      BY <3>1, ConcatAdjacentSubSeq
    <3> QED
      BY <3>2
  <2>2. SubSeq(lines, 1, Len(lines)) = lines
    BY SubSeqFull
  <2> QED
    BY <2>1, <2>2
<1> HIDE DEF front, rest
<1>4. IniAfter(lines)[kept] = IniEnd(front)
  BY <1>1, <1>2, <1>3, IniGoesOn
<1> DEFINE Good == {n \in kept .. Len(lines) : IniAfter(lines)[n] = IniEnd(front)}
<1>5. ASSUME NEW n \in kept + 1 .. Len(lines), n - 1 \in Good PROVE n \in Good
  <2>1. IniAfter(lines)[n] = HandleIniLine(IniAfter(lines)[n - 1], lines[n])
    BY IniSteps
  <2>2. HandleIniLine(IniAfter(lines)[n - 1], lines[n]) = IniAfter(lines)[n - 1]
    BY DEF HandleIniLine
  <2> QED
    BY <1>5, <2>1, <2>2
<1>6. kept \in Nat /\ Len(lines) \in Nat /\ kept \in Good
  BY <1>4
<1> HIDE DEF Good
<1>7. \A n \in kept .. Len(lines) : n \in Good
  BY <1>5, <1>6, PlaceByPlace
<1>8. IniAfter(lines)[Len(lines)] = IniEnd(front)
  BY <1>6, <1>7 DEF Good
<1> QED
  BY <1>1, <1>8 DEF IniEnd, front

\* registry.ini without the blank lines at its end reads as before.
LEMMA EditIniIs ==
  ASSUME PInv, FilesOK, EditIni
  PROVE  \E new : /\ marker.dir \in Dirs /\ Edit("ini", new) /\ TextOf(new, IniTextLines) /\ new.exists
                  /\ IniEnd(new.lines) = IniEnd(suites[marker.dir].ini.lines)
<1> DEFINE lines == suites[marker.dir].ini.lines
           blank(n) == \A i \in n + 1 .. Len(lines) : lines[i].kind = "blank"
           Blanks == {n \in 0 .. Len(lines) : blank(n)}
           kept == CHOOSE n \in 0 .. Len(lines) : blank(n) /\ \A m \in 0 .. n - 1 : ~blank(m)
           new == Saved(SubSeq(lines, 1, kept), kept = 0)
<1>1. marker.dir \in Dirs
  BY LoadedPath DEF EditIni, MayEdit, Paths
<1>2. lines \in Seq(IniTextLines)
  BY <1>1 DEF FilesOK, TextsOK, TextOf
<1>3. Edit("ini", new)
  BY Zenon DEF EditIni
<1> HIDE DEF lines
<1>4. kept \in 0 .. Len(lines) /\ blank(kept)
  <2>1. Len(lines) \in Blanks /\ Blanks \subseteq Nat
    BY <1>2
  <2>2. PICK n \in Blanks : \A m \in Blanks : n <= m
    BY <2>1, LeastNatural
  <2>3. n \in 0 .. Len(lines) /\ blank(n) /\ \A m \in 0 .. n - 1 : ~blank(m)
    <3>1. n \in 0 .. Len(lines) /\ blank(n) /\ Len(lines) \in Nat
      BY <1>2, <2>2
    <3>2. ASSUME NEW m \in 0 .. n - 1, blank(m) PROVE FALSE
      <4>1. m \in 0 .. Len(lines) /\ ~(n <= m)
        BY <3>1
      <4>2. m \in Blanks
        BY <3>2, <4>1
      <4> QED
        BY <2>2, <4>1, <4>2
    <3> QED
      BY <3>1, <3>2
  <2> HIDE DEF blank
  <2> QED
    BY <2>3
<1> HIDE DEF kept
<1>5. SubSeq(lines, 1, kept) \in Seq(IniTextLines) /\ IniEnd(SubSeq(lines, 1, kept)) = IniEnd(lines)
  BY <1>2, <1>4, BlankEnd
<1>6. kept # 0 => SubSeq(lines, 1, kept) # <<>>
  BY <1>2, <1>4
<1>7. new.exists /\ new.lines = SubSeq(lines, 1, kept) /\ (~new.ended => kept # 0)
  BY DEF Saved
<1>8. TextOf(new, IniTextLines)
  <2> HIDE DEF new
  <2> QED
    BY <1>5, <1>6, <1>7 DEF TextOf
<1> HIDE DEF new
<1> QED
  BY <1>1, <1>3, <1>5, <1>7, <1>8 DEF lines

\* A command that begins otherwise than with new-test.
OtherBegun ==
  /\ job = NoJob /\ job'.cmd # "new-test" /\ job'.at # "idle" /\ ~faulted' /\ last' = NoResult
  /\ job'.cmd = "run" => job'.at = "read"
  /\ UNCHANGED <<marker, suites, blemished>>

\* A command that gives up at once.
Refused ==
  /\ job = NoJob /\ job' = NoJob /\ last'.code # 0 /\ ~faulted'
  /\ UNCHANGED <<marker, suites, blemished>>

LEMMA RefuseIs ==
  ASSUME NEW command, NEW code, code # 0, Refuse(command, code)
  PROVE  Refused
BY Zenon DEF Refuse, Refused

LEMMA BeginIs ==
  ASSUME NEW command, NEW path, Shaped(command), command.cmd # "new-test", command.at # "idle",
         command.cmd = "run" => command.at = "read", Begin(command, path)
  PROVE  OtherBegun
<1>1. /\ job = NoJob /\ job' = [command EXCEPT !.path = path] /\ ~faulted' /\ last' = NoResult
      /\ UNCHANGED <<marker, suites, blemished>>
  BY DEF Begin
<1>2. job'.cmd = command.cmd /\ job'.at = command.at
  BY <1>1 DEF Shaped
<1> QED
  BY <1>1, <1>2 DEF OtherBegun

LEMMA GiveIs ==
  ASSUME PInv, Typed, Give
  PROVE  NewTestBegun \/ Refused \/ OtherBegun
<1>1. ASSUME NEW path, InitSuite(path) \/ FindSuite(path) \/ RemoveSuite(path)
      PROVE  Refused \/ OtherBegun
  BY <1>1, JobShape, BeginIs, RefuseIs DEF InitSuite, FindSuite, RemoveSuite
<1>2. ASSUME NEW test \in NewTests, NEW flags \in NewFixtures, NewTest(test.id, test.kind, flags)
      PROVE  NewTestBegun \/ Refused
  BY <1>2, NewTestBegins, RefuseIs
<1>3. ASSUME NEW cmd \in {"run", "validate"}, NEW config, StartRun(cmd, config)
      PROVE  Refused \/ OtherBegun
  <2> DEFINE plain == Job(cmd, "read")
             command == [plain EXCEPT !.config = config]
  <2>1. Shaped(plain) /\ plain.cmd = cmd /\ plain.at = "read"
    BY JobShape
  <2> HIDE DEF plain
  <2>2. Shaped(command) /\ command.cmd = cmd /\ command.at = "read"
    BY <2>1 DEF Shaped
  <2> HIDE DEF command
  <2>3. Begin(command, marker) \/ Refuse(command, 1)
    BY <1>3 DEF StartRun, command, plain
  <2> QED
    BY <2>2, <2>3, BeginIs, RefuseIs
<1> QED
  BY <1>1, <1>2, <1>3 DEF Give

LEMMA EditFilesOK == ASSUME PInv, FilesOK, EditToml \/ EditIni PROVE FilesOK'
<1> DEFINE Saves(field, file) ==
             /\ marker.dir \in Dirs /\ Edit(field, file)
             /\ TextOf(file, IF field = "toml" THEN TextLines ELSE IniTextLines)
<1>1. \E field \in {"toml", "ini"} : \E file : Saves(field, file)
  <2>1. CASE EditToml
    BY <2>1, EditTomlIs
  <2>2. CASE EditIni
    BY <2>2, EditIniIs
  <2> QED
    BY <2>1, <2>2
<1>2. PICK field \in {"toml", "ini"} : \E file : Saves(field, file)
  BY <1>1
<1>3. PICK file : Saves(field, file)
  BY <1>2
<1>4. /\ \A d \in Dirs \ {marker.dir} : suites'[d] = suites[d]
      /\ field = "toml" => /\ suites'[marker.dir].toml = file
                           /\ suites'[marker.dir].ini = suites[marker.dir].ini
      /\ field = "ini" => /\ suites'[marker.dir].ini = file
                          /\ suites'[marker.dir].toml = suites[marker.dir].toml
  BY <1>3, EditText
<1>5. TextsOK(suites'[marker.dir])
  BY <1>3, <1>4 DEF FilesOK, TextsOK
<1> QED
  BY <1>3, <1>4, <1>5 DEF FilesOK

LEMMA StepFilesOK == ASSUME PInv, Typed, DriverStep PROVE FilesOK'
<1>0. FilesOK
  BY DEF FilesOK, Typed
<1>1. CASE CreateToml \/ CreateIni
  BY <1>0, <1>1, CreateFilesOK DEF CreateToml, CreateIni
<1>2. CASE RemoveAll
  BY <1>0, <1>2, RemoveFilesOK
<1>3. CASE AppendEntry \/ AppendFixture
  BY <1>3, EntryFilesOK, FixtureFilesOK
<1> QED
  BY <1>0, <1>1, <1>2, <1>3, OtherFilesSame, SameFilesOK DEF DriverStep

LEMMA StepTyped == ASSUME JobOK, PInv, Typed, DriverStep PROVE Typed'
<1>1. FilesOK'
  BY StepFilesOK
<1>2. CASE job'.cmd # "new-test"
  BY <1>1, <1>2 DEF FilesOK, Typed
<1>3. CASE job'.cmd = "new-test"
  <2>1. job.cmd = "new-test"
    BY <1>3, StepsMove, NoJobShape
  <2>2. WriteStub \/ AppendEntry \/ AppendFixture
    BY <2>1, NewTestSteps DEF Typed
  <2>3. before' = before
    BY <2>2, Zenon DEF WriteStub, AppendEntry, AppendToToml, AppendFixture, AppendTo, Quiet
  <2>4. (\E code : Exit(code)) \/ Goto("entry") \/ Goto("register")
    <3>1. Exit(0) \/ Exit(1) \/ Goto("entry") \/ Goto("register")
      BY <2>2, Zenon DEF WriteStub, ReportOrLose, AppendEntry, AppendToToml, AppendFixture, AppendTo
    <3> QED
      BY <3>1
  <2>5. ~\E code : Exit(code)
    BY <1>3, Ends, NoJobShape
  <2>6. job'.at \in NewTestStages /\ job'.fixture = job.fixture /\ job'.entry = job.entry
    BY <2>4, <2>5, GoesOn, KeepsTest DEF NewTestStages
  <2> QED
    BY <1>1, <2>1, <2>3, <2>6 DEF FilesOK, Typed
<1> QED
  BY <1>2, <1>3

LEMMA TStep == JobOK /\ PInv /\ Typed /\ [DriverNext]_dvars => Typed'
<1> SUFFICES ASSUME JobOK, PInv, Typed, [DriverNext]_dvars PROVE Typed'
  OBVIOUS
<1>0. FilesOK
  BY DEF FilesOK, Typed
<1>1. CASE Give
  <2>1. FilesOK'
    BY <1>0, <1>1, GiveIs, StillSame, SameFilesOK DEF NewTestBegun, Refused, OtherBegun
  <2>2. CASE NewTestBegun
    <3>1. marker.dir \in Dirs
      BY <2>2, LoadedPath DEF NewTestBegun, Paths
    <3> QED
      BY <1>0, <2>1, <2>2, <3>1 DEF NewTestBegun, Typed, FilesOK, NewTestStages
  <2>3. CASE Refused \/ OtherBegun
    BY <2>1, <2>3, NoJobShape DEF Refused, OtherBegun, Typed, FilesOK
  <2> QED
    BY <1>1, <2>2, <2>3, GiveIs
<1>2. CASE DriverStep
  BY <1>2, StepTyped
<1>3. CASE Kill
  <2>1. job' = NoJob /\ UNCHANGED suites
    BY <1>3, Ends DEF Kill
  <2>2. FilesOK'
    BY <1>0, <2>1, StillSame, SameFilesOK
  <2> QED
    BY <2>1, <2>2, NoJobShape DEF FilesOK, Typed
<1>4. CASE EditToml \/ EditIni
  <2>1. job' = NoJob
    BY <1>4, Zenon DEF EditToml, EditIni, Edit, MayEdit
  <2> QED
    BY <1>0, <1>4, <2>1, EditFilesOK, NoJobShape DEF FilesOK, Typed
<1>5. CASE UNCHANGED dvars
  <2>1. UNCHANGED <<suites, job, before>>
    BY <1>5 DEF dvars, history
  <2> QED
    BY <2>1 DEF Typed
<1> QED
  BY <1>1, <1>2, <1>3, <1>4, <1>5 DEF DriverNext

-----------------------------------------------------------------------------
(* The settings of the program that run starts.                            *)

\* A run that has read its suite found it sound.
RunsSound == job.cmd = "run" /\ job.at # "read" => ReadSuiteToml(Suite.toml).ok

LEMMA RunSteps ==
  ASSUME DriverStep, job.cmd = "run"
  PROVE  /\ ~CreateToml /\ ~CreateIni /\ ~RemoveAll /\ ~AppendEntry /\ ~AppendFixture
         /\ job.at = "read" => ReadSuite
<1>1. /\ ~CreateToml /\ ~CreateIni /\ ~RemoveAll /\ ~AppendEntry /\ ~AppendFixture /\ ~WriteStub
      /\ ~AdoptFound /\ ~AdoptNew /\ ~InitDone /\ ~ClearSuiteIfCurrent
  BY DEF CreateToml, CreateIni, CreateFile, RemoveAll, AppendEntry, AppendFixture, WriteStub,
         AdoptFound, AdoptNew, InitDone, ClearSuiteIfCurrent, At
<1>2. ASSUME job.at = "read"
      PROVE  /\ ~WriteHeader /\ ~WriteMain /\ ~WriteCMake /\ ~BuildRun /\ ~Locate /\ ~Launch
             /\ ~ClearScratch /\ ~BuildScratch /\ ~DropBuild /\ ~Promote
  BY <1>2 DEF WriteHeader, WriteMain, WriteCMake, Resolve, BuildRun, BuildScratch, BuildInto,
              Locate, Launch, ClearScratch, DropBuild, Promote
<1> QED
  BY <1>1, <1>2 DEF DriverStep

LEMMA SoundStep == JobOK /\ PInv /\ Typed /\ RunsSound /\ [DriverNext]_dvars => RunsSound'
<1> SUFFICES ASSUME JobOK, PInv, Typed, RunsSound, [DriverNext]_dvars PROVE RunsSound'
  OBVIOUS
<1>1. CASE Give
  BY <1>1, GiveIs, NoJobShape DEF NewTestBegun, Refused, OtherBegun, RunsSound
<1>2. CASE DriverStep
  <2> SUFFICES ASSUME job'.cmd = "run", job'.at # "read"
               PROVE  Suite'.toml = Suite.toml /\ ReadSuiteToml(Suite.toml).ok
    BY DEF RunsSound
  <2>1. job.cmd = "run" /\ job'.path = job.path /\ job.at # "idle"
    BY <1>2, StepsMove, NoJobShape
  <2>2. SameTexts
    BY <1>2, <2>1, RunSteps, OtherFilesSame DEF DriverStep
  <2>3. Suite'.toml = Suite.toml
    <3>1. job.path.dir \in Dirs
      BY <2>1 DEF PInv, PathsOK, Paths
    <3> QED
      BY <2>1, <2>2, <3>1 DEF SameTexts, Suite
  <2>4. ReadSuiteToml(Suite.toml).ok
    <3>1. CASE job.at = "read"
      <4>1. ReadSuite
        BY <1>2, <2>1, <3>1, RunSteps
      <4>2. ~Exit(1)
        BY Ends, NoJobShape
      <4> QED
        BY <4>1, <4>2, Zenon DEF ReadSuite
    <3>2. CASE job.at # "read"
      BY <2>1, <3>2 DEF RunsSound
    <3> QED
      BY <3>1, <3>2
  <2> QED
    BY <2>3, <2>4
<1>3. CASE Kill
  BY <1>3, Ends, NoJobShape DEF Kill, RunsSound
<1>4. CASE EditToml \/ EditIni
  <2>1. job' = NoJob
    BY <1>4, Zenon DEF EditToml, EditIni, Edit, MayEdit
  <2> QED
    BY <2>1, NoJobShape DEF RunsSound
<1>5. CASE UNCHANGED dvars
  <2>1. UNCHANGED <<suites, job>>
    BY <1>5 DEF dvars
  <2> QED
    BY <2>1 DEF RunsSound, Suite
<1> QED
  BY <1>1, <1>2, <1>3, <1>4, <1>5 DEF DriverNext

\* A double is printed within half of the last digit.
LEMMA PrintedNearby ==
  ASSUME NEW n \in Int, NEW key \in Doubles
  PROVE  2 * (Printed(key, n) - n) \in -Micro .. Micro
<1>1. Micro \in Nat /\ Micro > 0
  BY CodegenAssumption
<1> DEFINE h == Micro \div 2
           q == (n + h) \div Micro
<1>2. h \in Int /\ 2 * h <= Micro /\ Micro <= 2 * h + 1
  BY <1>1
<1> HIDE DEF h
<1>3. q \in Int /\ q * Micro <= n + h /\ n + h < q * Micro + Micro
  BY <1>1, <1>2
<1> HIDE DEF q
<1> DEFINE p == q * Micro
<1>4. p \in Int
  BY <1>1, <1>3
<1>5. Printed(key, n) = p
  BY DEF Printed, h, q
<1> HIDE DEF p
<1>6. p <= n + h /\ n + h < p + Micro
  BY <1>3 DEF p
<1>7. 2 * (p - n) <= Micro /\ -Micro <= 2 * (p - n)
  BY <1>1, <1>2, <1>4, <1>6
<1> QED
  BY <1>1, <1>4, <1>5, <1>7

\* What is generated of one table.
LEMMA TableReaches ==
  ASSUME NEW table \in TomlTables, NEW key \in Counts \cup Doubles,
         NEW j \in DOMAIN table, table[j].key = key
  PROVE  Within(key, table[j].value, AppendConfigAssignments(EntryOf(table)).settings[key])
<1> DEFINE value == table[j].value
<1>1. value.num \in Int
  <2>1. table \in Seq(TomlPairs)
    BY DEF TomlTables
  <2>2. table[j] \in TomlPairs
    BY <2>1
  <2> QED
    BY <2>2 DEF TomlPairs, TextValues
<1>2. \A i \in DOMAIN table : table[i].key = key => i = j
  BY DEF TomlTables, OneEach
<1>3. AppendConfigAssignments(EntryOf(table)).settings[key] = Printed(key, SettingOf(table, key))
  BY DEF AppendConfigAssignments, EntryOf
<1>4. key \in Counts => key \notin Doubles
  BY DEF Counts, Doubles
<1>5. CASE key \in Counts
  <2>1. Printed(key, SettingOf(table, key)) = SettingOf(table, key)
    BY <1>4, <1>5 DEF Printed
  <2>2. ASSUME value.type = "Integer", value.num \in 0 .. UintRange - 1
        PROVE  SettingOf(table, key) = value.num
    <3>1. Find(table, key, "Integer") = {value}
      BY <1>2, <2>2, FindsOne
    <3>2. NumOr0({value}) = value.num
      BY DEF NumOr0
    <3>3. value.num % UintRange = value.num
      BY <2>2, TomlAssumption
    <3> QED
      BY <1>5, <3>1, <3>2, <3>3 DEF SettingOf
  <2> QED
    BY <1>3, <1>5, <2>1, <2>2 DEF Within
<1>6. CASE key \notin Counts
  <2>1. ASSUME value.type = "Float"
        PROVE  SettingOf(table, key) = value.num
    <3>1. Find(table, key, "Float") = {value}
      BY <1>2, <2>1, FindsOne
    <3>2. NumOr0({value}) = value.num
      BY DEF NumOr0
    <3> QED
      BY <1>6, <3>1, <3>2 DEF SettingOf
  <2> QED
    BY <1>1, <1>3, <1>6, <2>1, PrintedNearby DEF Within
<1> QED
  BY <1>5, <1>6

LEMMA SettingsReach ==
  ASSUME PInv, Typed, Running, RunsSound
  PROVE  SettingsReachProgram
<1> DEFINE file == Suite.toml
           tables == ReadToml(file).tables
           chosen == CHOOSE e \in Executable : TRUE
           tests == chosen.program.tests
<1> SUFFICES ASSUME job.at = "launch", NEW i \in DOMAIN tables, NEW key \in Counts \cup Doubles,
                    NEW j \in DOMAIN tables[i], tables[i][j].key = key
             PROVE  Within(key, tables[i][j].value, tests[i].settings[key])
  BY Zenon DEF SettingsReachProgram
<1>1. job.cmd = "run" /\ ReadSuiteToml(file).ok
  BY DEF Running, LateStages, RunsSound
<1>2. job.path.dir \in Dirs
  BY DEF PInv, PathsOK, Paths
<1>3. file.lines \in Seq(TextLines)
  BY <1>2 DEF Typed, TextsOK, TextOf, Suite
<1>4. file.exists
  <2>1. ~Reported(StartParser).ok
    BY StartIsParser, ReportedIs
  <2>2. ReadToml(file).ok
    BY <1>1, Zenon DEF ReadSuiteToml
  <2> QED
    BY <2>1, <2>2 DEF ReadToml
<1>5. tables = TomlTablesOf(file.lines) /\ TomlTablesOf(file.lines) \in Seq(TomlTables)
  BY <1>3, <1>4, ReadsItsLines
<1>6. ReadSuiteToml(file).tests = [n \in DOMAIN tables |-> EntryOf(tables[n])]
  <2>1. tables = TomlTablesOf(file.lines)
    BY <1>5
  <2> HIDE DEF tables
  <2> QED
    BY <1>1, <1>3, <1>4, <2>1, SuiteReads
<1>7. chosen \in Executable /\ chosen.program = Declared(Suite)
  <2>1. {e.program : e \in Executable} = {Declared(Suite)}
    BY RunningMeansDeclared DEF ProgramIsDeclared
  <2>2. Executable # {}
    BY <2>1
  <2> QED
    BY <2>1, <2>2
<1>8. tests = [n \in DOMAIN ReadSuiteToml(file).tests |->
                 AppendConfigAssignments(ReadSuiteToml(file).tests[n])]
  <2>1. Declared(Suite).tests = [n \in DOMAIN ReadSuiteToml(file).tests |->
                 AppendConfigAssignments(ReadSuiteToml(file).tests[n])]
    BY DEF Declared, BuildMain
  <2> QED
    BY <1>7, <2>1
<1> DEFINE table == tables[i]
<1>9. tests[i] = AppendConfigAssignments(EntryOf(table))
  <2> DEFINE read == ReadSuiteToml(file).tests
  <2>1. read = [n \in DOMAIN tables |-> EntryOf(tables[n])]
    BY <1>6
  <2>2. tests = [n \in DOMAIN read |-> AppendConfigAssignments(read[n])]
    BY <1>8
  <2> HIDE DEF read, tests, tables
  <2>3. DOMAIN read = DOMAIN tables /\ read[i] = EntryOf(tables[i])
    BY <2>1
  <2> QED
    BY <2>2, <2>3
<1>10. table \in TomlTables
  <2>1. tables \in Seq(TomlTables)
    BY <1>5
  <2> HIDE DEF tables
  <2> QED
    BY <2>1
<1>11. j \in DOMAIN table /\ table[j].key = key
  OBVIOUS
<1> HIDE DEF table, tests
<1>12. Within(key, table[j].value, AppendConfigAssignments(EntryOf(table)).settings[key])
  BY <1>10, <1>11, TableReaches
<1> QED
  BY <1>9, <1>12 DEF table

\* Every setting the user wrote reaches the program that run starts, whatever the lines of
\* suite.toml: a count within uint32_t as it is, a double that was read as one within half of
\* the last digit that is printed.  From the parser of TomlIO.cpp over Configuration.cpp and
\* HadesCodegen.cpp to the executable that cmdRun finds.
THEOREM SettingsAreThoseWritten == DriverSpec => []SettingsReachProgram
<1>1. DriverSpec => []MInv
  BY MInit, MStep, PTL DEF DriverSpec
<1>2. MInv => JobOK
  BY DEF MInv
<1>3. DriverInit => Running /\ RunsSound
  BY NoJobShape DEF DriverInit, Running, LateStages, RunsSound
<1>4. PInv /\ Typed /\ Running /\ RunsSound => SettingsReachProgram
  BY SettingsReach
<1> QED
  BY <1>1, <1>2, <1>3, <1>4, PInit, PStep, RStep, TInit, TStep, SoundStep, PTL DEF DriverSpec

-----------------------------------------------------------------------------
(* What new-test adds.                                                     *)

LEMMA EntryAdds ==
  ASSUME NEW file, TextOf(file, TextLines), ReadSuiteToml(file).ok, file.exists,
         NEW entry, TestTyped(entry)
  PROVE  /\ ReadSuiteToml(File(file.lines \o EntryLines(entry))).ok
         /\ ReadSuiteToml(File(file.lines \o EntryLines(entry))).tests
              = Append(ReadSuiteToml(file).tests, entry)
<1>1. PICK id \in Texts, fixture \in Texts, kind \in Kinds : entry = NewEntry(id, fixture, kind)
  BY DEF TestTyped
<1> DEFINE made == NewEntry(id, fixture, kind)
           new == File(file.lines \o EntryLines(made))
<1>2. file.lines \in Seq(TextLines)
  BY DEF TextOf
<1>3. new = File(file.lines \o EntryLines(NewEntry(id, fixture, kind)))
  OBVIOUS
<1> HIDE DEF new
<1>4. ReadSuiteToml(new).ok
  BY <1>2, <1>3, EntryReads
<1>5. ReadSuiteToml(new).tests = Append(ReadSuiteToml(file).tests, NewEntry(id, fixture, kind))
  BY <1>2, <1>3, EntryReads
<1>6. entry = made
  BY <1>1
<1> QED
  BY <1>4, <1>5, <1>6 DEF new

LEMMA OneName ==
  ASSUME NEW fixtures \in Seq(Fixtures), NEW fixture \in Fixtures
  PROVE  Names(Append(fixtures, fixture)) = Names(fixtures) \cup {fixture.name}
<1> DEFINE all == Append(fixtures, fixture)
<1>1. /\ DOMAIN all = 1 .. Len(fixtures) + 1 /\ DOMAIN fixtures = 1 .. Len(fixtures)
      /\ Len(fixtures) \in Nat /\ all[Len(fixtures) + 1] = fixture
      /\ \A i \in DOMAIN fixtures : all[i] = fixtures[i]
  BY OneTableMore
<1> HIDE DEF all
<1>2. Names(all) = Names(fixtures) \cup {fixture.name}
  BY <1>1 DEF Names
<1> QED
  BY <1>2 DEF all

LEMMA FixtureAdds ==
  ASSUME NEW file, file.lines \in Seq(IniTextLines), file.exists,
         NEW fixture \in Fixtures, ValidFixture(fixture)
  PROVE  LET new == File(file.lines \o FixtureLines(fixture))
         IN  /\ ReadRegistryIni(new).ok = ReadRegistryIni(file).ok
             /\ Names(ReadRegistryIni(new).fixtures)
                  = Names(ReadRegistryIni(file).fixtures) \cup {fixture.name}
<1> DEFINE lines == file.lines \o FixtureLines(fixture)
           new == File(lines)
           old == FinishSection(IniEnd(file.lines))
           made == FinishSection(IniEnd(lines))
<1>1. lines \in Seq(IniTextLines) /\ made.fixtures = Append(old.fixtures, fixture) /\ made.ok = old.ok
  BY FixtureIsAppended
<1>2. new.exists /\ new.lines = lines
  BY DEF File, Saved
<1>3. ReadRegistryIni(file) = old /\ old.fixtures \in Seq(Fixtures)
  BY RegistryReads
<1>4. ReadRegistryIni(new) = made
  <2> HIDE DEF new, lines
  <2> QED
    BY <1>1, <1>2, RegistryReads
<1> HIDE DEF new, old, made, lines
<1>5. Names(Append(old.fixtures, fixture)) = Names(old.fixtures) \cup {fixture.name}
  BY <1>3, OneName
<1> QED
  BY <1>1, <1>3, <1>4, <1>5 DEF new, lines

\* What is known of a new-test in hand: the fixture its test asks for is registered or valid,
\* and undisturbed the two files are what they were plus what it has written.
Adding ==
  job.cmd = "new-test" =>
    /\ before.toml.exists
    /\ faulted => job.path.dir \in blemished
    /\ job.isNew => ValidFixture(job.fixture) /\ job.fixture.name = job.entry.fixture
    /\ ~job.isNew => job.entry.fixture \in Names(ReadRegistryIni(before.ini).fixtures)
    /\ ~faulted /\ job.at # "register" => Suite.toml = before.toml /\ Suite.ini = before.ini
    /\ ~faulted /\ job.at = "register" =>
         /\ job.isNew /\ Suite.ini = before.ini
         /\ before.toml.ended => Suite.toml = File(before.toml.lines \o EntryLines(job.entry))

LEMMA FaultIs ==
  ASSUME Fault, job.cmd = "new-test"
  PROVE  faulted' /\ blemished' = blemished \cup {job.path.dir}
BY DEF Fault, Blemish

\* An append that goes wrong, that goes well, or that finds no newline to go on from.
LEMMA AppendToIs ==
  ASSUME NEW field, NEW block, NEW joined, NEW parts, NEW next,
         AppendTo(field, block, joined, parts, next), job.cmd = "new-test"
  PROVE  /\ before' = before /\ (next \/ Exit(1)) /\ \E value : Put(field, value)
         /\ \/ faulted' /\ blemished' = blemished \cup {job.path.dir}
            \/ /\ faulted' = faulted /\ next
               /\ Put(field, AppendBlock(Suite[field], block, joined))
               /\ Suite[field].ended => blemished' = blemished
               /\ ~Suite[field].ended => blemished' = blemished \cup {job.path.dir}
<1>1. before' = before
  BY Zenon DEF AppendTo, Quiet
<1>2. CASE Fault
  <2>1. (next \/ Exit(1)) /\ \E value : Put(field, value)
    BY Zenon DEF AppendTo
  <2> QED
    BY <1>1, <1>2, <2>1, FaultIs
<1>3. CASE /\ Put(field, AppendBlock(Suite[field], block, joined)) /\ next
           /\ IF Suite[field].ended THEN NoFault
              ELSE Blemish(job.path.dir) /\ UNCHANGED <<faults, faulted>>
  <2>1. faulted' = faulted
    BY <1>3, Zenon DEF NoFault
  <2>2. Suite[field].ended => blemished' = blemished
    BY <1>3, Zenon DEF NoFault
  <2>3. ~Suite[field].ended => blemished' = blemished \cup {job.path.dir}
    BY <1>3, Zenon DEF Blemish
  <2> QED
    BY <1>1, <1>3, <2>1, <2>2, <2>3, Zenon
<1> QED
  BY <1>2, <1>3, Zenon DEF AppendTo

LEMMA NotDone ==
  ASSUME job' # NoJob \/ last'.job.cmd # "new-test" \/ last'.code # 0 \/ faulted'
  PROVE  NewTestIsDeclared'
BY DEF NewTestIsDeclared, NewTestDone

\* A new-test that is over, or another command, has nothing left to write.
LEMMA NotAdding ==
  ASSUME job'.cmd # "new-test"
  PROVE  Adding'
BY DEF Adding

LEMMA WriteStubAdds ==
  ASSUME JobOK, PInv, Typed, Adding, WriteStub
  PROVE  Adding' /\ NewTestIsDeclared'
<1>1. /\ job.cmd = "new-test" /\ job.at = "stub" /\ before' = before /\ SameTexts
      /\ job.path.dir \in Dirs
  <2>1. job.cmd = "new-test" /\ job.at = "stub" /\ before' = before
    BY Zenon DEF WriteStub, At, Quiet
  <2> QED
    BY <2>1, OtherFilesSame DEF PInv, PathsOK, Paths
<1>2. CASE Exit(1)
  <2>1. job' = NoJob /\ last'.code = 1
    BY <1>2, Ends
  <2> QED
    BY <2>1, NoJobShape, NotDone, NotAdding
<1>3. CASE Goto("entry")
  <2>1. /\ job'.at = "entry" /\ job'.cmd = "new-test" /\ job'.path = job.path
        /\ job'.isNew = job.isNew /\ job'.fixture = job.fixture /\ job'.entry = job.entry
    BY <1>1, <1>3, GoesOn, KeepsTest
  <2>2. /\ faulted' => job.path.dir \in blemished'
        /\ ~faulted' => ~faulted
    <3>1. CASE NoFault
      BY <1>1, <3>1 DEF NoFault, Adding
    <3>2. CASE Fault
      BY <1>1, <3>2, FaultIs
    <3> QED
      BY <3>1, <3>2 DEF WriteStub, ReportOrLose
  <2>3. Suite'.toml = Suite.toml /\ Suite'.ini = Suite.ini
    BY <1>1, <2>1 DEF SameTexts, Suite
  <2>4. Adding'
    BY <1>1, <2>1, <2>2, <2>3 DEF Adding
  <2>5. NewTestIsDeclared'
    BY <2>1, NoJobShape, NotDone
  <2> QED
    BY <2>4, <2>5
<1> QED
  BY <1>2, <1>3 DEF WriteStub, ReportOrLose

\* The entry is written: it is all there is to do, or its fixture is next.
LEMMA AppendEntryAdds ==
  ASSUME JobOK, PInv, Typed, Adding, AppendEntry
  PROVE  Adding' /\ NewTestIsDeclared'
<1> DEFINE block == EntryLines(job.entry)
           joined == JoinedWithHeader(Last(Suite.toml.lines))
           parts == [n \in DOMAIN block |-> PartsOfLine(block[n])]
           next == IF job.isNew THEN Goto("register") ELSE Exit(0)
           new == AppendBlock(Suite.toml, block, joined)
<1>1. /\ job.cmd = "new-test" /\ job.at = "entry" /\ AppendTo("toml", block, joined, parts, next)
  BY Zenon DEF AppendEntry, AppendToToml, At
<1>2. /\ before' = before /\ (next \/ Exit(1)) /\ \E value : Put("toml", value)
      /\ \/ faulted' /\ blemished' = blemished \cup {job.path.dir}
         \/ /\ faulted' = faulted /\ next /\ Put("toml", new)
            /\ Suite.toml.ended => blemished' = blemished
            /\ ~Suite.toml.ended => blemished' = blemished \cup {job.path.dir}
  <2> HIDE DEF block, joined, parts, next
  <2>1. AppendTo("toml", block, joined, parts, next) /\ job.cmd = "new-test"
    BY <1>1
  <2> QED
    BY <2>1, AppendToIs
<1>3. /\ job.path.dir \in Dirs /\ suites'[job.path.dir].ini = Suite.ini
      /\ Put("toml", new) => suites'[job.path.dir].toml = new
  <2> HIDE DEF new
  <2> QED
    BY <1>1, <1>2, PutText
<1>4. /\ TextOf(Suite.toml, TextLines) /\ TextOf(before.toml, TextLines) /\ TestTyped(job.entry)
  BY <1>1, <1>3 DEF Typed, TextsOK, Suite
<1>5. Suite.toml.ended => new = File(Suite.toml.lines \o block)
  BY DEF AppendBlock
<1>6. /\ faulted' => job.path.dir \in blemished'
      /\ ~faulted' => ~faulted /\ Put("toml", new) /\ next
  BY <1>1, <1>2 DEF Adding
<1>7. /\ before.toml.exists
      /\ job.isNew => ValidFixture(job.fixture) /\ job.fixture.name = job.entry.fixture
      /\ ~job.isNew => job.entry.fixture \in Names(ReadRegistryIni(before.ini).fixtures)
      /\ ~faulted => Suite.toml = before.toml /\ Suite.ini = before.ini
  BY <1>1 DEF Adding
<1>8. CASE Exit(1)
  <2>1. job' = NoJob /\ last'.code = 1
    BY <1>8, Ends
  <2> QED
    BY <2>1, NoJobShape, NotDone, NotAdding
<1>9. CASE job.isNew /\ Goto("register")
  <2>1. /\ job'.at = "register" /\ job'.cmd = "new-test" /\ job'.path = job.path
        /\ job'.isNew = job.isNew /\ job'.fixture = job.fixture /\ job'.entry = job.entry
    BY <1>1, <1>9, GoesOn, KeepsTest
  <2>2. Suite' = suites'[job.path.dir]
    BY <2>1 DEF Suite
  <2>3. ~faulted' => /\ Suite'.ini = before.ini
                     /\ before.toml.ended => Suite'.toml = File(before.toml.lines \o EntryLines(job.entry))
    <3> HIDE DEF new, next
    <3> QED
      BY <1>3, <1>5, <1>6, <1>7, <2>2
  <2>4. Adding'
    BY <1>2, <1>6, <1>7, <1>9, <2>1, <2>3 DEF Adding
  <2>5. NewTestIsDeclared'
    BY <2>1, NoJobShape, NotDone
  <2> QED
    BY <2>4, <2>5
<1>10. CASE ~job.isNew /\ Exit(0)
  <2>1. job' = NoJob /\ last'.job.path = job.path /\ last'.job.entry = job.entry
    BY <1>10, Ends, EndsTest
  <2>2. Adding'
    BY <2>1, NoJobShape, NotAdding
  <2>3. ASSUME NewTestDone', before'.toml.ended
        PROVE  Adds(before', suites'[last'.job.path.dir], last'.job.entry)
    <3> DEFINE made == File(before.toml.lines \o EntryLines(job.entry))
               s == suites'[job.path.dir]
    <3>1. ~faulted /\ ReadSuiteToml(before.toml).ok /\ ReadRegistryIni(before.ini).ok
          /\ before.toml.ended
      BY <1>2, <1>6, <2>3 DEF NewTestDone, Sound
    <3>2. s.toml = made /\ s.ini = before.ini
      <4>0. ~faulted'
        BY <2>3 DEF NewTestDone
      <4>1. Put("toml", new)
        BY <1>6, <4>0
      <4> HIDE DEF new
      <4> QED
        BY <1>3, <1>5, <1>7, <3>1, <4>1
    <3>3. ReadSuiteToml(made).ok
      BY <1>4, <1>7, <3>1, EntryAdds
    <3>4. ReadSuiteToml(made).tests = Append(ReadSuiteToml(before.toml).tests, job.entry)
      BY <1>4, <1>7, <3>1, EntryAdds
    <3> HIDE DEF made, s
    <3>5. Adds(before, s, job.entry)
      BY <1>7, <1>10, <3>1, <3>2, <3>3, <3>4 DEF Adds, Sound
    <3> QED
      BY <1>2, <2>1, <3>5 DEF s
  <2>4. NewTestIsDeclared'
    BY <2>3 DEF NewTestIsDeclared
  <2> QED
    BY <2>2, <2>4
<1> QED
  BY <1>2, <1>8, <1>9, <1>10

\* The fixture is written behind its test.
LEMMA AppendFixtureAdds ==
  ASSUME JobOK, PInv, Typed, Adding, AppendFixture
  PROVE  Adding' /\ NewTestIsDeclared'
<1> DEFINE block == FixtureLines(job.fixture)
           joined == JoinedWithSection(Last(Suite.ini.lines))
           parts == [n \in DOMAIN block |-> PartsOfIniLine(block[n])]
           new == AppendBlock(Suite.ini, block, joined)
<1>1. /\ job.cmd = "new-test" /\ job.at = "register" /\ AppendTo("ini", block, joined, parts, Exit(0))
  BY Zenon DEF AppendFixture, At
<1>2. /\ before' = before /\ (Exit(0) \/ Exit(1)) /\ \E value : Put("ini", value)
      /\ \/ faulted'
         \/ faulted' = faulted /\ Put("ini", new)
  <2> HIDE DEF block, joined, parts
  <2> DEFINE next == Exit(0)
  <2>1. AppendTo("ini", block, joined, parts, next)
    BY <1>1
  <2> HIDE DEF next
  <2>2. /\ before' = before /\ (next \/ Exit(1)) /\ \E value : Put("ini", value)
        /\ \/ faulted'
           \/ faulted' = faulted /\ Put("ini", new)
    BY <1>1, <2>1, AppendToIs
  <2> QED
    BY <2>2 DEF next
<1>3. /\ job.path.dir \in Dirs /\ suites'[job.path.dir].toml = Suite.toml
      /\ Put("ini", new) => suites'[job.path.dir].ini = new
  <2> HIDE DEF new
  <2> QED
    BY <1>1, <1>2, PutText
<1>4. /\ TextOf(before.toml, TextLines) /\ TextOf(before.ini, IniTextLines)
      /\ TestTyped(job.entry) /\ job.fixture \in Fixtures
  BY <1>1 DEF Typed, TextsOK
<1>5. job' = NoJob /\ last'.job.path = job.path /\ last'.job.entry = job.entry
  BY <1>2, Ends, EndsTest
<1>6. Adding'
  BY <1>5, NoJobShape, NotAdding
<1>7. ASSUME NewTestDone', before'.toml.ended, before'.ini.ended
      PROVE  Adds(before', suites'[last'.job.path.dir], last'.job.entry)
  <2> DEFINE made == File(before.toml.lines \o EntryLines(job.entry))
             registered == File(before.ini.lines \o FixtureLines(job.fixture))
             s == suites'[job.path.dir]
  <2>1. /\ ~faulted /\ ReadSuiteToml(before.toml).ok /\ ReadRegistryIni(before.ini).ok
        /\ before.toml.ended /\ before.ini.ended /\ Put("ini", new)
    BY <1>2, <1>7 DEF NewTestDone, Sound
  <2>2. /\ before.toml.exists /\ ValidFixture(job.fixture) /\ job.fixture.name = job.entry.fixture
        /\ Suite.ini = before.ini /\ Suite.toml = made
    BY <1>1, <2>1 DEF Adding
  <2>3. new = registered
    BY <2>1, <2>2 DEF AppendBlock
  <2>4. s.toml = made /\ s.ini = registered
    <3> HIDE DEF new, registered, made
    <3> QED
      BY <1>3, <2>1, <2>2, <2>3
  <2>5. ReadSuiteToml(made).ok
    BY <1>4, <2>1, <2>2, EntryAdds
  <2>6. ReadSuiteToml(made).tests = Append(ReadSuiteToml(before.toml).tests, job.entry)
    BY <1>4, <2>1, <2>2, EntryAdds
  <2>7. /\ ReadRegistryIni(registered).ok
        /\ Names(ReadRegistryIni(registered).fixtures)
             = Names(ReadRegistryIni(before.ini).fixtures) \cup {job.fixture.name}
    <3>1. before.ini.exists /\ before.ini.lines \in Seq(IniTextLines)
      BY <1>4, <2>1, RegistryReads DEF TextOf
    <3> QED
      BY <1>4, <2>1, <2>2, <3>1, FixtureAdds
  <2> HIDE DEF made, registered, s
  <2>8. Adds(before, s, job.entry)
    BY <2>2, <2>4, <2>5, <2>6, <2>7 DEF Adds, Sound
  <2> QED
    BY <1>2, <1>5, <2>8 DEF s
<1>8. NewTestIsDeclared'
  BY <1>7 DEF NewTestIsDeclared
<1> QED
  BY <1>6, <1>8

LEMMA AStep ==
  ASSUME JobOK, PInv, Typed, Adding, NewTestIsDeclared, [DriverNext]_dvars
  PROVE  Adding' /\ NewTestIsDeclared'
<1>1. CASE NewTestBegun
  <2>1. job' # NoJob /\ Suite' = suites[marker.dir] /\ before' = suites[marker.dir]
    BY <1>1, NoJobShape DEF NewTestBegun, Suite
  <2>2. suites[marker.dir].toml.exists
    BY <1>1 DEF NewTestBegun, Loads
  <2>3. Adding'
    BY <1>1, <2>1, <2>2 DEF NewTestBegun, Adding
  <2> QED
    BY <2>1, <2>3, NotDone
<1>2. CASE Refused \/ OtherBegun
  <2>1. job'.cmd # "new-test" /\ (job' # NoJob \/ last'.code # 0)
    BY <1>2, NoJobShape DEF Refused, OtherBegun
  <2> QED
    BY <2>1, NotDone, NotAdding
<1>3. CASE DriverStep /\ job.cmd = "new-test"
  <2>1. WriteStub \/ AppendEntry \/ AppendFixture
    BY <1>3, NewTestSteps DEF Typed
  <2> QED
    BY <2>1, WriteStubAdds, AppendEntryAdds, AppendFixtureAdds
<1>4. CASE DriverStep /\ job.cmd # "new-test"
  <2>1. job'.cmd # "new-test" /\ (job' # NoJob \/ last'.job.cmd # "new-test")
    BY <1>4, StepsMove, NoJobShape
  <2> QED
    BY <2>1, NotDone, NotAdding
<1>5. CASE Kill
  <2>1. job' = NoJob /\ last'.code = -1
    BY <1>5, Ends DEF Kill
  <2> QED
    BY <2>1, NoJobShape, NotDone, NotAdding
<1>6. CASE EditToml \/ EditIni
  <2>1. job' = NoJob /\ last' = NoResult
    BY <1>6, Zenon DEF EditToml, EditIni, Edit, MayEdit
  <2>2. last'.job.cmd # "new-test"
    BY <2>1, NoJobShape DEF NoResult
  <2> QED
    BY <2>1, <2>2, NoJobShape, NotDone, NotAdding
<1>7. CASE UNCHANGED dvars
  <2>1. UNCHANGED <<suites, job, last, before, faulted, blemished>>
    BY <1>7 DEF dvars, history
  <2>2. Adding'
    BY <2>1 DEF Adding, Suite
  <2>3. NewTestIsDeclared'
    BY <2>1 DEF NewTestIsDeclared, NewTestDone
  <2> QED
    BY <2>2, <2>3
<1>8. Give => NewTestBegun \/ Refused \/ OtherBegun
  BY GiveIs
<1> QED
  BY <1>1, <1>2, <1>3, <1>4, <1>5, <1>6, <1>7, <1>8 DEF DriverNext

LEMMA AInit == DriverInit => Adding /\ NewTestIsDeclared
<1> SUFFICES ASSUME DriverInit PROVE Adding /\ NewTestIsDeclared
  OBVIOUS
<1>1. job = NoJob /\ last = NoResult
  BY DEF DriverInit
<1> QED
  BY <1>1, NoJobShape DEF Adding, NewTestIsDeclared, NewTestDone, NoResult

\* A new-test that reports success has added its test to those of suite.toml, in the last
\* place, and its fixture is registered: cmdNewTest of Commands.cpp, from the flags over what
\* writeRegistryIni and writeWholeFile append to what both parsers read back, for any tests,
\* fixtures and edits, and whatever went wrong in earlier commands.  Both files must have
\* ended in a newline before.
THEOREM NewTestAddsIt == DriverSpec => []NewTestIsDeclared
<1>1. DriverSpec => []MInv
  BY MInit, MStep, PTL DEF DriverSpec
<1>2. MInv => JobOK
  BY DEF MInv
<1>3. JobOK /\ PInv /\ Typed /\ Adding /\ NewTestIsDeclared /\ [DriverNext]_dvars
        => Adding' /\ NewTestIsDeclared'
  BY AStep
<1> QED
  BY <1>1, <1>2, <1>3, PInit, PStep, TInit, TStep, AInit, PTL DEF DriverSpec

-----------------------------------------------------------------------------
(* The fixtures that the tests ask for.                                    *)

\* A table that names its fixture, and a name of S only.
Asks(table, S) ==
  /\ HasKey(table, "fixture")
  /\ \A i \in DOMAIN table : table[i].key = "fixture" => table[i].value.text \in S

AllAsk(tables, S) == \A i \in DOMAIN tables : Asks(tables[i], S)

LEMMA AskMore ==
  ASSUME NEW tables, NEW S, NEW T, S \subseteq T, AllAsk(tables, S)
  PROVE  AllAsk(tables, T)
BY DEF AllAsk, Asks

LEMMA OneAsksMore ==
  ASSUME NEW S, NEW tables \in Seq(TomlTables), NEW table \in TomlTables
  PROVE  AllAsk(Append(tables, table), S) <=> AllAsk(tables, S) /\ Asks(table, S)
<1> DEFINE all == Append(tables, table)
<1>1. /\ DOMAIN all = 1 .. Len(tables) + 1 /\ DOMAIN tables = 1 .. Len(tables)
      /\ Len(tables) \in Nat /\ all[Len(tables) + 1] = table
      /\ \A i \in DOMAIN tables : all[i] = tables[i]
  BY OneTableMore
<1> HIDE DEF all
<1>2. AllAsk(all, S) <=> AllAsk(tables, S) /\ Asks(table, S)
  BY <1>1 DEF AllAsk
<1> QED
  BY <1>2 DEF all

\* A line that opens no test leaves the fixture of every test as it is.
LEMMA LineKeepsAsking ==
  ASSUME NEW p, TomlParser(p), NEW line \in TextLines, ~OpensTest(line), NEW S,
         AllAsk(CloseTable(p).tables, S)
  PROVE  AllAsk(CloseTable(HandleLine(p, line)).tables, S)
<1> DEFINE next == HandleLine(p, line)
<1>1. TomlParser(next)
  BY LineKeepsParser
<1>2. /\ CloseTable(p).tables = IF p.inTarget THEN Append(p.tables, p.current) ELSE p.tables
      /\ CloseTable(next).tables = IF next.inTarget THEN Append(next.tables, next.current) ELSE next.tables
  <2> HIDE DEF next
  <2> QED
    BY <1>1, CloseIs
<1>3. CASE line.kind \in {"header", "single"}
  <2>1. next.tables = CloseTable(p).tables /\ next.inTarget = OpensTest(line)
    BY <1>3, HeaderIs
  <2>2. ~next.inTarget
    BY <2>1
  <2> HIDE DEF next
  <2>3. CloseTable(next).tables = CloseTable(p).tables
    BY <1>2, <2>1, <2>2
  <2> QED
    BY <2>3 DEF next
<1>4. CASE line.kind \notin {"header", "single"}
  <2>1. /\ next.tables = p.tables /\ next.inTarget = p.inTarget
        /\ \/ next.current = p.current
           \/ /\ p.inTarget /\ ~HasKey(p.current, line.name)
              /\ next.current = Append(p.current, [key |-> line.name, value |-> line.value])
    BY <1>4, PairIs
  <2> HIDE DEF next
  <2>2. CASE next.current = p.current
    <3>1. CloseTable(next).tables = CloseTable(p).tables
      BY <1>2, <2>1, <2>2
    <3> QED
      BY <3>1 DEF next
  <2>3. CASE /\ p.inTarget /\ ~HasKey(p.current, line.name)
             /\ next.current = Append(p.current, [key |-> line.name, value |-> line.value])
    <3> DEFINE pair == [key |-> line.name, value |-> line.value]
    <3>1. p.tables \in Seq(TomlTables) /\ p.current \in TomlTables /\ next.current \in TomlTables
      BY <1>1 DEF TomlParser
    <3>2. AllAsk(Append(p.tables, p.current), S)
      BY <1>2, <2>3
    <3>3. AllAsk(p.tables, S) /\ Asks(p.current, S)
      BY <3>1, <3>2, OneAsksMore
    <3>4. p.current \in Seq(TomlPairs) /\ pair \in TomlPairs /\ pair.key = line.name
      BY <3>1 DEF TomlTables, TomlPairs, TextLines
    <3>5. line.name # "fixture"
      BY <2>3, <3>3 DEF Asks
    <3> HIDE DEF pair
    <3>6. /\ DOMAIN next.current = 1 .. Len(p.current) + 1 /\ DOMAIN p.current = 1 .. Len(p.current)
          /\ Len(p.current) \in Nat /\ next.current[Len(p.current) + 1] = pair
          /\ \A i \in DOMAIN p.current : next.current[i] = p.current[i]
      <4>1. next.current = Append(p.current, pair)
        BY <2>3 DEF pair
      <4> QED
        BY <3>4, <4>1, OneTableMore
    <3>7. Asks(next.current, S)
      <4>1. HasKey(next.current, "fixture")
        <5>1. PICK i \in DOMAIN p.current : p.current[i].key = "fixture"
          BY <3>3 DEF Asks, HasKey
        <5>2. i \in DOMAIN next.current /\ next.current[i].key = "fixture"
          BY <3>6, <5>1
        <5> QED
          BY <5>2 DEF HasKey
      <4>2. ASSUME NEW i \in DOMAIN next.current, next.current[i].key = "fixture"
            PROVE  next.current[i].value.text \in S
        <5>1. i \in DOMAIN p.current
          BY <3>4, <3>5, <3>6, <4>2
        <5>2. next.current[i] = p.current[i]
          BY <3>6, <5>1
        <5> QED
          BY <3>3, <4>2, <5>1, <5>2, Zenon DEF Asks
      <4> QED
        BY <4>1, <4>2, Zenon DEF Asks
    <3>8. AllAsk(Append(p.tables, next.current), S)
      BY <3>1, <3>3, <3>7, OneAsksMore
    <3>9. CloseTable(next).tables = Append(p.tables, next.current)
      BY <1>2, <2>1, <2>3
    <3> QED
      BY <3>8, <3>9 DEF next
  <2> QED
    BY <2>1, <2>2, <2>3
<1> QED
  BY <1>3, <1>4

\* Nor do more such lines.
LEMMA LinesKeepAsking ==
  ASSUME NEW lines \in Seq(TextLines), NEW more \in Seq(TextLines), NEW S,
         \A k \in DOMAIN more : ~OpensTest(more[k]), AllAsk(TomlTablesOf(lines), S)
  PROVE  AllAsk(TomlTablesOf(lines \o more), S)
<1> DEFINE all == lines \o more
           first == Len(lines)
           last1 == Len(lines) + Len(more)
           Good == {n \in Nat : AllAsk(CloseTable(TomlAfter(all)[n]).tables, S)}
<1>1. /\ all \in Seq(TextLines) /\ first \in Nat /\ Len(more) \in Nat /\ Len(all) = last1
      /\ TomlAfter(all)[first] = TomlEnd(lines) /\ TomlEnd(all) = TomlAfter(all)[last1]
      /\ DOMAIN more = 1 .. Len(more)
  <2>1. Len(more) \in Nat /\ DOMAIN more = 1 .. Len(more)
    OBVIOUS
  <2>2. Len(all) = last1
    BY JoinedLines
  <2>3. all \in Seq(TextLines) /\ first \in Nat
    BY LinesOn
  <2>4. TomlAfter(all)[first] = TomlEnd(lines)
    BY LinesOn
  <2>5. TomlEnd(all) = TomlAfter(all)[last1]
    BY LinesOn
  <2> QED
    BY <2>1, <2>2, <2>3, <2>4, <2>5, Zenon
<1>2. \A k \in 1 .. Len(more) :
        TomlAfter(all)[first + k] = HandleLine(TomlAfter(all)[first + k - 1], more[k])
  <2>1. ASSUME NEW k \in 1 .. Len(more)
        PROVE  TomlAfter(all)[Len(lines) + k] = HandleLine(TomlAfter(all)[Len(lines) + k - 1], more[k])
    BY TomlGoesOn
  <2> QED
    BY <2>1
<1>3. \A n \in 0 .. Len(all) : TomlParser(TomlAfter(all)[n])
  BY <1>1, ParserThroughout
<1> HIDE DEF all
<1>4. ASSUME NEW n \in first + 1 .. last1, n - 1 \in Good PROVE n \in Good
  <2> DEFINE k == n - first
  <2>1. k \in 1 .. Len(more) /\ first + k = n /\ first + k - 1 = n - 1 /\ n - 1 \in 0 .. Len(all) /\ n \in Nat
    BY <1>1
  <2>2. more[k] \in TextLines /\ ~OpensTest(more[k])
    BY <1>1, <2>1
  <2>3. TomlAfter(all)[n] = HandleLine(TomlAfter(all)[n - 1], more[k])
    BY <1>2, <2>1
  <2>4. TomlParser(TomlAfter(all)[n - 1]) /\ AllAsk(CloseTable(TomlAfter(all)[n - 1]).tables, S)
    BY <1>3, <1>4, <2>1
  <2> HIDE DEF k
  <2>5. AllAsk(CloseTable(TomlAfter(all)[n]).tables, S)
    BY <2>2, <2>3, <2>4, LineKeepsAsking
  <2> QED
    BY <2>1, <2>5
<1>5. first \in Good
  BY <1>1 DEF TomlTablesOf
<1>6. first \in Nat /\ last1 \in Nat /\ last1 \in first .. last1
  BY <1>1
<1> HIDE DEF Good, first, last1
<1>7. last1 \in Good
  BY <1>4, <1>5, <1>6, PlaceByPlace
<1>8. AllAsk(TomlTablesOf(all), S)
  BY <1>1, <1>7 DEF Good, TomlTablesOf
<1> QED
  BY <1>8 DEF all

\* A test that is appended asks for its own fixture.
LEMMA EntryAsks ==
  ASSUME NEW lines \in Seq(TextLines), NEW entry, TestTyped(entry), NEW S, entry.fixture \in S,
         AllAsk(TomlTablesOf(lines), S)
  PROVE  AllAsk(TomlTablesOf(lines \o EntryLines(entry)), S)
<1>1. PICK id \in Texts, fixture \in Texts, kind \in Kinds : entry = NewEntry(id, fixture, kind)
  BY DEF TestTyped
<1>2. kind \in Texts /\ fixture \in S
  <2>1. kind \in Texts
    BY SomeTexts
  <2>2. NewEntry(id, fixture, kind).fixture = fixture
    BY NewEntryIs
  <2> QED
    BY <1>1, <2>1, <2>2
<1> DEFINE table == NewTable(id, fixture, kind)
<1>3. TomlTablesOf(lines \o EntryLines(NewEntry(id, fixture, kind))) = Append(TomlTablesOf(lines), table)
  BY <1>2, EntryIsAppended
<1>4. /\ DOMAIN table = 1 .. 3 /\ table[1] = TextPair("id", id)
      /\ table[2] = TextPair("fixture", fixture) /\ table[3] = TextPair("kind", kind)
  BY <1>2, NewTableIs
<1>5. /\ table[1].key = "id" /\ table[2].key = "fixture" /\ table[3].key = "kind"
      /\ table[2].value.text = fixture
  BY <1>4, TextPairIs
<1>6. table \in TomlTables
  <2> DEFINE all == lines \o EntryLines(NewEntry(id, fixture, kind))
  <2>1. all \in Seq(TextLines)
    BY <1>2, EntryIsAppended
  <2>2. TomlTablesOf(lines) \in Seq(TomlTables)
    <3>1. TomlParser(CloseTable(TomlEnd(lines)))
      BY ParserThroughout, CloseIs
    <3> QED
      BY <3>1 DEF TomlTablesOf, TomlParser
  <2> HIDE DEF all, table
  <2>3. Append(TomlTablesOf(lines), table) \in Seq(TomlTables)
    <3>1. TomlParser(CloseTable(TomlEnd(all)))
      BY <2>1, ParserThroughout, CloseIs
    <3>2. TomlTablesOf(all) \in Seq(TomlTables)
      BY <3>1 DEF TomlTablesOf, TomlParser
    <3> QED
      BY <1>3, <3>2 DEF all
  <2> DEFINE old == TomlTablesOf(lines)
             new == Append(old, table)
  <2>4. new \in Seq(TomlTables) /\ Len(new) = Len(old) + 1 /\ Len(old) \in Nat /\ new[Len(old) + 1] = table
    BY <2>2, <2>3
  <2> HIDE DEF old, new
  <2>5. Len(old) + 1 \in 1 .. Len(new)
    BY <2>4
  <2>6. new[Len(old) + 1] \in TomlTables
    BY <2>4, <2>5
  <2> QED
    BY <2>4, <2>6
<1> HIDE DEF table
<1>7. Asks(table, S)
  BY <1>2, <1>4, <1>5 DEF Asks, HasKey
<1>8. TomlTablesOf(lines) \in Seq(TomlTables)
  <2>1. TomlParser(CloseTable(TomlEnd(lines)))
    BY ParserThroughout, CloseIs
  <2> QED
    BY <2>1 DEF TomlTablesOf, TomlParser
<1>9. AllAsk(Append(TomlTablesOf(lines), table), S)
  BY <1>6, <1>7, <1>8, OneAsksMore
<1>10. EntryLines(entry) = EntryLines(NewEntry(id, fixture, kind))
  BY <1>1
<1> QED
  BY <1>3, <1>9, <1>10

\* No test of a suite asks for a fixture that is not registered, but perhaps for the one that
\* new-test is about to register.
Awaited(d) ==
  IF job.cmd = "new-test" /\ job.at = "register" /\ job.path.dir = d THEN {job.fixture.name} ELSE {}

Registered(d) == Names(ReadRegistryIni(suites[d].ini).fixtures)

TestsAsk(d) == AllAsk(ReadToml(suites[d].toml).tables, Registered(d) \cup Awaited(d))

Agreed == \A d \in Dirs \ blemished : TestsAsk(d)

LEMMA NoTables ==
  /\ \A file : ~file.exists => ReadToml(file).tables = <<>>
  /\ ReadToml(File(<<>>)).tables = <<>> /\ ReadToml(File(<<Comment>>)).tables = <<>>
  /\ \A S : AllAsk(<<>>, S)
<1>1. ASSUME NEW file, ~file.exists PROVE ReadToml(file).tables = <<>>
  BY <1>1, StartIsParser, ReportedIs DEF ReadToml
<1>2. ASSUME NEW S PROVE AllAsk(<<>>, S)
  BY DEF AllAsk
<1>3. CloseTable(StartParser).tables = <<>>
  BY StartIsParser, CloseIs
<1>4. ReadToml(File(<<>>)).tables = <<>>
  <2>1. <<>> \in Seq(TextLines) /\ Len(<<>>) = 0
    OBVIOUS
  <2>2. TomlAfter(<<>>)[0] = StartParser
    BY <2>1, TomlSteps
  <2> QED
    BY <1>3, <2>1, <2>2 DEF ReadToml, File, Saved
<1>5. ReadToml(File(<<Comment>>)).tables = <<>>
  <2> DEFINE lines == <<Comment>>
  <2>1. Len(lines) = 1 /\ lines[1] = Comment
    OBVIOUS
  <2> HIDE DEF lines
  <2>2. TomlAfter(lines)[0] = StartParser
        /\ TomlAfter(lines)[1] = HandleLine(TomlAfter(lines)[0], lines[1])
    <3>1. Len(lines) \in Nat /\ 1 \in 1 .. Len(lines)
      BY <2>1
    <3> QED
      BY <3>1, TomlSteps
  <2>3. Comment.kind = "blank"
    BY DEF Comment, Line
  <2>4. HandleLine(StartParser, Comment) = StartParser
    BY <2>3 DEF HandleLine
  <2>5. ReadToml(File(lines)).tables = <<>>
    <3>1. File(lines).exists /\ File(lines).lines = lines
      BY DEF File, Saved
    <3> QED
      BY <1>3, <2>1, <2>2, <2>4, <3>1 DEF ReadToml
  <2> QED
    BY <2>5 DEF lines
<1> QED
  BY <1>1, <1>2, <1>4, <1>5

LEMMA ReadsTables ==
  ASSUME NEW file, file.exists, file.lines \in Seq(TextLines)
  PROVE  ReadToml(file).tables = TomlTablesOf(file.lines)
BY ReadsItsLines

\* Where both files stay and new-test is not about to register, the tests ask as before.
LEMMA StillAsk ==
  ASSUME NEW d, TestsAsk(d), suites'[d].toml = suites[d].toml, suites'[d].ini = suites[d].ini,
         Awaited(d) = {}
  PROVE  TestsAsk(d)'
<1>1. Registered(d)' = Registered(d)
  BY DEF Registered
<1>2. Registered(d) \cup Awaited(d) \subseteq Registered(d)' \cup Awaited(d)'
  BY <1>1
<1> QED
  BY <1>2, AskMore DEF TestsAsk

\* Only rm takes a directory off the list.
LEMMA FaultBlemishes == ASSUME Fault \/ NoFault PROVE blemished \subseteq blemished'
BY DEF Fault, NoFault, Blemish

LEMMA StepBlemishes ==
  ASSUME DriverStep, ~RemoveAll
  PROVE  blemished \subseteq blemished'
<1>1. CASE AppendEntry \/ AppendFixture
  <2>1. PICK field, block, joined, parts, next : AppendTo(field, block, joined, parts, next)
    BY <1>1, Zenon DEF AppendEntry, AppendToToml, AppendFixture
  <2>2. Fault \/ NoFault \/ Blemish(job.path.dir)
    BY <2>1, Zenon DEF AppendTo
  <2> QED
    BY <2>2, FaultBlemishes DEF Blemish
<1>2. CASE WriteHeader \/ WriteMain \/ WriteCMake
  <2>1. Fault \/ NoFault
    BY <1>2, Zenon DEF WriteHeader, WriteMain, WriteCMake, Resolve, ReportOrLose
  <2> QED
    BY <2>1, FaultBlemishes
<1>3. CASE ReadSuite \/ AdoptFound \/ CreateToml \/ CreateIni \/ AdoptNew \/ InitDone
  <2>1. Fault \/ NoFault
    BY <1>3, Zenon DEF ReadSuite, AdoptFound, CreateToml, CreateIni, CreateFile, AdoptNew, Adopt, InitDone
  <2> QED
    BY <2>1, FaultBlemishes
<1>4. CASE ClearSuiteIfCurrent \/ WriteStub \/ BuildRun \/ Locate \/ Launch
  <2>1. Fault \/ NoFault
    BY <1>4, Zenon DEF ClearSuiteIfCurrent, WriteStub, ReportOrLose, BuildRun, BuildInto, Locate, Launch
  <2> QED
    BY <2>1, FaultBlemishes
<1>5. CASE ClearScratch \/ BuildScratch \/ DropBuild \/ Promote
  <2>1. Fault \/ NoFault
    BY <1>5, Zenon DEF ClearScratch, RemoveTree, BuildScratch, BuildInto, DropBuild, Promote
  <2> QED
    BY <2>1, FaultBlemishes
<1> QED
  BY <1>1, <1>2, <1>3, <1>4, <1>5 DEF DriverStep

\* Both files of every suite stay.
LEMMA SameAgree ==
  ASSUME Agreed, SameTexts, blemished \subseteq blemished',
         job.cmd # "new-test" \/ job.at # "register" \/ job.path.dir \in blemished'
  PROVE  Agreed'
<1> SUFFICES ASSUME NEW d \in Dirs, d \notin blemished' PROVE TestsAsk(d)'
  BY DEF Agreed
<1>1. TestsAsk(d) /\ suites'[d].toml = suites[d].toml /\ suites'[d].ini = suites[d].ini
  BY DEF Agreed, SameTexts
<1>2. Awaited(d) = {}
  BY DEF Awaited
<1> QED
  BY <1>1, <1>2, StillAsk

\* The files of one directory change.
LEMMA OneChanges ==
  ASSUME Agreed, NEW e, \A d \in Dirs \ {e} : suites'[d] = suites[d],
         blemished \ {e} \subseteq blemished',
         job.cmd # "new-test" \/ job.at # "register" \/ job.path.dir = e,
         e \in Dirs \ blemished' => TestsAsk(e)'
  PROVE  Agreed'
<1> SUFFICES ASSUME NEW d \in Dirs \ {e}, d \notin blemished' PROVE TestsAsk(d)'
  BY DEF Agreed
<1>1. TestsAsk(d) /\ suites'[d].toml = suites[d].toml /\ suites'[d].ini = suites[d].ini
  BY DEF Agreed
<1>2. Awaited(d) = {}
  BY DEF Awaited
<1> QED
  BY <1>1, <1>2, StillAsk

LEMMA RemoveAgrees ==
  ASSUME JobOK, PInv, Agreed, RemoveAll
  PROVE  Agreed'
<1> SUFFICES ASSUME NEW e, e = job.path.dir PROVE Agreed'
  OBVIOUS
<1>1. e \in Dirs /\ job.cmd = "rm"
  BY DEF RemoveAll, At, PInv, PathsOK, Paths
<1>2. PICK left : suites' = [suites EXCEPT ![e] = left]
  BY DEF RemoveAll
<1>3. \A d \in Dirs \ {e} : suites'[d] = suites[d]
  BY <1>1, <1>2 DEF PInv, SuitesOK
<1>4. CASE suites' = [suites EXCEPT ![e] = NoSuite] /\ blemished' = blemished \ {e}
  <2>1. suites'[e].toml = Absent
    BY <1>1, <1>4, AbsentIsText DEF PInv, SuitesOK
  <2>2. ReadToml(suites'[e].toml).tables = <<>>
    BY <2>1, NoTables DEF Absent
  <2>3. TestsAsk(e)'
    BY <2>2, NoTables DEF TestsAsk
  <2> QED
    BY <1>1, <1>3, <1>4, <2>3, OneChanges
<1>5. CASE Fault
  <2>1. blemished' = blemished \cup {e}
    BY <1>1, <1>5 DEF Fault, Blemish
  <2> QED
    BY <1>1, <1>3, <2>1, OneChanges
<1> QED
  BY <1>4, <1>5 DEF RemoveAll

LEMMA CreateAgrees ==
  ASSUME JobOK, PInv, Typed, Agreed, NEW at, at # "idle", NEW field \in {"toml", "ini"}, NEW next,
         CreateFile(at, field, next), blemished \subseteq blemished'
  PROVE  Agreed'
<1> SUFFICES ASSUME NEW e, e = job.path.dir PROVE Agreed'
  OBVIOUS
<1> DEFINE line == IF field = "toml" THEN Comment ELSE IniComment
<1>1. job.at # "idle" /\ job.cmd = "init-suite" /\ e \in Dirs
  BY DEF CreateFile, At, PInv, PathsOK, Paths
<1>2. \/ UNCHANGED suites
      \/ Put(field, Suite[field])
      \/ ~Suite[field].exists /\ \E value \in {File(<<line>>), File(<<>>)} : Put(field, value)
  BY Zenon DEF CreateFile
<1>3. CASE UNCHANGED suites
  BY <1>1, <1>3, StillSame, SameAgree
<1>4. CASE Put(field, Suite[field])
  <2>1. /\ \A d \in Dirs \ {e} : suites'[d] = suites[d]
        /\ suites'[e].toml = Suite.toml /\ suites'[e].ini = Suite.ini
    BY <1>1, <1>4, PutText
  <2>2. SameTexts
    BY <1>1, <2>1 DEF SameTexts, Suite
  <2> QED
    BY <1>1, <2>2, SameAgree
<1>5. CASE ~Suite[field].exists /\ \E value \in {File(<<line>>), File(<<>>)} : Put(field, value)
  <2>1. PICK value \in {File(<<line>>), File(<<>>)} : Put(field, value)
    BY <1>5
  <2>2. /\ \A d \in Dirs \ {e} : suites'[d] = suites[d]
        /\ field = "toml" => suites'[e].toml = value /\ suites'[e].ini = Suite.ini
        /\ field = "ini" => suites'[e].ini = value /\ suites'[e].toml = Suite.toml
    BY <1>1, <2>1, PutText
  <2>3. ASSUME e \notin blemished' PROVE TestsAsk(e)'
    <3>1. CASE field = "toml"
      <4>1. value \in {File(<<Comment>>), File(<<>>)}
        BY <2>1, <3>1
      <4>2. ReadToml(suites'[e].toml).tables = <<>>
        BY <2>2, <3>1, <4>1, NoTables
      <4> QED
        BY <4>2, NoTables DEF TestsAsk
    <3>2. CASE field = "ini"
      <4>1. TestsAsk(e) /\ Awaited(e) = {}
        BY <1>1, <2>3 DEF Agreed, Awaited
      <4>2. ~suites[e].ini.exists /\ suites[e].ini.lines \in Seq(IniTextLines)
        BY <1>1, <1>5, <3>2 DEF Suite, Typed, TextsOK, TextOf
      <4>3. ReadRegistryIni(suites[e].ini).fixtures = <<>>
        BY <4>2, RegistryReads
      <4>4. Registered(e) = {}
        BY <4>3 DEF Registered, Names
      <4>5. suites'[e].toml = suites[e].toml
        BY <2>2, <3>2 DEF Suite
      <4>6. Registered(e) \cup Awaited(e) \subseteq Registered(e)' \cup Awaited(e)'
        BY <4>1, <4>4
      <4> QED
        BY <4>1, <4>5, <4>6, AskMore DEF TestsAsk
    <3> QED
      BY <3>1, <3>2
  <2> QED
    BY <1>1, <2>2, <2>3, OneChanges
<1> QED
  BY <1>2, <1>3, <1>4, <1>5

LEMMA EntryAgrees ==
  ASSUME JobOK, PInv, Typed, Adding, Agreed, AppendEntry
  PROVE  Agreed'
<1> SUFFICES ASSUME NEW e, e = job.path.dir PROVE Agreed'
  OBVIOUS
<1> DEFINE block == EntryLines(job.entry)
           joined == JoinedWithHeader(Last(Suite.toml.lines))
           parts == [n \in DOMAIN block |-> PartsOfLine(block[n])]
           next == IF job.isNew THEN Goto("register") ELSE Exit(0)
           new == AppendBlock(Suite.toml, block, joined)
<1>1. /\ job.cmd = "new-test" /\ job.at = "entry" /\ AppendTo("toml", block, joined, parts, next)
  BY Zenon DEF AppendEntry, AppendToToml, At
<1>2. /\ \E value : Put("toml", value)
      /\ \/ faulted' /\ blemished' = blemished \cup {e}
         \/ /\ faulted' = faulted /\ next /\ Put("toml", new)
            /\ Suite.toml.ended => blemished' = blemished
            /\ ~Suite.toml.ended => blemished' = blemished \cup {e}
  <2> HIDE DEF block, joined, parts, next
  <2>1. AppendTo("toml", block, joined, parts, next) /\ job.cmd = "new-test"
    BY <1>1
  <2> QED
    BY <2>1, AppendToIs
<1>3. /\ e \in Dirs /\ suites'[e].ini = Suite.ini /\ \A d \in Dirs \ {e} : suites'[d] = suites[d]
      /\ Put("toml", new) => suites'[e].toml = new
  <2> HIDE DEF new
  <2> QED
    BY <1>1, <1>2, PutText
<1>4. blemished \subseteq blemished'
  BY <1>2
<1>5. ASSUME e \notin blemished' PROVE TestsAsk(e)'
  <2>1. /\ faulted' = faulted /\ next /\ Put("toml", new) /\ Suite.toml.ended
        /\ e \notin blemished
    <3> HIDE DEF next, new
    <3> QED
      BY <1>2, <1>5
  <2>2. ~faulted
    BY <1>1, <2>1 DEF Adding
  <2>3. /\ before.toml.exists /\ Suite.toml = before.toml /\ Suite.ini = before.ini
        /\ job.isNew => job.fixture.name = job.entry.fixture
        /\ ~job.isNew => job.entry.fixture \in Names(ReadRegistryIni(before.ini).fixtures)
    BY <1>1, <2>2 DEF Adding
  <2> DEFINE lines == suites[e].toml.lines
             S == Registered(e)' \cup Awaited(e)'
  <2>4. suites[e] = Suite /\ lines \in Seq(TextLines) /\ TestTyped(job.entry)
    BY <1>1, <1>3 DEF Suite, Typed, TextsOK, TextOf
  <2>5. TestsAsk(e) /\ Awaited(e) = {}
    BY <1>1, <1>3, <2>1 DEF Agreed, Awaited
  <2>6. Registered(e)' = Registered(e)
    BY <1>3, <2>4 DEF Registered
  <2>7. AllAsk(TomlTablesOf(lines), Registered(e))
    BY <2>3, <2>4, <2>5, ReadsTables DEF TestsAsk
  <2>8. job.entry.fixture \in S
    <3>1. CASE job.isNew
      <4>1. Goto("register")
        BY <2>1, <3>1
      <4>2. job'.at = "register" /\ job'.cmd = "new-test" /\ job'.path = job.path
            /\ job'.fixture = job.fixture
        BY <1>1, <4>1, GoesOn, KeepsTest
      <4>3. Awaited(e)' = {job.fixture.name}
        BY <4>2 DEF Awaited
      <4> QED
        BY <2>3, <3>1, <4>3
    <3>2. CASE ~job.isNew
      BY <2>3, <2>4, <2>6, <3>2 DEF Registered
    <3> QED
      BY <3>1, <3>2
  <2>9. AllAsk(TomlTablesOf(lines), S)
    BY <2>6, <2>7, AskMore
  <2> HIDE DEF S
  <2>10. AllAsk(TomlTablesOf(lines \o EntryLines(job.entry)), S)
    <3> HIDE DEF lines
    <3> QED
      BY <2>4, <2>8, <2>9, EntryAsks
  <2>11. suites'[e].toml = File(lines \o EntryLines(job.entry))
    <3>1. new = File(lines \o EntryLines(job.entry))
      BY <2>1, <2>4 DEF AppendBlock
    <3> QED
      BY <1>3, <2>1, <3>1
  <2>12. ReadToml(suites'[e].toml).tables = TomlTablesOf(lines \o EntryLines(job.entry))
    <3> DEFINE all == lines \o EntryLines(job.entry)
    <3>1. EntryLines(job.entry) \in Seq(TextLines)
      BY <2>4, EntryLinesAreText
    <3>2. all \in Seq(TextLines)
      BY <2>4, <3>1, JoinedLines
    <3> HIDE DEF all
    <3>3. File(all).exists /\ File(all).lines = all
      BY DEF File, Saved
    <3> QED
      BY <2>11, <3>2, <3>3, ReadsTables DEF all
  <2> QED
    BY <2>10, <2>12 DEF TestsAsk, S
<1> QED
  BY <1>1, <1>3, <1>4, <1>5, OneChanges

\* A fixture that is appended is registered, whether or not the rest of the file reads well.
LEMMA FixtureRegisters ==
  ASSUME NEW file, file.lines \in Seq(IniTextLines), NEW fixture \in Fixtures, ValidFixture(fixture)
  PROVE  Names(ReadRegistryIni(file).fixtures) \cup {fixture.name}
           \subseteq Names(ReadRegistryIni(File(file.lines \o FixtureLines(fixture))).fixtures)
<1> DEFINE there == File(file.lines)
<1>1. there.exists /\ there.lines = file.lines
  BY DEF File, Saved
<1> HIDE DEF there
<1>2. Names(ReadRegistryIni(File(file.lines \o FixtureLines(fixture))).fixtures)
        = Names(ReadRegistryIni(there).fixtures) \cup {fixture.name}
  BY <1>1, FixtureAdds
<1>3. Names(ReadRegistryIni(file).fixtures) \subseteq Names(ReadRegistryIni(there).fixtures)
  <2>1. CASE file.exists
    BY <1>1, <2>1, RegistryReads
  <2>2. CASE ~file.exists
    <3>1. ReadRegistryIni(file).fixtures = <<>>
      BY <2>2, RegistryReads
    <3> QED
      BY <3>1 DEF Names
  <2> QED
    BY <2>1, <2>2
<1> QED
  BY <1>2, <1>3

LEMMA FixtureAgrees ==
  ASSUME JobOK, PInv, Typed, Adding, Agreed, AppendFixture
  PROVE  Agreed'
<1> SUFFICES ASSUME NEW e, e = job.path.dir PROVE Agreed'
  OBVIOUS
<1> DEFINE block == FixtureLines(job.fixture)
           joined == JoinedWithSection(Last(Suite.ini.lines))
           parts == [n \in DOMAIN block |-> PartsOfIniLine(block[n])]
           next == Exit(0)
           new == AppendBlock(Suite.ini, block, joined)
<1>1. /\ job.cmd = "new-test" /\ job.at = "register" /\ AppendTo("ini", block, joined, parts, next)
  BY Zenon DEF AppendFixture, At
<1>2. /\ \E value : Put("ini", value)
      /\ \/ faulted' /\ blemished' = blemished \cup {e}
         \/ /\ faulted' = faulted /\ next /\ Put("ini", new)
            /\ Suite.ini.ended => blemished' = blemished
            /\ ~Suite.ini.ended => blemished' = blemished \cup {e}
  <2> HIDE DEF block, joined, parts, next
  <2>1. AppendTo("ini", block, joined, parts, next) /\ job.cmd = "new-test"
    BY <1>1
  <2> QED
    BY <2>1, AppendToIs
<1>3. /\ e \in Dirs /\ suites'[e].toml = Suite.toml /\ \A d \in Dirs \ {e} : suites'[d] = suites[d]
      /\ Put("ini", new) => suites'[e].ini = new
  <2> HIDE DEF new
  <2> QED
    BY <1>1, <1>2, PutText
<1>4. blemished \subseteq blemished'
  BY <1>2
<1>5. ASSUME e \notin blemished' PROVE TestsAsk(e)'
  <2>1. /\ faulted' = faulted /\ Put("ini", new) /\ Suite.ini.ended /\ e \notin blemished
    <3> HIDE DEF next, new
    <3> QED
      BY <1>2, <1>5
  <2>2. ~faulted
    BY <1>1, <2>1 DEF Adding
  <2>3. job.isNew /\ ValidFixture(job.fixture)
    BY <1>1, <2>2 DEF Adding
  <2>4. /\ suites[e] = Suite /\ suites[e].ini.lines \in Seq(IniTextLines) /\ job.fixture \in Fixtures
    BY <1>1, <1>3 DEF Suite, Typed, TextsOK, TextOf
  <2>5. TestsAsk(e) /\ Awaited(e) = {job.fixture.name}
    BY <1>1, <1>3, <2>1 DEF Agreed, Awaited
  <2>6. suites'[e].ini = File(suites[e].ini.lines \o FixtureLines(job.fixture))
    <3>1. new = File(suites[e].ini.lines \o FixtureLines(job.fixture))
      BY <2>1, <2>4 DEF AppendBlock
    <3> QED
      BY <1>3, <2>1, <3>1
  <2>7. Registered(e) \cup {job.fixture.name} \subseteq Registered(e)'
    <3> DEFINE file == suites[e].ini
    <3>1. Names(ReadRegistryIni(file).fixtures) \cup {job.fixture.name}
            \subseteq Names(ReadRegistryIni(File(file.lines \o FixtureLines(job.fixture))).fixtures)
      BY <2>3, <2>4, FixtureRegisters
    <3> QED
      BY <2>6, <3>1 DEF Registered
  <2>8. suites'[e].toml = suites[e].toml
    BY <1>3, <2>4
  <2>9. Registered(e) \cup Awaited(e) \subseteq Registered(e)' \cup Awaited(e)'
    BY <2>5, <2>7
  <2> QED
    BY <2>5, <2>8, <2>9, AskMore DEF TestsAsk
<1> QED
  BY <1>1, <1>3, <1>4, <1>5, OneChanges

\* The user adds no test of his own to suite.toml: settings, other tables and lines of
\* whatever else only.  (A test written by hand may ask for any fixture.)
EditsAddNoTest == \A lines \in TomlEdits : \A k \in DOMAIN lines : ~OpensTest(lines[k])

LEMMA IdleAwaits == ASSUME job = NoJob PROVE \A d : Awaited(d) = {}
BY NoJobShape DEF Awaited

LEMMA EditTomlAgrees ==
  ASSUME EditsAddNoTest, PInv, Typed, Agreed, EditToml
  PROVE  Agreed'
<1> SUFFICES ASSUME NEW e, e = marker.dir PROVE Agreed'
  OBVIOUS
<1>1. FilesOK /\ job = NoJob
  BY Zenon DEF FilesOK, Typed, EditToml, MayEdit
<1>2. PICK lines \in TomlEdits, ended \in {TRUE, ~Unterminated} :
        LET old == suites[e].toml
            new == Saved(old.lines \o lines, ended)
        IN  /\ e \in Dirs /\ old.exists /\ lines \in Seq(TextLines)
            /\ TextOf(new, TextLines) /\ Edit("toml", new)
  BY <1>1, EditTomlIs
<1> DEFINE old == suites[e].toml
           all == old.lines \o lines
           new == Saved(all, ended)
<1>3. e \in Dirs /\ old.exists /\ lines \in Seq(TextLines) /\ Edit("toml", new)
  BY <1>2
<1>4. /\ \A d \in Dirs \ {e} : suites'[d] = suites[d]
      /\ suites'[e].toml = new /\ suites'[e].ini = suites[e].ini
      /\ job' = job /\ blemished' = blemished
  <2> HIDE DEF new
  <2> QED
    BY <1>3, EditText
<1>5. ASSUME e \notin blemished' PROVE TestsAsk(e)'
  <2> DEFINE S == Registered(e)
  <2>1. TestsAsk(e) /\ Awaited(e) = {}
    BY <1>1, <1>3, <1>4, <1>5, IdleAwaits DEF Agreed
  <2>2. old.lines \in Seq(TextLines)
    BY <1>1, <1>3 DEF FilesOK, TextsOK, TextOf
  <2>3. AllAsk(TomlTablesOf(old.lines), S)
    BY <1>3, <2>1, <2>2, ReadsTables DEF TestsAsk
  <2>4. \A k \in DOMAIN lines : ~OpensTest(lines[k])
    BY DEF EditsAddNoTest
  <2> HIDE DEF S
  <2>5. AllAsk(TomlTablesOf(all), S)
    <3> HIDE DEF old
    <3> QED
      BY <1>3, <2>2, <2>3, <2>4, LinesKeepAsking
  <2>6. all \in Seq(TextLines)
    <3> HIDE DEF old
    <3> QED
      BY <1>3, <2>2, JoinedLines
  <2> HIDE DEF all
  <2>7. new.exists /\ new.lines = all
    BY DEF Saved
  <2>8. ReadToml(new).tables = TomlTablesOf(all)
    BY <2>6, <2>7, ReadsTables
  <2>9. Registered(e)' = S
    BY <1>4 DEF Registered, S
  <2>10. S \subseteq Registered(e)' \cup Awaited(e)'
    BY <2>9
  <2> HIDE DEF new
  <2> QED
    BY <1>4, <2>5, <2>8, <2>10, AskMore DEF TestsAsk
<1>6. job.cmd # "new-test"
  BY <1>1, NoJobShape
<1> QED
  BY <1>4, <1>5, <1>6, OneChanges

LEMMA EditIniAgrees ==
  ASSUME PInv, Typed, Agreed, EditIni
  PROVE  Agreed'
<1> SUFFICES ASSUME NEW e, e = marker.dir PROVE Agreed'
  OBVIOUS
<1>1. FilesOK /\ job = NoJob
  BY Zenon DEF FilesOK, Typed, EditIni, MayEdit
<1>2. PICK new : /\ e \in Dirs /\ Edit("ini", new) /\ TextOf(new, IniTextLines) /\ new.exists
                 /\ IniEnd(new.lines) = IniEnd(suites[e].ini.lines)
  BY <1>1, EditIniIs
<1>3. /\ \A d \in Dirs \ {e} : suites'[d] = suites[d]
      /\ suites'[e].ini = new /\ suites'[e].toml = suites[e].toml
      /\ job' = job /\ blemished' = blemished
  BY <1>2, EditText
<1>4. ASSUME e \notin blemished' PROVE TestsAsk(e)'
  <2>1. TestsAsk(e) /\ Awaited(e) = {}
    BY <1>1, <1>2, <1>3, <1>4, IdleAwaits DEF Agreed
  <2>2. suites[e].ini.lines \in Seq(IniTextLines) /\ new.lines \in Seq(IniTextLines)
    BY <1>1, <1>2 DEF FilesOK, TextsOK, TextOf
  <2>3. Registered(e) \subseteq Registered(e)'
    <3>1. CASE suites[e].ini.exists
      <4>1. ReadRegistryIni(new) = ReadRegistryIni(suites[e].ini)
        BY <1>2, <2>2, <3>1, RegistryReads
      <4> QED
        BY <1>3, <4>1 DEF Registered
    <3>2. CASE ~suites[e].ini.exists
      <4>1. ReadRegistryIni(suites[e].ini).fixtures = <<>>
        BY <2>2, <3>2, RegistryReads
      <4>2. Registered(e) = {}
        BY <4>1 DEF Registered, Names
      <4> QED
        BY <4>2
    <3> QED
      BY <3>1, <3>2
  <2>4. Registered(e) \cup Awaited(e) \subseteq Registered(e)' \cup Awaited(e)'
    BY <2>1, <2>3
  <2> QED
    BY <1>3, <2>1, <2>4, AskMore DEF TestsAsk
<1>5. job.cmd # "new-test"
  BY <1>1, NoJobShape
<1> QED
  BY <1>3, <1>4, <1>5, OneChanges

LEMMA KillAgrees ==
  ASSUME Typed, Agreed, Kill
  PROVE  Agreed'
<1>1. Fault /\ UNCHANGED suites
  BY Zenon DEF Kill
<1>2. job.cmd = "new-test" => job.path.dir \in blemished'
  BY <1>1, FaultIs
<1> QED
  BY <1>1, <1>2, FaultBlemishes, StillSame, SameAgree

LEMMA StepAgrees ==
  ASSUME JobOK, PInv, Typed, Adding, Agreed, DriverStep
  PROVE  Agreed'
<1>1. CASE RemoveAll
  BY <1>1, RemoveAgrees
<1>2. CASE CreateToml \/ CreateIni
  <2>1. ~RemoveAll
    BY <1>2 DEF CreateToml, CreateIni, CreateFile, RemoveAll, At
  <2>2. blemished \subseteq blemished'
    BY <2>1, StepBlemishes
  <2>3. CASE CreateToml
    <3>1. CreateFile("create-toml", "toml", "create-ini")
      BY <2>3 DEF CreateToml
    <3> QED
      BY <2>2, <3>1, CreateAgrees
  <2>4. CASE CreateIni
    <3>1. CreateFile("create-ini", "ini", "adopt")
      BY <2>4 DEF CreateIni
    <3> QED
      BY <2>2, <3>1, CreateAgrees
  <2> QED
    BY <1>2, <2>3, <2>4
<1>3. CASE AppendEntry
  BY <1>3, EntryAgrees
<1>4. CASE AppendFixture
  BY <1>4, FixtureAgrees
<1>5. CASE ~(RemoveAll \/ CreateToml \/ CreateIni \/ AppendEntry \/ AppendFixture)
  <2>1. SameTexts
    BY <1>5, OtherFilesSame DEF DriverStep
  <2>2. blemished \subseteq blemished'
    BY <1>5, StepBlemishes
  <2>3. job.cmd = "new-test" => job.at # "register"
    <3> SUFFICES ASSUME job.cmd = "new-test" PROVE job.at # "register"
      OBVIOUS
    <3>1. WriteStub
      BY <1>5, NewTestSteps DEF Typed
    <3> QED
      BY <3>1 DEF WriteStub, At
  <2> QED
    BY <2>1, <2>2, <2>3, SameAgree
<1> QED
  BY <1>1, <1>2, <1>3, <1>4, <1>5

LEMMA AgreedStep ==
  ASSUME EditsAddNoTest, JobOK, PInv, Typed, Adding, Agreed, [DriverNext]_dvars
  PROVE  Agreed'
<1>1. CASE Give
  <2>1. job = NoJob /\ UNCHANGED suites /\ blemished' = blemished
    BY <1>1, GiveIs DEF NewTestBegun, Refused, OtherBegun
  <2>2. job.cmd # "new-test"
    BY <2>1, NoJobShape
  <2> QED
    BY <2>1, <2>2, StillSame, SameAgree
<1>2. CASE EditToml \/ EditIni
  BY <1>2, EditTomlAgrees, EditIniAgrees
<1>3. CASE UNCHANGED dvars
  <2>1. UNCHANGED <<suites, job, blemished>>
    BY <1>3 DEF dvars, history
  <2> QED
    BY <2>1 DEF Agreed, TestsAsk, Registered, Awaited
<1> QED
  BY <1>1, <1>2, <1>3, StepAgrees, KillAgrees DEF DriverNext

LEMMA AgreedInit == DriverInit => Agreed
<1> SUFFICES ASSUME DriverInit, NEW d \in Dirs PROVE TestsAsk(d)
  BY DEF Agreed
<1>1. suites[d] = NoSuite
  BY DEF DriverInit
<1>2. ~suites[d].toml.exists
  BY <1>1, AbsentIsText DEF Absent
<1> QED
  BY <1>2, NoTables DEF TestsAsk

\* A suite that reads well, and of which every test asks for a registered fixture.
LEMMA AgreedMeansFixtures ==
  ASSUME Typed, Agreed
  PROVE  TestsHaveFixtures
<1> SUFFICES ASSUME job = NoJob, NEW d \in Dirs \ blemished, Sound(suites[d]),
                    NEW i \in DOMAIN ReadSuiteToml(suites[d].toml).tests
             PROVE  ReadSuiteToml(suites[d].toml).tests[i].fixture \in Registered(d)
  BY Zenon DEF TestsHaveFixtures, ValidateFixtureReferences, Registered
<1> DEFINE file == suites[d].toml
           tables == ReadToml(file).tables
<1>1. ReadSuiteToml(file).ok
  BY DEF Sound
<1>2. file.lines \in Seq(TextLines)
  BY DEF Typed, TextsOK, TextOf
<1>3. file.exists
  <2>1. ~Reported(StartParser).ok
    BY StartIsParser, ReportedIs
  <2>2. ReadToml(file).ok
    BY <1>1, Zenon DEF ReadSuiteToml
  <2> QED
    BY <2>1, <2>2 DEF ReadToml
<1>4. tables = TomlTablesOf(file.lines)
  BY <1>2, <1>3, ReadsItsLines
<1>5. /\ ReadSuiteToml(file).tests = [n \in DOMAIN tables |-> EntryOf(tables[n])]
      /\ \A n \in DOMAIN tables : Mappable(tables[n])
  <2> HIDE DEF tables
  <2>1. ReadSuiteToml(file).tests = [n \in DOMAIN tables |-> EntryOf(tables[n])]
    BY <1>1, <1>2, <1>3, <1>4, SuiteReads
  <2>2. ASSUME NEW n \in DOMAIN tables PROVE Mappable(tables[n])
    BY <1>1, <1>2, <1>3, <1>4, SuiteReads
  <2> QED
    BY <2>1, <2>2
<1>6. AllAsk(tables, Registered(d))
  <2>1. TestsAsk(d) /\ Awaited(d) = {}
    BY IdleAwaits DEF Agreed
  <2> QED
    BY <2>1 DEF TestsAsk
<1> HIDE DEF tables
<1>7. i \in DOMAIN tables /\ ReadSuiteToml(file).tests[i] = EntryOf(tables[i])
  BY <1>5
<1> DEFINE table == tables[i]
           found == Find(table, "fixture", "String")
<1>8. found # {}
  BY <1>5, <1>7 DEF Mappable
<1>9. PICK v \in found : TRUE
  BY <1>8
<1>10. \A w \in found : w.text \in Registered(d)
  <2>1. Asks(table, Registered(d))
    BY <1>6, <1>7 DEF AllAsk
  <2> QED
    BY <2>1 DEF Asks, Find
<1>11. EntryOf(table).fixture = TextOr(found, "")
  BY DEF EntryOf
<1>12. TextOr(found, "") = (CHOOSE w \in found : TRUE).text
  BY <1>8, Zenon DEF TextOr
<1>13. (CHOOSE w \in found : TRUE) \in found
  BY <1>8
<1> QED
  BY <1>7, <1>10, <1>11, <1>12, <1>13

\* Unless new-test or rm was cut short, or lines ran together, no test of a suite asks for a
\* fixture that is not registered: suite.toml and registry.ini, which cmdNewTest of
\* Commands.cpp writes one after the other, agree between any two commands, for any tests,
\* fixtures and edits that open no test of their own, and whatever is removed and created anew.
THEOREM TestsAskForTheRegistered ==
  ASSUME EditsAddNoTest PROVE DriverSpec => []TestsHaveFixtures
<1>1. DriverSpec => []MInv
  BY MInit, MStep, PTL DEF DriverSpec
<1>2. MInv => JobOK
  BY DEF MInv
<1>3. JobOK /\ PInv /\ Typed /\ Adding /\ NewTestIsDeclared /\ [DriverNext]_dvars
        => Adding' /\ NewTestIsDeclared'
  BY AStep
<1>4. JobOK /\ PInv /\ Typed /\ Adding /\ Agreed /\ [DriverNext]_dvars => Agreed'
  BY AgreedStep
<1>5. Typed /\ Agreed => TestsHaveFixtures
  BY AgreedMeansFixtures
<1> QED
  BY <1>1, <1>2, <1>3, <1>4, <1>5, PInit, PStep, TInit, TStep, AInit, AgreedInit, PTL DEF DriverSpec
=============================================================================
