----------------------------- MODULE HadesDriver -----------------------------
(***************************************************************************)
(* The commands of hades-driver as steps over the files of its suites      *)
(* (src/src/Driver/src/Private/Commands.cpp and SuiteContext.cpp).         *)
(*                                                                         *)
(* One command runs at a time; between two commands the user may edit      *)
(* suite.toml and registry.ini.  A command can be killed between any two   *)
(* of its writes, and a write can fail: with a report, or without one,     *)
(* because what is still buffered when a file is closed is written by      *)
(* fclose or by the stream's destructor, whose failure nobody looks at.    *)
(* With several directories and two spellings of each, the module covers   *)
(* adoption; with one it covers the text of the files.                     *)
(***************************************************************************)
EXTENDS HadesCodegen

CONSTANTS
  Dirs,          \* directories of suites
  Spellings,     \* "plain", and "slash" for a path with a trailing separator
  Configs,       \* the CMake configs, in the order Driver looks for executables
  NewTests,      \* the tests new-test may be asked for: an id and a kind
  NewFixtures,   \* what the flags of new-test may say of a fixture
  TomlEdits,     \* lines the user may add to suite.toml
  Unterminated,  \* whether the user's editor may leave the last line without newline
  Commands,      \* the commands the user gives
  CommandLimit,  \* bound on the commands given
  FaultLimit,    \* bound on kills and failed writes
  EditLimit      \* bound on the edits of the user

Paths == [dir : Dirs, spelling : Spellings]

ASSUME DriverAssumption ==
  /\ "" \notin Dirs /\ Spellings \subseteq {"plain", "slash"} /\ Configs \in Seq(STRING)
  /\ NewTests \subseteq [id : STRING \ {""}, kind : Kinds]
  /\ NewFixtures \subseteq [name : STRING, keys : [IniKeys -> STRING]]
  /\ TomlEdits \subseteq Seq(TomlLines) \ {<<>>}
  /\ Unterminated \in BOOLEAN /\ {CommandLimit, FaultLimit, EditLimit} \subseteq Nat

VARIABLES
  marker,    \* .hades-suite: the path it holds, NoPath if there is none or it is empty
  suites,    \* the files of every directory
  job,       \* the command in hand
  commands, faults, edits,   \* counted against their bounds
  last,      \* history: how the last command ended
  before,    \* history: the files of its directory when that new-test or validate began
  faulted,   \* history: something went wrong in that command
  adopted,   \* history: the suite that is adopted in the words of the README
  mishap,    \* history: what went wrong with the marker since it was last written: "none";
             \* "stray", an rm could not clear it; "lost", an adoption truncated it and failed
  blemished  \* history: directories in which new-test or rm was cut short or lines ran together

counters == <<commands, faults, edits>>
history  == <<last, before, faulted, adopted, mishap, blemished>>
dvars    == <<marker, suites, job, counters, history>>

NoPath     == [dir |-> "", spelling |-> "plain"]
NoText     == [whole |-> FALSE]
Text(data) == [whole |-> TRUE, data |-> data]
NoSuite ==
  [toml |-> Absent, ini |-> Absent, stubs |-> {}, header |-> NoText, main |-> NoText,
   cmake |-> NoText, build |-> {}, scratch |-> {}]
Request(fixtures, tests) == [fixtures |-> fixtures, tests |-> tests]
NewEntry(id, fixture, kind) ==
  [id |-> id, fixture |-> fixture, kind |-> kind, settings |-> [k \in Counts \cup Doubles |-> 0]]
Job(cmd, at) ==
  [cmd |-> cmd, at |-> at, path |-> NoPath, config |-> "Debug", isNew |-> FALSE,
   fixture |-> EmptyFixture(""), entry |-> NewEntry("", "", "performance"),
   request |-> Request(<<>>, <<>>)]
NoJob == Job("none", "idle")
NoResult == [job |-> NoJob, code |-> 0]

DriverInit ==
  /\ marker = NoPath /\ suites = [d \in Dirs |-> NoSuite] /\ job = NoJob
  /\ commands = 0 /\ faults = 0 /\ edits = 0
  /\ last = NoResult /\ before = NoSuite /\ faulted = FALSE
  /\ adopted = "" /\ mishap = "none" /\ blemished = {}

-----------------------------------------------------------------------------
(* Steps of a command                                                      *)

Suite == suites[job.path.dir]
At(cmd, at) == job.at = at /\ job.cmd = cmd
Goto(at) == job' = [job EXCEPT !.at = at] /\ UNCHANGED last
Exit(code) ==
  /\ job' = NoJob
  /\ last' = [job |-> [job EXCEPT !.at = "idle", !.request = NoJob.request], code |-> code]
Put(field, value) == suites' = [suites EXCEPT ![job.path.dir][field] = value]

Blemish(d) == blemished' = blemished \cup {d}
Fault ==
  /\ faults < FaultLimit /\ faults' = faults + 1 /\ faulted' = TRUE
  /\ IF job.cmd \in {"new-test", "rm"} THEN Blemish(job.path.dir) ELSE UNCHANGED blemished
NoFault == UNCHANGED <<faults, faulted, blemished>>
Quiet   == UNCHANGED <<commands, edits, before>>
KeepAdoption == UNCHANGED <<marker, adopted, mishap>>

\* The commands find their suite through the marker.
Loads(path) == marker = path /\ path # NoPath /\ suites[path.dir].toml.exists

Begin(command, path) ==
  /\ job = NoJob /\ commands < CommandLimit /\ command.cmd \in Commands
  /\ commands' = commands + 1
  /\ job' = [command EXCEPT !.path = path]
  /\ before' = IF command.cmd \in {"new-test", "validate"} THEN suites[path.dir] ELSE NoSuite
  /\ last' = NoResult /\ faulted' = FALSE
  /\ UNCHANGED <<marker, suites, faults, edits, adopted, mishap, blemished>>

\* A command that gives up before its first write.
Refuse(command, code) ==
  /\ job = NoJob /\ commands < CommandLimit /\ command.cmd \in Commands
  /\ commands' = commands + 1
  /\ last' = [job |-> [command EXCEPT !.at = "idle"], code |-> code]
  /\ before' = NoSuite /\ faulted' = FALSE
  /\ UNCHANGED <<marker, suites, job, faults, edits, adopted, mishap, blemished>>

\* The marker of a suite that was removed stays behind.
Strays == mishap' = IF marker.dir = job.path.dir THEN "stray" ELSE mishap

\* The process is killed.
Kill ==
  /\ job # NoJob /\ Fault /\ Exit(-1)
  /\ IF At("rm", "unadopt") THEN Strays ELSE UNCHANGED mishap
  /\ Quiet /\ UNCHANGED <<marker, suites, adopted>>

\* A write that goes wrong, with a report or without one.
ReportOrLose(next) == Fault /\ (Exit(1) \/ Goto(next))

-----------------------------------------------------------------------------
(* regenerateSuite and Codegen::resolve, a part of init-suite, run and     *)
(* validate                                                                *)

AfterResolve(cmd) ==
  CASE cmd = "run" -> "configure" [] cmd = "validate" -> "clear" [] OTHER -> "done"

ReadSuite ==
  LET registry == ReadRegistryIni(Suite.ini)
      manifest == ReadSuiteToml(Suite.toml)
  IN  /\ job.at = "read"
      /\ IF registry.ok /\ manifest.ok
              /\ ValidateFixtureReferences(registry.fixtures, manifest.tests)
         THEN job' = [job EXCEPT !.at = "header",
                                 !.request = Request(registry.fixtures, manifest.tests)]
              /\ UNCHANGED last
         ELSE Exit(1)
      /\ NoFault /\ Quiet /\ UNCHANGED suites /\ KeepAdoption

\* One of the three files of resolve, in its order.
Resolve(field, data, next) ==
  /\ job.at = field
  /\ \/ Put(field, Text(data)) /\ NoFault /\ Goto(next)
     \/ Put(field, NoText) /\ ReportOrLose(next)
  /\ Quiet /\ KeepAdoption

WriteHeader == Resolve("header", BuildFixtureIncludes(job.request.fixtures), "main")
WriteMain   == Resolve("main", BuildMain(job.request.fixtures, job.request.tests), "cmake")
WriteCMake  == Resolve("cmake", BuildCMakeLists(job.path, job.request.fixtures),
                       AfterResolve(job.cmd))

-----------------------------------------------------------------------------
(* Adoption                                                                *)

\* The marker is opened, which truncates it, and written.  Its one line is still buffered
\* when adoptSuite tests the stream: if it cannot be written then, nobody hears of it.
Adopt(next) ==
  /\ \/ marker' = job.path /\ adopted' = job.path.dir /\ mishap' = "none" /\ NoFault /\ next
     \/ /\ marker' = NoPath /\ mishap' = "lost" /\ Fault
        /\ \/ UNCHANGED adopted /\ Exit(1)
           \/ adopted' = job.path.dir /\ next
     \/ KeepAdoption /\ Fault /\ Exit(1)
  /\ Quiet /\ UNCHANGED suites

FindSuite(path) ==
  LET command == Job("find-suite", "adopt")
  IN  IF suites[path.dir].toml.exists THEN Begin(command, path) ELSE Refuse(command, 1)

AdoptFound == At("find-suite", "adopt") /\ Adopt(Exit(0))

InitSuite(path) == Begin(Job("init-suite", "create-toml"), path)

\* A file that is there is kept; whether a new one was written is not checked.
CreateFile(at, field, next) ==
  /\ At("init-suite", at) /\ Goto(next)
  /\ \/ Put(field, IF Suite[field].exists THEN Suite[field]
                   ELSE File(<<IF field = "toml" THEN Comment ELSE IniComment>>)) /\ NoFault
     \/ ~Suite[field].exists /\ Put(field, File(<<>>)) /\ Fault
     \/ ~Suite[field].exists /\ UNCHANGED suites /\ Fault
  /\ Quiet /\ KeepAdoption

CreateToml == CreateFile("create-toml", "toml", "create-ini")
CreateIni  == CreateFile("create-ini", "ini", "adopt")
AdoptNew   == At("init-suite", "adopt") /\ Adopt(Goto("read"))
InitDone   ==
  /\ At("init-suite", "done") /\ Exit(0)
  /\ NoFault /\ Quiet /\ UNCHANGED suites /\ KeepAdoption

RemoveSuite(path) ==
  LET command == Job("rm", "remove")
  IN  IF suites[path.dir].toml.exists THEN Begin(command, path) ELSE Refuse(command, 1)

\* What of a suite's files may stay behind when remove_all fails.
Leftover(s) ==
  [toml : {Absent, s.toml}, ini : {Absent, s.ini}, stubs : SUBSET s.stubs,
   header : {NoText, s.header}, main : {NoText, s.main}, cmake : {NoText, s.cmake},
   build : SUBSET s.build, scratch : SUBSET s.scratch]

RemoveAll ==
  /\ At("rm", "remove")
  /\ \/ suites' = [suites EXCEPT ![job.path.dir] = NoSuite]
        /\ faults' = faults /\ faulted' = faulted /\ blemished' = blemished \ {job.path.dir}
        /\ adopted' = (IF adopted = job.path.dir THEN "" ELSE adopted)
        /\ Goto("unadopt")
     \/ /\ \E left \in Leftover(Suite) : suites' = [suites EXCEPT ![job.path.dir] = left]
        /\ Fault /\ Exit(1) /\ UNCHANGED adopted
  /\ Quiet /\ UNCHANGED <<marker, mishap>>

\* Slip: the path is compared as it was given, the marker holds an absolute one.
ClearSuiteIfCurrent_Unresolved ==
  /\ At("rm", "unadopt") /\ UNCHANGED marker
  /\ IF marker # job.path THEN Strays ELSE UNCHANGED mishap
  /\ Exit(0) /\ NoFault /\ Quiet /\ UNCHANGED <<suites, adopted>>

\* Only a marker of the same spelling is cleared; that it cannot be read or removed is not
\* reported.
ClearSuiteIfCurrent ==
  /\ At("rm", "unadopt")
  /\ \/ marker = job.path /\ marker' = NoPath /\ mishap' = "none" /\ NoFault
     \/ marker # job.path /\ UNCHANGED marker /\ Strays /\ NoFault
     \/ marker = job.path /\ UNCHANGED marker /\ Strays /\ Fault
  /\ Exit(0) /\ Quiet /\ UNCHANGED <<suites, adopted>>

-----------------------------------------------------------------------------
(* new-test                                                                *)

ValidFlags(fixture) == ValidFixture(fixture)

NewTest(id, kind, flags) ==
  LET registry == ReadRegistryIni(suites[marker.dir].ini)
      known == {i \in DOMAIN registry.fixtures : registry.fixtures[i].name = flags.name}
      first == CHOOSE i \in known : \A j \in known : i <= j
      command ==
        [Job("new-test", "stub") EXCEPT
           !.entry = NewEntry(id, flags.name, kind), !.isNew = (known = {}),
           !.fixture = IF known = {} THEN flags ELSE registry.fixtures[first]]
  IN  CASE ~Loads(marker) \/ ~registry.ok -> Refuse(Job("new-test", "stub"), 1)
        [] Loads(marker) /\ registry.ok /\ known = {} /\ ~ValidFlags(flags) -> Refuse(command, 2)
        [] OTHER -> Begin(command, marker)

\* scaffold: the stub, over one that is there, then the entry of the test.
WriteStub ==
  /\ At("new-test", "stub")
  /\ Put("stubs", Suite.stubs \cup {<<job.entry.id, job.entry.fixture>>})
  /\ \/ NoFault /\ Goto("entry")
     \/ ReportOrLose("entry")
  /\ Quiet /\ KeepAdoption

\* An append of block to a file, in whole, or cut short with or without a report.
AppendTo(field, block, joined, parts, next) ==
  /\ \/ /\ Put(field, AppendBlock(Suite[field], block, joined)) /\ next
        /\ IF Suite[field].ended THEN NoFault
           ELSE Blemish(job.path.dir) /\ UNCHANGED <<faults, faulted>>
     \/ /\ Fault /\ (Exit(1) \/ next)
        /\ \E file \in CutAppends(Suite[field], block, joined, parts) : Put(field, file)
  /\ Quiet /\ KeepAdoption

AppendToToml(block, next) ==
  AppendTo("toml", block, JoinedWithHeader(Last(Suite.toml.lines)),
           [n \in DOMAIN block |-> PartsOfLine(block[n])], next)

\* Slip: the fixture is taken for registered when its test is written.
AppendEntry_Only ==
  /\ At("new-test", "entry") /\ AppendToToml(EntryLines(job.entry), Exit(0))

AppendEntry ==
  /\ At("new-test", "entry")
  /\ AppendToToml(EntryLines(job.entry), IF job.isNew THEN Goto("register") ELSE Exit(0))

AppendFixture ==
  LET block == FixtureLines(job.fixture)
  IN  /\ At("new-test", "register")
      /\ AppendTo("ini", block, JoinedWithSection(Last(Suite.ini.lines)),
                  [n \in DOMAIN block |-> PartsOfIniLine(block[n])], Exit(0))

-----------------------------------------------------------------------------
(* run and validate.  CMake is external: it needs the three generated      *)
(* files in whole and no directory added twice, and may fail all the same. *)

StartRun(cmd, config) ==
  LET command == [Job(cmd, "read") EXCEPT !.config = config]
  IN  IF Loads(marker) THEN Begin(command, marker) ELSE Refuse(command, 1)

Configurable ==
  /\ Suite.header.whole /\ Suite.main.whole /\ Suite.cmake.whole
  /\ \A i, j \in DOMAIN Suite.cmake.data.targets :
       Suite.cmake.data.targets[i][1] = Suite.cmake.data.targets[j][1] => i = j

Built == [config |-> job.config, name |-> Suite.cmake.data.name, program |-> Suite.main.data]

\* Configure and build into one of the two build directories.
BuildInto(at, field, next, failed) ==
  /\ job.at = at
  /\ \/ /\ Configurable /\ Goto(next)
        /\ Put(field, {e \in Suite[field] : e.config # job.config \/ e.name # Suite.cmake.data.name}
                      \cup {Built})
     \/ failed
  /\ NoFault /\ Quiet /\ KeepAdoption

BuildRun == BuildInto("configure", "build", "locate", Exit(1) /\ UNCHANGED suites)

\* Driver's own name of the executable: the last part of the path, which is
\* empty when the path ends in a separator.
DriverExecutableName(path) == IF path.spelling = "slash" THEN "hades_suite" ELSE path.dir

\* Slip: the configs in their own order.
FindGeneratedExecutable_AnyConfig(build, name, config) ==
  LET at(i) == {e \in build : e.name = name /\ e.config = Configs[i]}
      found == {i \in DOMAIN Configs : at(i) # {}}
  IN  IF found = {} THEN {} ELSE at(CHOOSE i \in found : \A j \in found : i <= j)

\* The executables of that name, the one of the config asked for first.
FindGeneratedExecutable(build, name, config) ==
  LET order == <<config>> \o Configs
      at(i) == {e \in build : e.name = name /\ e.config = order[i]}
      found == {i \in DOMAIN order : at(i) # {}}
  IN  IF found = {} THEN {} ELSE at(CHOOSE i \in found : \A j \in found : i <= j)

Executable == FindGeneratedExecutable(Suite.build, DriverExecutableName(job.path), job.config)

Locate ==
  /\ job.at = "locate"
  /\ IF Executable = {} THEN Exit(1) ELSE Goto("launch")
  /\ NoFault /\ Quiet /\ UNCHANGED suites /\ KeepAdoption

\* The exit code is the program's.
Launch ==
  /\ job.at = "launch" /\ (Exit(0) \/ Exit(1))
  /\ NoFault /\ Quiet /\ UNCHANGED suites /\ KeepAdoption

\* Slip: the build of run goes before the scratch build is known to work.
ClearScratch_DropsBuild ==
  /\ job.at = "clear" /\ Goto("scratch")
  /\ suites' = [suites EXCEPT ![job.path.dir].scratch = {}, ![job.path.dir].build = {}]
  /\ NoFault /\ Quiet /\ KeepAdoption

\* remove_all, of which a part may stay behind unnoticed.
RemoveTree(field) ==
  \/ Put(field, {}) /\ NoFault
  \/ Fault /\ \E left \in SUBSET Suite[field] : Put(field, left)

ClearScratch ==
  /\ job.at = "clear" /\ Goto("scratch")
  /\ RemoveTree("scratch")
  /\ Quiet /\ KeepAdoption

BuildScratch == BuildInto("scratch", "scratch", "drop", Put("scratch", {}) /\ Exit(1))

\* Nothing can be renamed onto what stays behind of run's build.
DropBuild ==
  /\ job.at = "drop"
  /\ \/ Put("build", {}) /\ NoFault /\ Goto("promote")
     \/ Fault /\ Exit(1) /\ \E left \in SUBSET Suite.build : Put("build", left)
  /\ Quiet /\ KeepAdoption

Promote ==
  /\ job.at = "promote"
  /\ \/ /\ suites' = [suites EXCEPT ![job.path.dir].build = Suite.scratch,
                                    ![job.path.dir].scratch = {}]
        /\ NoFault /\ Exit(0)
     \/ UNCHANGED suites /\ Fault /\ Exit(1)
  /\ Quiet /\ KeepAdoption

-----------------------------------------------------------------------------
(* The user                                                                *)

Edit(field, file) ==
  /\ edits' = edits + 1
  /\ suites' = [suites EXCEPT ![marker.dir][field] = file]
  /\ last' = NoResult
  /\ UNCHANGED <<marker, job, commands, faults, before, faulted, adopted, mishap, blemished>>

MayEdit == job = NoJob /\ edits < EditLimit /\ Loads(marker)

\* Lines at the end of suite.toml, with or without a newline after the last.
EditToml ==
  /\ MayEdit
  /\ \E lines \in TomlEdits, ended \in {TRUE, ~Unterminated} :
       Edit("toml", Saved(suites[marker.dir].toml.lines \o lines, ended))

\* registry.ini is saved without the blank lines and the newline at its end.
EditIni ==
  /\ MayEdit /\ Unterminated /\ suites[marker.dir].ini.lines # <<>>
  /\ LET lines == suites[marker.dir].ini.lines
         blank(n) == \A i \in n + 1 .. Len(lines) : lines[i].kind = "blank"
         kept == CHOOSE n \in 0 .. Len(lines) : blank(n) /\ \A m \in 0 .. n - 1 : ~blank(m)
     IN  Edit("ini", Saved(SubSeq(lines, 1, kept), kept = 0))

Give ==
  \/ \E path \in Paths : InitSuite(path) \/ FindSuite(path) \/ RemoveSuite(path)
  \/ \E test \in NewTests, flags \in NewFixtures : NewTest(test.id, test.kind, flags)
  \/ \E cmd \in {"run", "validate"}, i \in DOMAIN Configs : StartRun(cmd, Configs[i])

DriverStep ==
  \/ ReadSuite \/ WriteHeader \/ WriteMain \/ WriteCMake
  \/ AdoptFound \/ CreateToml \/ CreateIni \/ AdoptNew \/ InitDone
  \/ RemoveAll \/ ClearSuiteIfCurrent
  \/ WriteStub \/ AppendEntry \/ AppendFixture
  \/ BuildRun \/ Locate \/ Launch \/ ClearScratch \/ BuildScratch \/ DropBuild \/ Promote

DriverNext == Give \/ DriverStep \/ Kill \/ EditToml \/ EditIni

DriverSpec == DriverInit /\ [][DriverNext]_dvars

-----------------------------------------------------------------------------
(* Properties                                                              *)

Declared(s) ==
  BuildMain(ReadRegistryIni(s.ini).fixtures, ReadSuiteToml(s.toml).tests)

\* What run is about to start is the program that registry.ini and suite.toml
\* declare, whatever was built before, in whichever config, and whatever went
\* wrong in earlier commands ("one source of truth", README.md:23).  A suite
\* adopted under a path that ends in a separator is never started at all.
ProgramIsDeclared ==
  /\ job.at = "launch" => {e.program : e \in Executable} = {Declared(Suite)}
  /\ job.at = "locate" /\ job.path.spelling = "plain" => Executable # {}

Sound(s) == ReadSuiteToml(s.toml).ok /\ ReadRegistryIni(s.ini).ok

Adds(old, new, entry) ==
  /\ Sound(new)
  /\ ReadSuiteToml(new.toml).tests = Append(ReadSuiteToml(old.toml).tests, entry)
  /\ entry.fixture \in Names(ReadRegistryIni(new.ini).fixtures)

NewTestDone ==
  /\ last.job.cmd = "new-test" /\ last.code = 0 /\ ~faulted /\ job = NoJob
  /\ Sound(before)

\* A new-test that reports success has added its test to those of suite.toml, in
\* the last place, and its fixture is registered: also when an earlier new-test of
\* the same test was killed half-way.  (It must find both files ended.)
NewTestIsDeclared ==
  NewTestDone /\ before.toml.ended /\ before.ini.ended =>
    Adds(before, suites[last.job.path.dir], last.job.entry)

\* The same without looking at the ends of the files: an append leaves what is
\* there as it is (TomlIOTests.cpp:227).
AppendKeepsTests ==
  NewTestDone => Adds(before, suites[last.job.path.dir], last.job.entry)

\* Unless new-test or rm was cut short, or lines ran together, no test of a suite
\* asks for a fixture that is not registered: suite.toml and registry.ini, two files
\* written one after the other, agree between any two commands.
TestsHaveFixtures ==
  job = NoJob =>
    \A d \in Dirs \ blemished : Sound(suites[d]) =>
      ValidateFixtureReferences(ReadRegistryIni(suites[d].ini).fixtures,
                                ReadSuiteToml(suites[d].toml).tests)

\* A setting the user wrote reaches the started program: a double that was written
\* with a point within half of the last digit that is printed, a count within
\* uint32_t as it is.
Within(key, value, n) ==
  CASE key \in Counts -> value.type = "Integer" /\ value.num \in 0 .. UintRange - 1 => n = value.num
    [] OTHER           -> value.type = "Float" => 2 * (n - value.num) \in -Micro .. Micro

SettingsReachProgram ==
  job.at = "launch" =>
    LET tables == ReadToml(Suite.toml).tables
        tests == (CHOOSE e \in Executable : TRUE).program.tests
    IN  \A i \in DOMAIN tables, key \in Counts \cup Doubles : \A j \in DOMAIN tables[i] :
          tables[i][j].key = key => Within(key, tables[i][j].value, tests[i].settings[key])

\* Between two commands the marker names the suite that was adopted last, by a command
\* that said so (README.md:53), and none once an rm has deleted that suite.  There are two
\* exceptions, each by its cause: the marker strays if that rm was killed before it got to
\* the marker, could not remove it, or spelled the path differently; and an adoption that
\* truncates the marker and then fails leaves one that names no suite, never another.
MarkerIsAdopted ==
  job = NoJob =>
    /\ mishap = "none" => marker.dir = adopted
    /\ mishap = "lost" => marker = NoPath

\* "Deletes the marker if it currently points at v_SuiteDir" (SuiteContext.h:37): the same
\* for every spelling, while nothing goes wrong.
RemovedSuiteIsUnadopted == job = NoJob => marker.dir = adopted

\* A validate that succeeds leaves the program that is declared in run's build, and
\* undisturbed nothing else; one that fails leaves run's build as it was, or, if it was
\* killed or could not remove or rename in between, a part of that: what it built
\* itself never gets there ("only promotes on success", README.md:94).
ValidatePromotesWhatBuilt ==
  last.job.cmd = "validate" /\ job = NoJob /\ last.job.path # NoPath =>
    LET s == suites[last.job.path.dir]
        own == {e \in s.build : e.config = last.job.config}
    IN  /\ last.code = 0 => /\ {e.program : e \in own} = {Declared(s)}
                            /\ faulted \/ own = s.build
        /\ last.code # 0 => s.build \subseteq before.build /\ (faulted \/ s.build = before.build)
=============================================================================
