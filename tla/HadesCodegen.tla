---------------------------- MODULE HadesCodegen ----------------------------
(***************************************************************************)
(* What Codegen generates from the fixtures and tests it is handed         *)
(* (src/src/Codegen/src/Private/HadesCodegen.cpp).  A generated file is    *)
(* the data it carries; the C++ and CMake around it are left out.          *)
(***************************************************************************)
EXTENDS SuiteToml, RegistryIni

CONSTANT Micro  \* 10^-6, the last digit std::to_string prints, in the steps of a double

ASSUME CodegenAssumption == Micro \in Nat \ {0}

Names(fixtures) == {fixtures[i].name : i \in DOMAIN fixtures}

\* A test may only ask for a fixture of the registry.
ValidateFixtureReferences(fixtures, tests) ==
  \A i \in DOMAIN tests : tests[i].fixture \in Names(fixtures)

\* std::to_string rounds a double to six digits; what is left out is zero.
Printed(key, n) == IF key \in Doubles THEN ((n + Micro \div 2) \div Micro) * Micro ELSE n

\* Slip: one double is printed for both.
AppendConfigAssignments_Copied(entry) ==
  [entry EXCEPT !.settings = [key \in Counts \cup Doubles |->
     Printed(key, entry.settings[IF key \in Doubles THEN "read_criticality" ELSE key])]]

AppendConfigAssignments(entry) ==
  [entry EXCEPT !.settings = [key \in Counts \cup Doubles |-> Printed(key, entry.settings[key])]]

BuildFixtureIncludes(fixtures) == [i \in DOMAIN fixtures |-> fixtures[i].keys["header"]]

BuildMain(fixtures, tests) ==
  [fixtures |-> [i \in DOMAIN fixtures |-> fixtures[i].name],
   tests |-> [i \in DOMAIN tests |-> AppendConfigAssignments(tests[i])]]

\* Pairs of directory and target, the first of every target.
CollectExtraLinkTargets(fixtures) ==
  FoldLeft(LAMBDA found, f :
             LET pair == <<f.keys["extra_link_dir"], f.keys["extra_link_target"]>>
             IN  IF \/ "" \in {pair[1], pair[2]} \/ \E i \in DOMAIN found : found[i][2] = pair[2]
                 THEN found ELSE Append(found, pair),
           <<>>, fixtures)

\* The executable is named after the directory, trailing separators stripped.
SuiteExecutableName(path) == path.dir

BuildCMakeLists(path, fixtures) ==
  [name |-> SuiteExecutableName(path), targets |-> CollectExtraLinkTargets(fixtures)]
=============================================================================
