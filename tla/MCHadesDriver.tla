---- MODULE MCHadesDriver ----
(***************************************************************************)
(* Instances of HadesDriver: one suite whose files are looked at closely,  *)
(* and two suites, each with two spellings of its path.                    *)
(***************************************************************************)
EXTENDS HadesDriver

MCConfigs == <<"Debug", "Release">>

Flags(name, header, dir, target) ==
  [name |-> name,
   keys |-> [k \in IniKeys |->
               CASE k = "header" -> header [] k = "extra_link_dir" -> dir
                 [] k = "extra_link_target" -> target [] OTHER -> "T"]]

\* A fixture and one that links a library; a fixture given without its flags.
MCNewFixtures == {Flags("F", "F.h", "", ""), Flags("G", "G.h", "lib", "L")}
MCOneFixture  == {Flags("F", "F.h", "", ""), EmptyFixture("G")}

MCNewTests == {[id |-> "a", kind |-> "performance"], [id |-> "b", kind |-> "correctness"]}
MCOneTest  == {[id |-> "a", kind |-> "performance"]}

\* A double that rounds, one written as a whole number, a count, a negative count.
MCTomlEdits ==
  {<<Pair("cv_threshold", FloatValue(38)), Pair("read_criticality", IntegerValue(1)),
     Pair("fixed_slice_count", IntegerValue(5)), Pair("warmup_count", IntegerValue(-1))>>}
MCNoEdits == {}
====
