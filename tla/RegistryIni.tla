----------------------------- MODULE RegistryIni -----------------------------
(***************************************************************************)
(* registry.ini, read and written (src/src/Core/src/Private/               *)
(* RegistryIO.cpp).  A line is a section header, a pair, a line without    *)
(* '=', or nothing.  Names, paths and types are texts; of a text it only   *)
(* matters whether it is empty, and whether a section header was glued to  *)
(* it, which no identifier and no type name survives.                      *)
(***************************************************************************)
EXTENDS TextFile

IniLines == [kind : STRING, name : STRING, text : STRING]

IniLine(kind, name, text) == [kind |-> kind, name |-> name, text |-> text]
Section(name)      == IniLine("section", name, "")
IniPair(key, text) == IniLine("pair", key, text)
IniJunk            == IniLine("junk", "", "")
IniComment         == IniLine("blank", "", "")

Glued == "[glued]"  \* a text that "[Fixture]" was appended to
Cut   == "cut"      \* what is left of a text of which the end is missing

IsIdentifier(text)  == text \notin {"", Glued}
IsCppTypeName(text) == text \notin {"", Glued}

JoinedWithSection(line) ==
  CASE line.kind = "section" -> Section(Glued)
    [] line.kind = "pair"    -> IniPair(line.name, Glued)
    [] OTHER                 -> line

PartsOfIniLine(line) == IF line.kind = "pair" THEN {IniPair(line.name, Cut), IniJunk} ELSE {IniJunk}

-----------------------------------------------------------------------------
RequiredKeys == {"header", "adapter", "chrono", "hash"}
OptionalKeys == {"extra_link_dir", "extra_link_target"}
IniKeys      == RequiredKeys \cup OptionalKeys

EmptyFixture(name) == [name |-> name, keys |-> [k \in IniKeys |-> ""]]

Registry(fixtures, current, inSection, ok) ==
  [fixtures |-> fixtures, current |-> current, inSection |-> inSection, ok |-> ok]
StartRegistry == Registry(<<>>, EmptyFixture(""), FALSE, TRUE)
Rejected(p)   == Registry(p.fixtures, p.current, p.inSection, FALSE)

ValidFixture(fixture) ==
  /\ \A k \in RequiredKeys : fixture.keys[k] # ""
  /\ IsIdentifier(fixture.name)
  /\ \A k \in {"adapter", "chrono", "hash"} : IsCppTypeName(fixture.keys[k])
  /\ \/ fixture.keys["extra_link_target"] = ""
     \/ IsIdentifier(fixture.keys["extra_link_target"])

FinishSection(p) ==
  IF ~p.inSection THEN p
  ELSE IF ValidFixture(p.current)
  THEN Registry(Append(p.fixtures, p.current), p.current, FALSE, p.ok)
  ELSE Registry(p.fixtures, p.current, FALSE, FALSE)

WithKey(fixture, key, text) ==
  [name |-> fixture.name, keys |-> [fixture.keys EXCEPT ![key] = text]]

\* A key that is given again replaces the value it had.
HandleIniPair(p, line) ==
  IF p.inSection /\ line.name \in IniKeys
  THEN Registry(p.fixtures, WithKey(p.current, line.name, line.text), TRUE, p.ok)
  ELSE Rejected(p)

HandleIniLine(p, line) ==
  CASE line.kind = "blank"   -> p
    [] line.kind = "section" ->
         LET finished == FinishSection(p)
         IN  Registry(finished.fixtures, EmptyFixture(line.name), TRUE, finished.ok)
    [] line.kind = "pair"    -> HandleIniPair(p, line)
    [] OTHER                 -> Rejected(p)

\* What the parser knows after each of the lines.
IniAfter(lines) ==
  LET after[n \in 0 .. Len(lines)] ==
        IF n = 0 THEN StartRegistry ELSE HandleIniLine(after[n - 1], lines[n])
  IN  after

ReadRegistryIni(file) ==
  IF file.exists THEN FinishSection(IniAfter(file.lines)[Len(file.lines)])
  ELSE Rejected(StartRegistry)

\* An optional key that is empty is not written.
OptionalLine(fixture, key) ==
  IF fixture.keys[key] = "" THEN <<>> ELSE <<IniPair(key, fixture.keys[key])>>

FixtureLines(fixture) ==
  <<Section(fixture.name), IniPair("header", fixture.keys["header"]),
    IniPair("adapter", fixture.keys["adapter"]), IniPair("chrono", fixture.keys["chrono"]),
    IniPair("hash", fixture.keys["hash"])>>
  \o OptionalLine(fixture, "extra_link_dir") \o OptionalLine(fixture, "extra_link_target")
  \o <<IniComment>>
=============================================================================
