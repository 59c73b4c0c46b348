------------------------------ MODULE SuiteToml ------------------------------
(***************************************************************************)
(* suite.toml, read and written (src/src/Core/src/Private/TomlIO.cpp and   *)
(* Configuration.cpp).                                                     *)
(*                                                                         *)
(* A line is what the parser makes of it once comment and blanks are       *)
(* stripped: a header [[name]], a header [name], a pair with its value, a  *)
(* line without '=' or with a bad key, or nothing.  A double is a number   *)
(* of steps of size 1/One.                                                 *)
(***************************************************************************)
EXTENDS Integers, TextFile

CONSTANTS
  UintRange,  \* 2^32, the range of the uint32_t counts of a Config
  One         \* 1.0, in the steps a double is counted in

ASSUME TomlAssumption == UintRange \in Nat \ {0} /\ One \in Nat \ {0}

-----------------------------------------------------------------------------
(* Values and lines                                                        *)

StringValue(s)  == [type |-> "String",  text |-> s,  num |-> 0]
IntegerValue(n) == [type |-> "Integer", text |-> "", num |-> n]
FloatValue(n)   == [type |-> "Float",   text |-> "", num |-> n]
Malformed       == [type |-> "none",    text |-> "", num |-> 0]

TomlValues == [type : STRING, text : STRING, num : Int]
TomlLines  == [kind : STRING, name : STRING, value : TomlValues]

Line(kind, name, value) == [kind |-> kind, name |-> name, value |-> value]
Header(name)     == Line("header", name, Malformed)
SingleBracket    == Line("single", "", Malformed)
Pair(key, value) == Line("pair", key, value)
Junk             == Line("junk", "", Malformed)
OpenHeader       == Line("junk", "[[", Malformed)
Comment          == Line("blank", "", Malformed)

\* What an unterminated last line reads as once "[[test]]" follows it: a header
\* swallows it ("[[test]][[test]]" is a header of another name), and so do a
\* comment and a value.
JoinedWithHeader(line) ==
  CASE line.kind = "header" \/ line = OpenHeader -> Header("foreign")
    [] line.kind = "pair"                        -> Pair(line.name, Malformed)
    [] OTHER                                     -> line

PartsOfLine(line) == IF line.kind = "header" THEN {OpenHeader} ELSE {Junk}

-----------------------------------------------------------------------------
(* The parser of TomlIO.cpp, one line at a time                            *)

Parser(tables, current, inTarget, ok) ==
  [tables |-> tables, current |-> current, inTarget |-> inTarget, ok |-> ok]
StartParser == Parser(<<>>, <<>>, FALSE, TRUE)
Reported(p) == Parser(p.tables, p.current, p.inTarget, FALSE)

CloseTable(p) ==
  IF p.inTarget THEN Parser(Append(p.tables, p.current), <<>>, FALSE, p.ok) ELSE p

OpensTest(line) == line.kind = "header" /\ line.name = "test"

HandleHeader(p, line) ==
  LET closed == CloseTable(p)
  IN  Parser(closed.tables, closed.current, OpensTest(line), p.ok /\ line.kind # "single")

HasKey(table, key) == \E i \in DOMAIN table : table[i].key = key

HandleKeyValue(p, line) ==
  CASE line.kind = "junk" -> Reported(p)
    [] line.kind # "junk" /\ ~p.inTarget -> p
    [] line.kind # "junk" /\ p.inTarget  ->
         IF HasKey(p.current, line.name) \/ line.value = Malformed THEN Reported(p)
         ELSE Parser(p.tables, Append(p.current, [key |-> line.name, value |-> line.value]), TRUE, p.ok)

HandleLine(p, line) ==
  CASE line.kind = "blank"               -> p
    [] line.kind \in {"header", "single"} -> HandleHeader(p, line)
    [] OTHER                             -> HandleKeyValue(p, line)

\* What the parser knows after each of the lines.
TomlAfter(lines) ==
  LET after[n \in 0 .. Len(lines)] ==
        IF n = 0 THEN StartParser ELSE HandleLine(after[n - 1], lines[n])
  IN  after

ReadToml(file) ==
  IF file.exists THEN CloseTable(TomlAfter(file.lines)[Len(file.lines)])
  ELSE Reported(StartParser)

-----------------------------------------------------------------------------
(* Tables and the entries of a suite (Configuration.cpp)                   *)

Counts    == {"warmup_count", "helper_thread_count", "fixed_slice_count"}
Doubles   == {"cv_threshold", "read_criticality"}
KnownKeys == {"id", "fixture", "kind"} \cup Counts \cup Doubles
Kinds     == {"performance", "correctness"}

\* The values of a key that have the type asked for: one or none.
Find(table, key, type) ==
  {table[i].value : i \in {j \in DOMAIN table :
                             table[j].key = key /\ table[j].value.type = type}}

TextOr(found, default) == IF found = {} THEN default ELSE (CHOOSE v \in found : TRUE).text
NumOr0(found)          == IF found = {} THEN 0 ELSE (CHOOSE v \in found : TRUE).num

\* A count is cast to uint32_t; a double that was written as an integer is not found.
SettingOf(table, key) ==
  IF key \in Counts THEN NumOr0(Find(table, key, "Integer")) % UintRange
                    ELSE NumOr0(Find(table, key, "Float"))

EntryOf(table) ==
  [id |-> TextOr(Find(table, "id", "String"), ""),
   fixture |-> TextOr(Find(table, "fixture", "String"), ""),
   kind |-> TextOr(Find(table, "kind", "String"), "performance"),
   settings |-> [key \in Counts \cup Doubles |-> SettingOf(table, key)]]

Mappable(table) ==
  /\ Find(table, "id", "String") # {} /\ Find(table, "fixture", "String") # {}
  /\ EntryOf(table).kind \in Kinds

OnlyKnownKeys(table) == \A i \in DOMAIN table : table[i].key \in KnownKeys

\* The entries of the first n tables, those that cannot be mapped left out.
Mapped(tables) ==
  LET entries[n \in 0 .. Len(tables)] ==
        IF n = 0 THEN <<>>
        ELSE IF Mappable(tables[n]) THEN Append(entries[n - 1], EntryOf(tables[n]))
        ELSE entries[n - 1]
  IN  entries

\* Whatever parsed is mapped; the result counts only if nothing was reported.
ReadSuiteToml(file) ==
  LET parsed == ReadToml(file)
  IN  [tests |-> Mapped(parsed.tables)[Len(parsed.tables)],
       ok |-> /\ parsed.ok
              /\ \A i \in DOMAIN parsed.tables :
                   Mappable(parsed.tables[i]) /\ OnlyKnownKeys(parsed.tables[i])]

\* A double is written in its shortest form, which for a (small) whole number
\* has no point and is read back as an integer.
Formatted(key, n) ==
  IF key \in Doubles /\ n % One # 0 THEN FloatValue(n)
  ELSE IntegerValue(IF key \in Doubles THEN n \div One ELSE n)

\* A setting that is zero is not written.
SettingLine(entry, key) ==
  IF entry.settings[key] = 0 THEN <<>> ELSE <<Pair(key, Formatted(key, entry.settings[key]))>>

EntryLines(entry) ==
  <<Header("test"), Pair("id", StringValue(entry.id)),
    Pair("fixture", StringValue(entry.fixture)), Pair("kind", StringValue(entry.kind))>>
  \o SettingLine(entry, "warmup_count") \o SettingLine(entry, "cv_threshold")
  \o SettingLine(entry, "helper_thread_count") \o SettingLine(entry, "read_criticality")
  \o SettingLine(entry, "fixed_slice_count") \o <<Comment>>
=============================================================================
