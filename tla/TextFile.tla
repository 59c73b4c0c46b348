------------------------------ MODULE TextFile ------------------------------
(***************************************************************************)
(* The text files that Hades and its user both write: suite.toml and       *)
(* registry.ini.  A file is its lines and whether the last one ends in a   *)
(* newline.  Hades appends to it in append mode, without reading it        *)
(* (writeWholeFile of TomlIO.cpp, writeRegistryIni of RegistryIO.cpp).     *)
(***************************************************************************)
EXTENDS Naturals, Sequences, SequencesExt

Absent              == [exists |-> FALSE, lines |-> <<>>, ended |-> TRUE]
Saved(lines, ended) == [exists |-> TRUE, lines |-> lines, ended |-> ended]
File(lines)         == Saved(lines, TRUE)

\* A line that was not terminated runs on into the first line of what is
\* appended; joined is what the two read as together.
AppendBlock(file, block, joined) ==
  IF file.ended
  THEN File(file.lines \o block)
  ELSE File(Front(file.lines) \o <<joined>> \o Tail(block))

\* What an append may leave behind when it is cut short: some whole lines, and
\* of the next one a part (one of parts), or all of it but its newline.
CutAppends(file, block, joined, parts) ==
  LET left(n) == IF n = 0 THEN file ELSE AppendBlock(file, SubSeq(block, 1, n), joined)
      open(n, line) == Saved(Append(left(n).lines, line), FALSE)
  IN  {left(n) : n \in 0 .. Len(block) - 1} \cup
      UNION {{open(n - 1, line) : line \in parts[n] \cup {block[n]}}
               : n \in (IF file.ended THEN 1 ELSE 2) .. Len(block) - 1}
=============================================================================
