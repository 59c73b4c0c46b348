------------------------------ MODULE Wildcard ------------------------------
(***************************************************************************)
(* The matcher behind --fbt, which the Driver (Commands.cpp) and every     *)
(* generated program (HadesCodegen.cpp) have a copy of.  A text is the     *)
(* sequence of its characters.                                             *)
(***************************************************************************)
EXTENDS Naturals, Sequences

Star == "*"

\* Slip: a star at the end wants a character.
OnlyStars_Spent(pattern, p) == p = Len(pattern)

OnlyStars(pattern, p) == \A k \in p + 1 .. Len(pattern) : pattern[k] = Star

\* Where the loop is: p and t characters are consumed, star is where the pattern resumes
\* behind its last star (0 for npos), mark how much text that star has eaten.
Positions(pattern, text) ==
  {s \in [p : 0 .. Len(pattern), t : 0 .. Len(text), star : 0 .. Len(pattern), mark : 0 .. Len(text)] :
     s.star <= s.p /\ s.mark <= s.t}

Place(p, t, star, mark) == [p |-> p, t |-> t, star |-> star, mark |-> mark]

Start == Place(0, 0, 0, 0)

Here(pattern, p, c) == p < Len(pattern) /\ pattern[p + 1] = c

\* Neither character goes on, and there is no star to go back to.
Stuck(pattern, text, s) ==
  ~Here(pattern, s.p, text[s.t + 1]) /\ ~Here(pattern, s.p, Star) /\ s.star = 0

\* One turn.  A character that is equal goes first, also when the text itself has a star.
Turn(pattern, text, s) ==
  IF Here(pattern, s.p, text[s.t + 1]) THEN Place(s.p + 1, s.t + 1, s.star, s.mark)
  ELSE IF Here(pattern, s.p, Star) THEN Place(s.p + 1, s.t, s.p + 1, s.t)
  ELSE Place(s.star, s.mark + 1, s.star, s.mark + 1)

wildcardMatch(pattern, text) ==
  LET scan[s \in Positions(pattern, text)] ==
        IF s.t = Len(text) THEN OnlyStars(pattern, s.p)
        ELSE IF Stuck(pattern, text, s) THEN FALSE ELSE scan[Turn(pattern, text, s)]
  IN  scan[Start]

\* What a glob means, without an algorithm: the text can be cut into pieces, one for
\* every character of the pattern, of which a star takes any and the others themselves.
Glob(pattern, text) ==
  \E cut \in [0 .. Len(pattern) -> 0 .. Len(text)] :
    /\ cut[0] = 0 /\ cut[Len(pattern)] = Len(text)
    /\ \A k \in 1 .. Len(pattern) :
         IF pattern[k] = Star THEN cut[k - 1] <= cut[k]
         ELSE cut[k] = cut[k - 1] + 1 /\ text[cut[k]] = pattern[k]
=============================================================================
