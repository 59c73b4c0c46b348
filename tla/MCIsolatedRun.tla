---- MODULE MCIsolatedRun ----
(***************************************************************************)
(* Instances of IsolatedRun.  A second has two milliseconds and a DWORD    *)
(* four bits, so that a timeout of eight seconds wraps to none at all, and *)
(* one of nine to that of a single second.                                 *)
(***************************************************************************)
EXTENDS IsolatedRun

Test(id, kind) == [id |-> id, kind |-> kind]

A  == Test(<<"a">>, "performance")
AB == Test(<<"a", "b">>, "performance")
BA == Test(<<"b", "a">>, "correctness")

\* Ids that --fbt takes for something else: a star, a blank, nothing.
Wild  == Test(<<"a", "*">>, "correctness")
Blank == Test(<<"a", " ", "b">>, "correctness")
Empty == Test(<<>>, "correctness")

MCPrograms  == {<<AB, BA>>, <<A, A>>, <<A, Wild>>, <<Blank, A>>, <<Empty, BA>>}
MCAdditions == {<<Test(<<"b">>, "performance")>>}
MCPatterns  == {<<>>, <<"a", "*">>, <<"*", "a">>, <<"*", "b", "*">>}
====
