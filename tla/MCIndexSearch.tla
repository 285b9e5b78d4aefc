----------------------------- MODULE MCIndexSearch -----------------------------
(* Texts over one letter in both cases, a second letter and a blank; seconds *)
(* of four readings, written with up to two binary digits, which include     *)
(* those whose text order is not their order in time.                        *)
EXTENDS IndexSearch

CONSTANTS p1, p2, p3

\* "a b", "A" and "b A ba"; asked for "a", "B b a", "Ba aB", "-" and nothing.
MCTexts == {<<"a", "-", "b">>, <<"A">>, <<"b", "-", "A", "-", "b", "a">>}
MCQueries == {<<"a">>, <<"B", "-", "b", "-", "a">>,
              <<"B", "a", "-", "a", "B">>, <<"-">>, <<>>}
MCLowerOf == [c \in {"A", "B"} |-> IF c = "A" THEN "a" ELSE "b"]
Symmetry == Permutations(Paths)
MCLimits == {0, 1}
=============================================================================
