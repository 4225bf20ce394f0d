----------------------------- MODULE MCRouteIndex -----------------------------
(* Instances of RouteIndex for TLC: two lines that meet at c; the engineering    *)
(* works reroute the first.                                                      *)
EXTENDS RouteIndex

CONSTANTS a, b, c, d, x, red, blue, usual, works

MCVariants == [n \in {usual, works} |->
    (red :> IF n = usual THEN {<<a, b, c>>, <<a, x>>} ELSE {<<a, x, c>>})
    @@ (blue :> {<<c, d>>})]
MCServes == (red :> {a, b, c, x}) @@ (blue :> {c, d})

S(s, l) == [at |-> s, line |-> l]
AC  == <<S(a, red), S(c, None)>>
AX  == <<S(a, red), S(x, None)>>
CD  == <<S(c, blue), S(d, None)>>
ACD == <<S(a, red), S(c, blue), S(d, None)>>
MCJourney == {AC, AX, CD, ACD}
RaceJourney == {AC, AX, ACD}
Symmetry == Permutations(Proc)
===============================================================================
