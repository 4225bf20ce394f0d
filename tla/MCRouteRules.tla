----------------------------- MODULE MCRouteRules -----------------------------
(* Instances of RouteRules for TLC: an interchange of two stations, as Seven     *)
(* Sisters is, in a usual network, with a line that serves both stations, as the *)
(* Circle does Paddington, and with a loop.                                      *)
EXTENDS RouteRules, TLC

MCStationOrder == <<"a", "b", "h1", "h2">>
MCHubOf == [s \in {"a", "b", "h1", "h2"} |-> IF s \in {"h1", "h2"} THEN "H" ELSE "none"]
Way(there) == {there, Reverse(there)}
MCVariants ==
    [usual |-> [red |-> Way(<<"a", "h1", "b">>), blue |-> {<<"b", "h2">>}],
     both  |-> [red |-> Way(<<"a", "h1">>) \cup {<<"h2", "b">>}, blue |-> Way(<<"b", "h2">>)],
     loop  |-> [red |-> {<<"h1", "a", "b", "h1">>}, blue |-> {<<"h2", "a">>}]]
MCServes ==
    [n \in DOMAIN MCVariants |-> [l \in {"red", "blue"} |->
        UNION {Range(v) : v \in MCVariants[n][l]} \cup IF l = "blue" THEN {"b"} ELSE {}]]

Ids == {"a", "b", "h1", "h2", "H", "nowhere"}
Segments == [at : Ids, line : {"red", "blue", "none"}]
MCRequest == UNION {[1 .. n -> Segments] : n \in 1 .. 3} \cup {[i \in 1 .. 4 |-> [at |-> "a", line |-> "red"]]}
Named(stops) == [named |-> TRUE, stops |-> stops]
Nameless(stops) == [named |-> FALSE, stops |-> stops]
MCReport == [line : {"red", "blue"}, severity : {"severe", "good"},
             sections : {{}, {Named({"a"})}, {Named({"h1", "none"})}, {Named({"b"}), Named({"h2"})},
                         {Nameless({"a"})}, {Named({"none"})}, {Named({"a"}), Nameless({"b"})}}]
===============================================================================
