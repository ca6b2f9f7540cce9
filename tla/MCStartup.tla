------------------------------ MODULE MCStartup ------------------------------
(***************************************************************************)
(* Instances of Startup for TLC.                                           *)
(***************************************************************************)
EXTENDS Startup

Comment == [kind |-> "comment"]
Line(t, a, hits) == [kind |-> "fields", type |-> t, action |-> a, hits |-> hits]

Lines == {Comment, Line("?", "DROP", {1}), Line("HTTP", "?", {1}),
          Line("HTTP", "DROP", {1}), Line("HTTP", "FORWARD", {1, 2}),
          Line("HTTPS", "DROP", {1, 2}), Line("HTTPS", "FORWARD", {1})}

(* A start that succeeds if nothing fails, and its variations. *)
Good == [file |-> <<Line("HTTP", "DROP", {1})>>, w |-> 2, M |-> << >>, h |-> FALSE,
         lcores |-> 0 .. 5, main |-> 0, ports |-> 1]

Starts ==
    {[Good EXCEPT !.file = f] : f \in UNION {[1 .. n -> Lines] : n \in 0 .. 3}}
    \cup {[Good EXCEPT !.w = n, !.lcores = ls, !.main = m] :
             n \in {-1, 0, 1, 2, 3, 5}, ls \in {1 .. 4, 1 .. 5, 0 .. 5, 1 .. 7}, m \in {1, 3}}
    \cup {[Good EXCEPT !.M = <<m>>] : m \in {0, 1}}
    \cup {[Good EXCEPT !.h = TRUE], [Good EXCEPT !.ports = 0]}
=============================================================================
