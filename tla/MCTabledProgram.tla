----------------------------- MODULE MCTabledProgram -----------------------------
(***************************************************************************)
(* Three predicates.  p and q name elements, r is a test: it has no        *)
(* variable.  A clause is a body of calls and an answer; "it" stands for   *)
(* the last answer, and as a call for a call of what it names.  Each       *)
(* program gives every predicate a clause that may recur, directly, left   *)
(* or through the others, and a second one, in either order.               *)
(***************************************************************************)
EXTENDS Naturals, Sequences

Table == {"p", "q", "r"}
MCGround == {"r"}
MCAnswer == Table \cup {"yes"}
Clause(body, out, s) == [body |-> body, out |-> out, it |-> s]

MCGoal == [body : UNION {[1..n -> Table \cup {"it"}] : n \in 0..2},
           out : MCAnswer \cup {"it"}, it : Table]
MCCalls(g) == IF g.body = <<>> THEN "done" ELSE IF g.body[1] = "it" THEN g.it ELSE g.body[1]
MCAfter(g, a) == [g EXCEPT !.body = Tail(@), !.it = IF a = "yes" THEN @ ELSE a]
MCGives(g) == IF g.out = "it" THEN g.it ELSE g.out
MCClauses(p, s) == p[s]

Two(B, C) == {<<b, c>> : b \in B, c \in C} \cup {<<c, b>> : b \in B, c \in C}

PClauses == Two({Clause(b, "it", "p") : b \in {<<"p">>, <<"q", "it">>, <<"r", "q">>, <<"q", "p">>}},
                {Clause(<<>>, "q", "p"), Clause(<<"q">>, "it", "p")})
QClauses == Two({Clause(b, "it", "q") : b \in {<<"p">>, <<"p", "it">>, <<"r">>, <<"q", "r">>}},
                {Clause(<<>>, "p", "q"), Clause(<<"p", "q">>, "q", "q")})
RClauses == Two({Clause(b, "yes", "r") : b \in {<<"r">>, <<"p">>, <<"q", "r">>, <<"q", "it">>}},
                {Clause(<<>>, "yes", "r"), Clause(<<"p", "r">>, "yes", "r")})

MCProgram == [p : PClauses, q : QClauses, r : RClauses]
MCQuery == <<"p", "r", "q">>

\* Those with the recurring clause first and the simpler second one.
MCFewPrograms ==
  {p \in MCProgram : p.p[2].body = <<>> /\ p.q[2].body = <<"p", "q">> /\ p.r[2].body = <<>>}
================================================================================
