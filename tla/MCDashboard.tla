----------------------------- MODULE MCDashboard -----------------------------
(* Dashboard on a small instance. *)
EXTENDS Dashboard, TLC

CONSTANTS h1, h2

Ask(range, q, node) ==
  [range |-> range, limit |-> 100, sort |-> "cpu", q |-> q, node |-> node, unattributed |-> FALSE]

\* The default view with and without a blank filter, a range out of bounds, the same
\* range with a node name too long to be used, and two filters.
Asked == {Ask(300, None, None), Ask(300, <<" ">>, None), Ask(9000, None, None),
          Ask(3600, None, <<"long">>), Ask(300, <<"Web">>, None), Ask(300, None, <<"n1">>)}
Shorten(t) == CASE t = <<" ">> -> <<>> [] t = <<"Web">> -> <<"web">>
LongNames == {<<"long">>}

\* Handlers are interchangeable.
Handlers == Permutations(Handler)
==============================================================================
