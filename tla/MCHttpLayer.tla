---------------------------- MODULE MCHttpLayer ----------------------------
(* Instances of HttpLayer for TLC. *)
EXTENDS HttpLayer

\* One well-formed request for every route, one that no route takes, one whose
\* parameter is no number and two whose body or query is not valid.
MCSends ==
  LET Concrete(path) == [k \in DOMAIN path |-> IF path[k] = Param THEN Number ELSE path[k]]
      Ask(verb, path, valid) == [verb |-> verb, path |-> path, valid |-> valid]
  IN {Ask(Routes[k].verb, Concrete(Routes[k].path), TRUE) : k \in DOMAIN Routes}
     \cup {Ask("DELETE", <<"orders", "cart", Number>>, TRUE),
           Ask("PATCH", <<"orders", "cart", "x">>, TRUE),
           Ask("POST", <<"orders">>, FALSE),
           Ask("POST", <<"users", "sign-in">>, FALSE)}
=============================================================================
