----------------------------- MODULE MCCatalogs -----------------------------
(* Constant values for the model-checking run of Catalogs. *)
EXTENDS Catalogs

Rule(t, p, on) ==
  [tenant |-> t, channel |-> "email", priority |-> p, accepts |-> {"a"}, enabled |-> on]

TwoDrafts == {Rule("t1", 1, TRUE), Rule("t2", 2, TRUE)}
SomeInvalid == TwoDrafts \cup {Rule("t1", 1, FALSE)}

(* None, or one that carries a number of the client's own. *)
TwoUploads == {<<>>, <<[number |-> 2, published |-> FALSE, text |-> "x"]>>}
=============================================================================
