----------------------------- MODULE MCRecords ------------------------------
(* Constant values for the model-checking runs of Records. *)
EXTENDS Records

Symmetry == Permutations(Ids) \cup Permutations(Keys)

(* A claim, its retry, a cancellation and one repeated. *)
SomeMoves == {<<"queued", "processing">>, <<"processing", "queued">>,
              <<"queued", "canceled">>, <<"canceled", "canceled">>}

(* One source reports twice, and once what no receipt may say. *)
SomeReports ==
  [source : Sources, sequence : {1, 2}, status : {"delivered"}] \cup
  [source : Sources, sequence : {1}, status : {"queued"}]
=============================================================================
