------------------------------ MODULE MCLedger ------------------------------
(* Constant values for the model-checking runs of Ledger. *)
EXTENDS Ledger, TLC

Symmetry == Permutations(Ids) \cup Permutations(Tenants)

(* A quota the daily limit of which binds before the burst limit, and one   *)
(* the burst and monthly limits of which do.                                *)
SmallQuotas == {[daily |-> 1, monthly |-> 2, burst |-> 2],
                [daily |-> 2, monthly |-> 2, burst |-> 1]}
=============================================================================
