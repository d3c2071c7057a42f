------------------------------ MODULE MCFinishing ------------------------------
(* Two workers, each finishing one account; pages without and with a bad mark. *)
EXTENDS Finishing, TLC

Symmetry == Permutations(Accounts)

CleanAndMarked ==
    {[sources |-> {0}, policies |-> {"allow"}],
     [sources |-> {0, 1}, policies |-> {"allow"}]}
=============================================================================
