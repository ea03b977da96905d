------------------------------ MODULE MCAdminUi ------------------------------
(* An instance of module AdminUi for TLC: accounts of one project. *)
EXTENDS AdminUi

CONSTANT Shop

OneProject == [a \in Accounts |-> Shop]
Everybody == {Accounts}

\* Accounts are interchangeable.
AccountSymmetry == Permutations(Accounts)
=============================================================================
