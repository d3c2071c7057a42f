--------------------------- MODULE ConfirmedAccounts ---------------------------
(***************************************************************************)
(* The accounts xAI has confirmed in one batch, which the modules about    *)
(* finishing an account share.                                             *)
(***************************************************************************)
EXTENDS FiniteSets

CONSTANT Accounts

ASSUME AccountsAssumption == IsFiniteSet(Accounts)
=============================================================================
