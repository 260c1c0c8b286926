------------------------- MODULE MCCredentialStore -------------------------
(***************************************************************************)
(* Instances of CredentialStore for TLC.                                   *)
(***************************************************************************)
EXTENDS CredentialStore, TLC

Symmetric == Permutations(Requests)
=============================================================================
