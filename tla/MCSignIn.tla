------------------------------ MODULE MCSignIn ------------------------------
(* Three accounts of one user.                                             *)
EXTENDS SignIn, TLC

CONSTANTS anna, ben, carl

AccountsDef == {anna, ben, carl}
Interchangeable == Permutations(AccountsDef)
============================================================================
