------------------------------ MODULE MCSignIn ------------------------------
(* Three tokens: one stored or from a sign-in, and two renewals. *)
EXTENDS SignIn
=============================================================================
