---------------------------- MODULE MCApiClient -----------------------------
(* A PUT and a PATCH in flight together. *)
EXTENDS ApiClient

CONSTANTS put, patch

MCCalls == {put, patch}
MCIdempotent == {put}
=============================================================================
