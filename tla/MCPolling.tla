------------------------------- MODULE MCPolling -------------------------------
(* Instances of Polling for TLC. *)
EXTENDS Polling
CONSTANTS B1, B2
=============================================================================
