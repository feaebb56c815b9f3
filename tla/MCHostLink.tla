----------------------------- MODULE MCHostLink -----------------------------
(* Instance of HostLink for TLC. *)
EXTENDS HostLink
=============================================================================
