---------------------------- MODULE MCHttpPolling ----------------------------
(* Model values for the servers and data sources of HttpPolling. *)
EXTENDS HttpPolling

CONSTANTS v1, v2, s1, s2
=============================================================================
