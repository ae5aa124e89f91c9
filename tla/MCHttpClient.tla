---------------------------- MODULE MCHttpClient ----------------------------
(* HttpClient on small instances. *)
EXTENDS HttpClient, TLC

CONSTANTS c1, c2

=============================================================================
