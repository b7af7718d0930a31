----------------------------- MODULE MCWebClient -----------------------------
(* Three submissions, each of which may still run when the next begins. *)
EXTENDS WebClient

MCJobs == 1..3
=============================================================================
