---------------------------- MODULE MCAsyncJobs ----------------------------
(* Background jobs with a few registrations; see the configurations.       *)
EXTENDS AsyncJobs
=============================================================================
