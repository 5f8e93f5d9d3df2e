------------------------------ MODULE MCCliJobs ------------------------------
(* Two or three tasks of any templates.                                     *)
EXTENDS CliJobs
=============================================================================
