------------------------------ MODULE MCRecovery ------------------------------
(* Recovery on small instances. *)
EXTENDS Recovery, TLC

(* One of the two steps that run in Spark, and the dbt step. *)
MCSteps == <<"raw", "dbt">>
=============================================================================
