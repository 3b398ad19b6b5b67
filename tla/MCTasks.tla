------------------------------ MODULE MCTasks ------------------------------
(* Tasks on small instances: the values of its constants are in the .cfg.  *)
EXTENDS Tasks
=============================================================================
