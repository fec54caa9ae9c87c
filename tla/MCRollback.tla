----------------------------- MODULE MCRollback -----------------------------
(* Rollback for model checking: the constants are given in the cfg files.  *)
EXTENDS Rollback
=============================================================================
