---------------------------- MODULE MCDeployment ----------------------------
(* The chain of stages is fixed; only the bounds are chosen.               *)
EXTENDS Deployment
=============================================================================
