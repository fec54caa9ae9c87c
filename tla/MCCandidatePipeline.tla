------------------------ MODULE MCCandidatePipeline ------------------------
(* CandidatePipeline on small instances: candidates are interchangeable.   *)
EXTENDS CandidatePipeline, TLC

CandidateSymmetry == Permutations(Candidates)

=============================================================================
