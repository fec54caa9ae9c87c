------------------------ MODULE MCKeyAdministration ------------------------
(***************************************************************************)
(* An operator who rotates the key, one who initializes the repository,    *)
(* and one who does both, with the executor called as a library.           *)
(***************************************************************************)
EXTENDS KeyAdministration, TLC

CONSTANTS r1, r2

MCRequests == {r1, r2}

MCPlans == {
  {r1} \X ({"generate"} \cup Rotations) \cup {r2} \X {"generate", "rotate_prepare"},
  {r1} \X {"generate", "test", "initialize"} \cup {<<r2, "initialize">>},
  {r1} \X {"generate", "initialize", LibraryCall} \cup {r2} \X Rotations}

(* Only what an operator can reach.                                        *)
MCOperatorPlans == {{r1} \X {"generate", "initialize"}}

=============================================================================
