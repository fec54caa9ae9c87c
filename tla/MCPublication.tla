--------------------------- MODULE MCPublication ---------------------------
(***************************************************************************)
(* One branch at a time for TLC: main with both credentials, and each      *)
(* generated branch with one of them.                                      *)
(***************************************************************************)
EXTENDS Retention, TLC

MCCases == {[branch |-> "main", transport |-> "token"],
            [branch |-> "main", transport |-> "deploy_key"],
            [branch |-> "runtime", transport |-> "deploy_key"],
            [branch |-> "database", transport |-> "token"],
            [branch |-> "logs", transport |-> "deploy_key"]}

=============================================================================
