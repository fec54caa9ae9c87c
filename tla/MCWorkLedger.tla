--------------------------- MODULE MCWorkLedger ---------------------------
(* Two items that compete within one kind, or two items of different kinds.*)
EXTENDS WorkLedger, TLC

CONSTANTS i1, i2, ka, kb

MCOneKind == i1 :> ka @@ i2 :> ka
MCTwoKinds == i1 :> ka @@ i2 :> kb
=============================================================================
