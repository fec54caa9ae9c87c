----------------------------- MODULE MCLiveApply -----------------------------
(* Plans of two operations of every kind; one or two external edits.       *)
EXTENDS LiveApply
=============================================================================
