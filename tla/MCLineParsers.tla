--------------------------- MODULE MCLineParsers ---------------------------
(* Instances of LineParsers for TLC. *)
EXTENDS LineParsers

MCNoRefusal == <<"none", "none">>

MCKey == 1..2
=============================================================================
