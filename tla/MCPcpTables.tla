---------------------------- MODULE MCPcpTables ----------------------------
(* Instances of PcpTables for TLC. *)
EXTENDS PcpTables, TLC

MCSymmetry == Permutations(Metric) \cup Permutations(Label)
=============================================================================
