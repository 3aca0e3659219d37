-------------------------- MODULE MCConfigSources --------------------------
(* Instances of ConfigSources for TLC. *)
EXTENDS ConfigSources

MCSetting == {"port", "verbose", "max_udp_packet_size"}

MCDefault == [port |-> 7, verbose |-> 8, max_udp_packet_size |-> 9]
=============================================================================
