------------------------------- MODULE MCUdp -------------------------------
(* Datagrams from elsewhere for the run of Udp: shorter than a             *)
(* head, and with a head that says too little.                             *)
EXTENDS Udp

StrayDatagrams == {[cmdid |-> None, length |-> 0, size |-> 1],
                   [cmdid |-> "echo", length |-> 0, size |-> 3]}
=============================================================================
