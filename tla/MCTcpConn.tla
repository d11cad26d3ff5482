----------------------------- MODULE MCTcpConn -----------------------------
(* Messages for the run of TcpConn.  With HeadLen = 2 and LengthLimit = 3  *)
(* they are a message without a body, a short and a long one, one no       *)
(* callback is registered for, and one with a length beyond the limit.     *)
EXTENDS TcpConn

Msgs == {[cmdid |-> "echo", length |-> 0],
         [cmdid |-> "echo", length |-> 1], [cmdid |-> "echo", length |-> 3],
         [cmdid |-> "other", length |-> 1], [cmdid |-> "echo", length |-> 4]}
=============================================================================
