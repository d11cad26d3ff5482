---------------------------- MODULE MCTcpClient ----------------------------
(* Message sets for the runs of TcpClient: a short and a long message and  *)
(* one no callback is registered for; and one that is larger than ibuf.    *)
EXTENDS TcpClient

FittingMsgs == {[cmdid |-> "echo", length |-> 1], [cmdid |-> "echo", length |-> 2],
                [cmdid |-> "other", length |-> 1]}
Msgs == FittingMsgs \cup {[cmdid |-> "echo", length |-> 5]}
=============================================================================
