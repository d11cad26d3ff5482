----------------------------- MODULE MCTcpServer -----------------------------
(* Model values for the runs of TcpServer.                                 *)
EXTENDS TcpServer, TLC

CONSTANTS c1, c2, c3

TwoClients == {c1, c2}
ThreeClients == {c1, c2, c3}

Setup(t, m, n) == [threads |-> t, limit |-> m, late |-> n]

(* With and without workers, with room for everybody, with a full table,   *)
(* and with no room for any connection.                                    *)
AllSetups == {Setup(0, 1, 0), Setup(0, 2, 0), Setup(0, 4, 0), Setup(1, 1, 0),
              Setup(2, 2, 0), Setup(2, 5, 0), Setup(2, 5, 1)}

OneWorker == {Setup(1, 3, 0)}

(* Peers are interchangeable: no operator tells one from another.  Used    *)
(* only where no liveness property is checked.                             *)
ClientSymmetry == Permutations(Clients)
=============================================================================
