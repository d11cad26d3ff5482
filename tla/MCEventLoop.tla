---------------------------- MODULE MCEventLoop ----------------------------
(* Small instances of EventLoop.                                           *)
EXTENDS EventLoop

CONSTANTS d1, d2

TwoFds == {d1, d2}
=============================================================================
