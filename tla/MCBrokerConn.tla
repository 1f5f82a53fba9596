---------------------------- MODULE MCBrokerConn ----------------------------
(* A small instance of BrokerConn for TLC.                                 *)
EXTENDS BrokerConn, TLC

=============================================================================
