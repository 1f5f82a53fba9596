-------------------------- MODULE BrokerConnProofs --------------------------
(***************************************************************************)
(* Type correctness of BrokerConn, and that the shared connection neither  *)
(* leaks nor is handed to a retry after it failed, for any number of       *)
(* callers and connections.  The three invariants are inductive together:  *)
(* closing the current connection closes the failed one because there is   *)
(* no other open connection.                                               *)
(***************************************************************************)
EXTENDS BrokerConn, TLAPS

IInv == TypeOK /\ NoConnLeaks /\ FailedConnClosed

LEMMA InitIInv == Init => IInv
  BY BrokerConnAssumption DEF Init, IInv, TypeOK, NoConnLeaks, FailedConnClosed

\* getConn leaves one open connection, the one it returns, which is not the
\* failed connection of a call about to redial.
LEMMA GetConnOpens ==
  ASSUME IInv, NEW p \in Callers, GetConn(p)
  PROVE  /\ conn' \in Conns /\ open' = {conn'}
         /\ cc' = [cc EXCEPT ![p] = conn']
         /\ \A q \in Callers : pc[q] = "redial" => cc[q] \notin open'
  <1>1. CASE conn # NoConn
    BY <1>1, BrokerConnAssumption
    DEF GetConn, IInv, TypeOK, NoConnLeaks, FailedConnClosed, Fresh
  <1>2. CASE conn = NoConn
    BY <1>2, BrokerConnAssumption
    DEF GetConn, IInv, TypeOK, NoConnLeaks, FailedConnClosed, Fresh
  <1> QED BY <1>1, <1>2

LEMMA NextIInv == IInv /\ [Next]_vars => IInv'
  <1> SUFFICES ASSUME IInv, [Next]_vars PROVE IInv' OBVIOUS
  <1> USE BrokerConnAssumption
  <1>1. ASSUME NEW p \in Callers, Call(p) PROVE IInv'
    <2>1. /\ conn' \in Conns /\ open' = {conn'} /\ cc' = [cc EXCEPT ![p] = conn']
          /\ \A q \in Callers : pc[q] = "redial" => cc[q] \notin open'
      BY <1>1, GetConnOpens DEF Call
    <2> QED BY <1>1, <2>1 DEF Call, IInv, TypeOK, NoConnLeaks, FailedConnClosed
  <1>2. ASSUME NEW p \in Callers, Redial(p) PROVE IInv'
    <2>1. /\ conn' \in Conns /\ open' = {conn'} /\ cc' = [cc EXCEPT ![p] = conn']
          /\ \A q \in Callers : pc[q] = "redial" => cc[q] \notin open'
      BY <1>2, GetConnOpens DEF Redial
    <2> QED BY <1>2, <2>1 DEF Redial, IInv, TypeOK, NoConnLeaks, FailedConnClosed
  <1>3. ASSUME NEW p \in Callers, DialFails(p) PROVE IInv'
    BY <1>3 DEF DialFails, ReturnsDialError, Ends, Fault, IInv, TypeOK, NoConnLeaks,
      FailedConnClosed
  <1>4. ASSUME NEW p \in Callers, Start(p) PROVE IInv'
    BY <1>4 DEF Start, Ends, IInv, TypeOK, NoConnLeaks, FailedConnClosed
  <1>5. ASSUME NEW p \in Callers, Answered(p) PROVE IInv'
    BY <1>5 DEF Answered, Ends, LeaveOpen, IInv, TypeOK, NoConnLeaks, FailedConnClosed
  <1>6. ASSUME NEW p \in Callers, Unavailable(p) PROVE IInv'
    BY <1>6 DEF Unavailable, MayRedial, Ends, IInv, TypeOK, NoConnLeaks, FailedConnClosed
  <1>7. ASSUME NEW p \in Callers, OtherError(p) PROVE IInv'
    BY <1>7 DEF OtherError, Ends, Fault, IInv, TypeOK, NoConnLeaks, FailedConnClosed
  <1>8. ASSUME NEW p \in Callers, CloseConn(p) PROVE IInv'
    <2>1. open' = {} /\ conn' = NoConn
      BY <1>8 DEF CloseConn, DropConn, CloseConnLocked, IInv, NoConnLeaks
    <2> QED BY <1>8, <2>1
      DEF CloseConn, Ends, IInv, TypeOK, NoConnLeaks, FailedConnClosed, Callers
  <1>9. CASE BrokerDown
    <2>1. faults' \in 0..MaxFaults
      <3>1. faults \in 0..MaxFaults BY DEF IInv, TypeOK
      <3>2. faults < MaxFaults /\ faults' = faults + 1 BY <1>9 DEF BrokerDown, Fault
      <3> QED BY <3>1, <3>2
    <2>2. up' \in BOOLEAN
      BY <1>9 DEF BrokerDown
    <2> QED BY <1>9, <2>1, <2>2, Zenon
      DEF BrokerDown, IInv, TypeOK, NoConnLeaks, FailedConnClosed
  <1>10. CASE BrokerUp
    BY <1>10 DEF BrokerUp, IInv, TypeOK, NoConnLeaks, FailedConnClosed
  <1>11. CASE UNCHANGED vars
    BY <1>11 DEF vars, IInv, TypeOK, NoConnLeaks, FailedConnClosed
  <1> QED
    BY <1>1, <1>2, <1>3, <1>4, <1>5, <1>6, <1>7, <1>8, <1>9, <1>10, <1>11 DEF Next, Steps

LEMMA AlwaysIInv == Spec => []IInv
  BY InitIInv, NextIInv, PTL DEF Spec

(* Every reachable state of the client is well typed: a call never makes   *)
(* an RPC on a nil connection.                                             *)
THEOREM TypeCorrect == Spec => []TypeOK
  <1>1. IInv => TypeOK BY DEF IInv
  <1> QED BY <1>1, AlwaysIInv, PTL

(* getConn and closeConn, called by any number of goroutines in any order, *)
(* never leave an open connection outside BrokerClient.conn, nor a closed  *)
(* one in it.                                                              *)
THEOREM ConnectionsDoNotLeak == Spec => []NoConnLeaks
  <1>1. IInv => NoConnLeaks BY DEF IInv
  <1> QED BY <1>1, AlwaysIInv, PTL

(* The connection on which a call failed with Unavailable is closed before *)
(* the call redials, whoever closed or dialled in between.                 *)
THEOREM RedialIsFresh == Spec => []FailedConnClosed
  <1>1. IInv => FailedConnClosed BY DEF IInv
  <1> QED BY <1>1, AlwaysIInv, PTL

=============================================================================
