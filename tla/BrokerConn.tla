----------------------------- MODULE BrokerConn -----------------------------
(***************************************************************************)
(* The one gRPC connection of pkg/rafay/brokerclient.go, shared by every   *)
(* call to the edge-broker: the batch sender (callBrokerOnce), and the     *)
(* status poller, the node-config controller and the cancel goroutines     *)
(* (callBroker, which redials and retries once after Unavailable).         *)
(*                                                                         *)
(* A step is one critical section of BrokerClient.mu, or the start or the  *)
(* end of an RPC: the connection a call holds may be closed by another     *)
(* call at any time in between.  What an RPC answers is told apart only    *)
(* as far as the code does: success, Unavailable, any other error.         *)
(***************************************************************************)
EXTENDS Naturals

CONSTANTS
  Senders,    \* calls that go through callBrokerOnce
  Readers,    \* calls that go through callBroker
  Conns,      \* *grpc.ClientConn values (one that nobody holds is fresh)
  NoConn,     \* nil
  MaxFaults   \* bound on outages, dial errors and failed RPCs

ASSUME BrokerConnAssumption ==
  /\ Senders \cap Readers = {} /\ NoConn \notin Conns /\ MaxFaults \in Nat

Callers == Senders \cup Readers

VARIABLES
  conn,            \* BrokerClient.conn
  open,            \* the connections that are dialled and not closed
  pc, cc, attempt, \* a call: its step, the connection in hand, which try it is on
  res,             \* has the last call ended in an error?
  up,              \* the broker can be reached
  faults

vars == <<conn, open, pc, cc, attempt, res, up, faults>>

(* The type of every variable; a call that makes an RPC holds a connection *)
(* and not nil.                                                            *)
TypeOK ==
  /\ conn \in Conns \cup {NoConn} /\ open \subseteq Conns
  /\ pc \in [Callers -> {"idle", "start", "rpc", "close", "redial"}]
  /\ cc \in [Callers -> Conns \cup {NoConn}]
  /\ \A p \in Callers : pc[p] # "idle" => cc[p] # NoConn
  /\ attempt \in [Callers -> 1..2]
  /\ res \in [Callers -> {"ok", "error"}]
  /\ up \in BOOLEAN /\ faults \in 0..MaxFaults

(* NewBrokerClient: nothing is dialled before the first call.              *)
Init ==
  /\ conn = NoConn /\ open = {}
  /\ pc = [p \in Callers |-> "idle"] /\ cc = [p \in Callers |-> NoConn]
  /\ attempt = [p \in Callers |-> 1] /\ res = [p \in Callers |-> "ok"]
  /\ up \in BOOLEAN /\ faults = 0

Fault == faults < MaxFaults /\ faults' = faults + 1

Fresh(k) == k # conn /\ k \notin open /\ \A p \in Callers : cc[p] # k

----------------------------------------------------------------------------
(* Under mu.                                                               *)

(* Seeded fault: getConn dials although there is a connection.             *)
AlwaysDial(p) ==
  \E k \in Conns : /\ Fresh(k) /\ conn' = k /\ open' = open \cup {k}
                   /\ cc' = [cc EXCEPT ![p] = k]

(* getConn: the current connection, or a new one.  grpc.NewClient connects *)
(* lazily and reconnects by itself, so dialling succeeds in an outage too. *)
GetConn(p) ==
  \/ /\ conn # NoConn
     /\ cc' = [cc EXCEPT ![p] = conn]
     /\ UNCHANGED <<conn, open>>
  \/ /\ conn = NoConn
     /\ \E k \in Conns : /\ Fresh(k) /\ conn' = k /\ open' = open \cup {k}
                         /\ cc' = [cc EXCEPT ![p] = k]

(* closeConnLocked closes whatever connection is current, if there is one. *)
CloseConnLocked == open' = open \ {conn} /\ conn' = NoConn

----------------------------------------------------------------------------
(* callBroker and callBrokerOnce.                                          *)

Ends(p, r) ==
  /\ pc' = [pc EXCEPT ![p] = "idle"] /\ cc' = [cc EXCEPT ![p] = NoConn]
  /\ attempt' = [attempt EXCEPT ![p] = 1] /\ res' = [res EXCEPT ![p] = r]

(* A call begins with a connection; its context or Karpenter's and the     *)
(* controllers' loops decide when.                                         *)
Call(p) ==
  /\ pc[p] = "idle" /\ GetConn(p)
  /\ pc' = [pc EXCEPT ![p] = "start"]
  /\ res' = [res EXCEPT ![p] = "ok"]
  /\ UNCHANGED <<attempt, up, faults>>

(* Seeded fault: the error of dialBroker is dropped.                       *)
NilConn(p) ==
  /\ pc' = [pc EXCEPT ![p] = "start"] /\ cc' = [cc EXCEPT ![p] = NoConn]
  /\ UNCHANGED <<attempt, res>>

(* getConn's error ends the call.                                          *)
ReturnsDialError(p) == Ends(p, "error")

(* dialBroker errs: no host, no readable certificate, a bad address.       *)
DialFails(p) ==
  /\ pc[p] \in {"idle", "redial"} /\ conn = NoConn /\ Fault
  /\ ReturnsDialError(p)
  /\ UNCHANGED <<conn, open, up>>

(* fn(cc): the RPC starts, unless the connection was closed meanwhile; the *)
(* client then answers Canceled at once, which is no reason to redial.     *)
Start(p) ==
  /\ pc[p] = "start"
  /\ \/ cc[p] \in open /\ pc' = [pc EXCEPT ![p] = "rpc"] /\ UNCHANGED <<cc, attempt, res>>
     \/ cc[p] \notin open /\ Ends(p, "error")
  /\ UNCHANGED <<conn, open, up, faults>>

(* Seeded fault: the connection is closed when a call is done with it.     *)
CloseWhenDone == CloseConnLocked

(* The connection outlives the call: "one long-lived *grpc.ClientConn".    *)
LeaveOpen == UNCHANGED <<conn, open>>

(* The broker answers (a rejected batch is an answer too).                 *)
Answered(p) ==
  /\ pc[p] = "rpc" /\ cc[p] \in open /\ up
  /\ Ends(p, "ok") /\ LeaveOpen
  /\ UNCHANGED <<up, faults>>

(* Seeded fault: the retry redials like the first try.                     *)
EveryTry(p) == TRUE

(* The second result of fn is returned as it is.                           *)
MayRedial(p) == attempt[p] = 1

(* Unavailable: there is no broker, or the connection was closed locally   *)
(* under the RPC.                                                          *)
Unavailable(p) ==
  /\ pc[p] = "rpc" /\ (cc[p] \notin open \/ ~up)
  /\ \/ MayRedial(p) /\ pc' = [pc EXCEPT ![p] = "close"] /\ UNCHANGED <<cc, attempt, res>>
     \/ ~MayRedial(p) /\ Ends(p, "error")
  /\ UNCHANGED <<conn, open, up, faults>>

(* Any other error is returned and leaves the connection alone: Canceled   *)
(* or the deadline of the call, without or with a broker.                  *)
OtherError(p) ==
  /\ pc[p] = "rpc"
  /\ IF cc[p] \in open /\ up THEN Fault ELSE UNCHANGED faults
  /\ Ends(p, "error")
  /\ UNCHANGED <<conn, open, up>>

(* Seeded fault: the retry goes ahead without closeConn.                   *)
KeepConn == UNCHANGED <<conn, open>>

(* closeConn after Unavailable.                                            *)
DropConn == CloseConnLocked

(* ... by callBroker, which goes on to retry, or by callBrokerOnce, whose  *)
(* call must not be issued twice.                                          *)
CloseConn(p) ==
  /\ pc[p] = "close" /\ DropConn
  /\ \/ p \in Readers /\ pc' = [pc EXCEPT ![p] = "redial"] /\ UNCHANGED <<cc, attempt, res>>
     \/ p \in Senders /\ Ends(p, "error")
  /\ UNCHANGED <<up, faults>>

(* callBroker's second getConn.                                            *)
Redial(p) ==
  /\ pc[p] = "redial" /\ GetConn(p)
  /\ pc' = [pc EXCEPT ![p] = "start"]
  /\ attempt' = [attempt EXCEPT ![p] = 2]
  /\ UNCHANGED <<res, up, faults>>

----------------------------------------------------------------------------
BrokerDown == up /\ Fault /\ up' = FALSE /\ UNCHANGED <<conn, open, pc, cc, attempt, res>>

BrokerUp == ~up /\ up' = TRUE /\ UNCHANGED <<conn, open, pc, cc, attempt, res, faults>>

Steps(p) ==
  Start(p) \/ Answered(p) \/ Unavailable(p) \/ OtherError(p) \/ CloseConn(p) \/ Redial(p)

Next ==
  \/ \E p \in Callers : Call(p) \/ DialFails(p) \/ Steps(p)
  \/ BrokerDown \/ BrokerUp

Spec == Init /\ [][Next]_vars

----------------------------------------------------------------------------
(* Safety.                                                                 *)

(* No connection leaks: whatever calls close and redial at the same time,  *)
(* an open connection is the one in BrokerClient.conn, which is open or    *)
(* nil.  A second open one would never be closed; a closed one left in     *)
(* conn would fail every call from then on.                                *)
NoConnLeaks == open = {conn} \ {NoConn}

(* "On Unavailable the connection is closed so the next call gets a fresh  *)
(* one" (callBrokerOnce): once a call has closed, the connection it failed *)
(* on is closed, though closeConn closes the current one, which another    *)
(* call may have dialled since.                                            *)
FailedConnClosed == \A p \in Callers : pc[p] = "redial" => cc[p] \notin open

----------------------------------------------------------------------------
(* Liveness.  Goroutines run, an RPC ends by its deadline, outages end and  *)
(* the loops call again.                                                    *)
Fairness ==
  /\ \A p \in Callers : WF_vars(Call(p)) /\ WF_vars(Steps(p))
  /\ WF_vars(BrokerUp)

FairSpec == Spec /\ Fairness

(* A call ends after at most two tries, during an outage and while others  *)
(* close its connection.                                                   *)
CallReturns == \A p \in Callers : pc[p] # "idle" ~> pc[p] = "idle"

(* Nobody holds a connection that is closed or about to be.  Calls are     *)
(* seconds apart and RPCs take milliseconds, so this recurs; if it did not, *)
(* a call that closes the connection of another, which then fails and      *)
(* closes the next one, could keep every caller failing.                   *)
Calm ==
  \A p \in Callers : pc[p] # "idle" => cc[p] = conn /\ pc[p] \in {"start", "rpc"}

(* The client recovers: one calm moment after the last outage, and no call *)
(* fails again.                                                            *)
Recovers == []<>Calm => <>[](\A p \in Callers : res[p] # "error")

=============================================================================
