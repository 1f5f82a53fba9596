\* The sender, the poller and another reader through an outage or a failed call.
SPECIFICATION FairSpec
CONSTANTS
  Senders = {s}
  Readers = {r1, r2}
  Conns = {k1, k2, k3, k4}
  NoConn = NoConn
  MaxFaults = 1
INVARIANTS TypeOK NoConnLeaks FailedConnClosed
PROPERTIES CallReturns Recovers
