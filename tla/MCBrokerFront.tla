--------------------------- MODULE MCBrokerFront ----------------------------
(* BrokerFront for TLC: the mixes of ops and faults that are explored.     *)
EXTENDS BrokerFront, TLC

CONSTANTS b1, b2, r1, i1, i2

MCAims == {
    [ops |-> {b1, b2}, faults |-> {"kill"}],
    [ops |-> {b1, r1}, faults |-> {"lock"}],
    [ops |-> {r1}, faults |-> {"kill", "crash", "web", "fetch"}],
    [ops |-> {r1, i1}, faults |-> {"crash", "raise"}],
    [ops |-> {i1}, faults |-> {"stop", "web", "raise", "logout"}],
    [ops |-> {i1, i2}, faults |-> {"stop", "crash", "logout"}]}
=============================================================================
