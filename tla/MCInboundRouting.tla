-------------------------- MODULE MCInboundRouting --------------------------
(* Instances of InboundRouting for TLC. *)
EXTENDS InboundRouting

CONSTANTS m1, m2, m3, m4

\* m2 is m1 delivered again, without a key; m4 is m3 delivered again under a
\* new external id and with the same key.
Four == {m1, m2, m3, m4}
Ids == [a \in Four |-> IF a = m2 THEN m1 ELSE a]
Keys == [a \in Four |-> IF a \in {m3, m4} THEN m3 ELSE NoKey]

Two == {m1, m3}
TwoIds == [a \in Two |-> a]
TwoKeys == [a \in Two |-> NoKey]

NoFaults == [k \in FaultKinds |-> 0]
SomeFaults == [database |-> 2, process |-> 1]
=============================================================================
