------------------------- MODULE MCOutboundDelivery -------------------------
(* Instances of OutboundDelivery for TLC. *)
EXTENDS OutboundDelivery

CONSTANTS d1, d2

\* One message with two recipients, or two messages.
Two == {d1, d2}
One == {d1}

NoReports == {}
StatusReports(d, S) == [kind : {"status"}, delivery : {d}, status : S]
Echo(d) == [kind |-> "echo", delivery |-> d, status |-> "delivered"]

\* A status update and an echo race for the first delivery.
SentAndEcho == StatusReports(d1, {"sent"}) \cup {Echo(d1)}
OneStatus == StatusReports(d1, {"failed"})
SentAndDelivered == StatusReports(d1, {"sent", "delivered"})

NoFaults == [k \in FaultKinds |-> 0]
Once(K) == [k \in FaultKinds |-> IF k \in K THEN 1 ELSE 0]
LinkOnly == Once({"link"})
EveryFault == Once(FaultKinds)
=============================================================================
