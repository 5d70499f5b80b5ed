-------------------------- MODULE DeliveryLifecycle --------------------------
(***************************************************************************)
(* What the outbound path promises about a delivery, seen from the rows a  *)
(* client can list and from the backend: no tasks, no notifications, no    *)
(* connection, no restart.  OutboundDelivery implements it.                *)
(*                                                                         *)
(* A stored delivery may change its state in any order, because the        *)
(* executor does not look at the state it replaces; what is promised is    *)
(* which change may be recorded at all.                                    *)
(***************************************************************************)
EXTENDS Naturals

CONSTANTS
    Deliveries, \* ids of chatd_message_delivery rows
    MaxRetries  \* len(OUTBOUND_RETRY_DELAYS)

VARIABLES
    state,   \* DeliveryStatus of the row, "absent" or "deleted"
    retries, \* retry_count
    sending, \* deliveries whose request to the backend is on its way
    sent,    \* has the backend got the message?
    visible  \* deliveries with a DELIVERED record: other participants may list
             \* the message

vars == <<state, retries, sending, sent, visible>>

Stored(d) == state[d] \notin {"absent", "deleted"}

Init ==
    /\ state = [d \in Deliveries |-> "absent"]
    /\ retries = [d \in Deliveries |-> 0]
    /\ sending = {}
    /\ sent = [d \in Deliveries |-> FALSE]
    /\ visible = {}

Become(d, s) == Stored(d) /\ state' = [state EXCEPT ![d] = s]

\* A message is posted: the deliveries of its recipients are stored at once.
Create(S) ==
    /\ S # {}
    /\ \A d \in S : state[d] = "absent"
    /\ state' = [d \in Deliveries |-> IF d \in S THEN "pending" ELSE state[d]]
    /\ UNCHANGED <<retries, sending, sent, visible>>

\* A send begins, of a delivery that is stored at that moment.
Begin(d) ==
    /\ Stored(d)
    /\ sending' = sending \cup {d}
    /\ UNCHANGED <<state, retries, sent, visible>>

\* The backend gets the message of a send that has begun, though its row may
\* be gone by then.
Transmit(d) ==
    /\ d \in sending
    /\ sending' = sending \ {d}
    /\ sent' = [sent EXCEPT ![d] = TRUE]
    /\ UNCHANGED <<state, retries, visible>>

\* ACCEPTED is recorded of a message the backend has got only.
Accept(d) ==
    /\ sent[d]
    /\ Become(d, "accepted")
    /\ UNCHANGED <<retries, sending, sent, visible>>

\* RETRYING uses one retry of the budget.
Retry(d) ==
    /\ retries[d] < MaxRetries
    /\ Become(d, "retrying")
    /\ retries' = [retries EXCEPT ![d] = @ + 1]
    /\ UNCHANGED <<sending, sent, visible>>

\* DEAD_LETTER: the budget is used up, or nobody can send the message.
GiveUp(d) ==
    /\ Become(d, "dead_letter")
    /\ \/ UNCHANGED retries
       \/ retries[d] >= MaxRetries /\ retries' = [retries EXCEPT ![d] = @ + 1]
    /\ UNCHANGED <<sending, sent, visible>>

\* A record is inserted: it is the state of the delivery unless a later one
\* was committed before it.
Record(d, s) == Become(d, s) \/ (Stored(d) /\ UNCHANGED state)

\* SENT and FAILED are recorded of a message the backend has got only.
Report(d, s) ==
    /\ sent[d]
    /\ Record(d, s)
    /\ UNCHANGED <<retries, sending, sent, visible>>

\* Once DELIVERED is recorded the other participants may list the message.
\* An echo is not matched with a send, so that nothing is promised of it.
Confirm(d) ==
    /\ Record(d, "delivered")
    /\ visible' = visible \cup {d}
    /\ UNCHANGED <<retries, sending, sent>>

\* The message is deleted; nothing is recorded and no send begins from then on.
Delete(d) ==
    /\ Become(d, "deleted")
    /\ visible' = visible \ {d}
    /\ UNCHANGED <<retries, sending, sent>>

Next ==
    \/ \E S \in SUBSET Deliveries : Create(S)
    \/ \E d \in Deliveries :
          \/ Begin(d)
          \/ Transmit(d)
          \/ Accept(d)
          \/ Retry(d)
          \/ GiveUp(d)
          \/ \E s \in {"sent", "failed"} : Report(d, s)
          \/ Confirm(d)
          \/ Delete(d)

Spec == Init /\ [][Next]_vars
=============================================================================
