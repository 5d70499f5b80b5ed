------------------------- MODULE TeamsSubscription -------------------------
(***************************************************************************)
(* The Teams presence plugin, for one user: the link of the user with a    *)
(* Microsoft account that wazo-auth keeps, the bus events that tell of it, *)
(* the coroutines of TeamsService on the loop of CoreAsyncio, the renewer  *)
(* each of them may start, and the subscription Microsoft holds for the    *)
(* user.  Users share nothing but the dictionary _synchronizers, which is  *)
(* keyed by user.                                                          *)
(*                                                                         *)
(* Times are left out: a subscription that a renewer keeps does not expire *)
(* and any other may expire at any moment.  A renewal that succeeds        *)
(* changes nothing here and is not a step.                                 *)
(***************************************************************************)
EXTENDS Naturals, Sequences, FiniteSets

CONSTANTS
    Calls,    \* calls of create_subscription, each with its SubscriptionRenewer,
              \* in the order they begin
    None,     \* no call
    MaxFaults \* how many faults a behaviour has

ASSUME TeamsAssumption ==
    /\ IsFiniteSet(Calls)
    /\ Calls \subseteq Nat
    /\ None \notin Calls
    /\ MaxFaults \in Nat

VARIABLES
    connected,    \* has the user a Microsoft account in wazo-auth?
    inbox,        \* handlers the bus thread has scheduled on the loop
    listing,      \* where _initialize is
    stage,        \* where a call and its renewer are, see Stage
    cancelled,    \* renewers that stop() has cancelled
    synchronizer, \* _synchronizers.get(user_uuid)
    held,         \* SubscriptionRenewer._id; a subscription bears the name of
                  \* the call that created it
    wire,         \* requests to Microsoft that a pool thread is making
    subscription, \* the compatible subscription Microsoft has for the user
    transaction,  \* of the session of the loop thread: nothing commits it, rolls
                  \* it back or removes the session
    faults,       \* faults still to come
    missed,       \* history: an error kept a connection from being followed
    failed,       \* history: renewers that an error ended
    robbed,       \* history: renewers whose subscription another one deleted
    overtaken     \* history: calls under way when a deletion was handled

loop == <<inbox, listing, transaction>>
renewers == <<stage, cancelled, synchronizer, held>>
microsoft == <<wire, subscription>>
history == <<missed, failed, robbed, overtaken>>
vars == <<connected, inbox, listing, stage, cancelled, synchronizer, held, wire,
          subscription, transaction, faults, missed, failed, robbed, overtaken>>

\* A call awaits its configuration ("fetch"), has it ("fetched"), has started
\* a task that has not run ("ready"); the renewer awaits its POST ("create"),
\* has the answer 201 or 409 ("created", "conflict"), has found the existing
\* subscription ("found"), awaits notifier.subscribed ("notify"), sleeps or
\* renews ("renew"), awaits its DELETE ("delete"); all is "over".
Stage == {"idle", "fetch", "fetched", "ready", "create", "created", "conflict",
          "found", "notify", "renew", "delete", "over"}
Live(c) == stage[c] \in {"ready", "create", "created", "conflict", "found", "notify",
                         "renew"}

Request == [op : {"post", "delete"}, call : Calls]
Post(c) == [op |-> "post", call |-> c]
Delete(c) == [op |-> "delete", call |-> c]

Idle == {c \in Calls : stage[c] = "idle"}
Pending == {i \in DOMAIN inbox : inbox[i] = "added"}

Spend == faults > 0 /\ faults' = faults - 1

TypeOK ==
    /\ connected \in BOOLEAN
    /\ inbox \in Seq({"added", "deleted"})
    /\ listing \in {"scheduled", "listed", "over"}
    /\ stage \in [Calls -> Stage]
    /\ cancelled \subseteq Calls
    /\ synchronizer \in Calls \cup {None}
    /\ held \in [Calls -> Calls \cup {None}]
    /\ wire \subseteq Request
    /\ subscription \in Calls \cup {None}
    /\ transaction \in {"none", "open", "invalid"}
    /\ faults \in Nat
    /\ missed \in BOOLEAN
    /\ failed \subseteq Calls
    /\ robbed \subseteq Calls
    /\ overtaken \subseteq Calls

\* initialize() schedules _initialize before the loop runs, when the plugin
\* is loaded; the user may have been connected for long.
Init ==
    /\ connected \in BOOLEAN
    /\ inbox = <<>>
    /\ listing = "scheduled"
    /\ stage = [c \in Calls |-> "idle"]
    /\ cancelled = {}
    /\ synchronizer = None
    /\ held = [c \in Calls |-> None]
    /\ wire = {}
    /\ subscription = None
    /\ transaction = "none"
    /\ faults = MaxFaults
    /\ missed = FALSE
    /\ failed = {}
    /\ robbed = {}
    /\ overtaken = {}

-----------------------------------------------------------------------------
(***************************************************************************)
(* wazo-auth and the bus.                                                  *)
(***************************************************************************)

\* auth_user_external_auth_added: dispatch schedules on_external_auth_added.
\* The guard leaves a call for every creation to come.
Connect ==
    /\ ~connected
    /\ Cardinality(Idle) > Cardinality(Pending) + (IF listing = "over" THEN 0 ELSE 1)
    /\ connected' = TRUE
    /\ inbox' = Append(inbox, "added")
    /\ UNCHANGED <<listing, transaction, renewers, microsoft, faults, history>>

\* auth_user_external_auth_deleted: dispatch schedules on_external_auth_deleted.
Disconnect ==
    /\ connected
    /\ connected' = FALSE
    /\ inbox' = Append(inbox, "deleted")
    /\ UNCHANGED <<listing, transaction, renewers, microsoft, faults, history>>

-----------------------------------------------------------------------------
(***************************************************************************)
(* TeamsService.                                                           *)
(***************************************************************************)

\* list_connected_users answers _initialize.
ListConnected ==
    /\ listing = "scheduled"
    /\ listing' = IF connected THEN "listed" ELSE "over"
    /\ UNCHANGED <<connected, inbox, transaction, renewers, microsoft, faults, history>>

\* 'unable to fetch connected user list': nothing repeats it.
ListFails ==
    /\ listing = "scheduled"
    /\ Spend
    /\ listing' = "over"
    /\ missed' = TRUE
    /\ UNCHANGED <<connected, inbox, transaction, renewers, microsoft, failed, robbed,
                   overtaken>>

\* create_subscription up to its first await: dao.user.list_ runs in the
\* session of the thread, and raises for ever once its connection was lost.
Begin(c) ==
    /\ c \in Idle
    /\ \A d \in Idle : c <= d
    /\ \/ /\ transaction # "invalid"
          /\ transaction' = "open"
          /\ stage' = [stage EXCEPT ![c] = "fetch"]
          /\ UNCHANGED missed
       \/ /\ transaction = "invalid"
          /\ stage' = [stage EXCEPT ![c] = "over"]
          /\ missed' = TRUE
          /\ UNCHANGED transaction

\* asyncio.gather over the users of the listing.
CreateListed(c) ==
    /\ listing = "listed"
    /\ listing' = "over"
    /\ Begin(c)
    /\ UNCHANGED <<connected, inbox, cancelled, synchronizer, held, microsoft, faults,
                   failed, robbed, overtaken>>

OnExternalAuthAdded(c) ==
    /\ inbox # <<>>
    /\ Head(inbox) = "added"
    /\ inbox' = Tail(inbox)
    /\ Begin(c)
    /\ UNCHANGED <<connected, listing, cancelled, synchronizer, held, microsoft, faults,
                   failed, robbed, overtaken>>

\* The database connection breaks; the session is not rolled back.
LoseDatabase ==
    /\ transaction = "open"
    /\ Spend
    /\ transaction' = "invalid"
    /\ UNCHANGED <<connected, inbox, listing, renewers, microsoft, history>>

\* Mutant: the renewer is not cancelled.
PopOnly ==
    /\ inbox # <<>>
    /\ Head(inbox) = "deleted"
    /\ inbox' = Tail(inbox)
    /\ synchronizer' = None
    /\ missed' = FALSE
    /\ overtaken' = overtaken \cup {c \in Calls : stage[c] \in {"fetch", "fetched"}}
    /\ UNCHANGED <<connected, listing, transaction, stage, cancelled, held, microsoft, faults,
                   failed, robbed>>

\* Mutant: the cancelled renewer stays in _synchronizers.
CancelOnly ==
    /\ inbox # <<>>
    /\ Head(inbox) = "deleted"
    /\ inbox' = Tail(inbox)
    /\ cancelled' = cancelled \cup ({synchronizer} \ {None})
    /\ missed' = FALSE
    /\ overtaken' = overtaken \cup {c \in Calls : stage[c] \in {"fetch", "fetched"}}
    /\ UNCHANGED <<connected, listing, transaction, stage, synchronizer, held, microsoft,
                   faults, failed, robbed>>

\* on_external_auth_deleted: delete_subscription does not await.
OnExternalAuthDeleted ==
    /\ inbox # <<>>
    /\ Head(inbox) = "deleted"
    /\ inbox' = Tail(inbox)
    /\ synchronizer' = None
    /\ cancelled' = cancelled \cup ({synchronizer} \ {None})
    /\ missed' = FALSE
    /\ overtaken' = overtaken \cup {c \in Calls : stage[c] \in {"fetch", "fetched"}}
    /\ UNCHANGED <<connected, listing, transaction, stage, held, microsoft, faults, failed,
                   robbed>>

\* _fetch_configuration has its token: wazo-auth has one while the user is
\* connected.
FetchConfiguration(c) ==
    /\ stage[c] = "fetch"
    /\ connected
    /\ stage' = [stage EXCEPT ![c] = "fetched"]
    /\ UNCHANGED <<connected, loop, cancelled, synchronizer, held, microsoft, faults,
                   history>>

\* 'unable to fetch configuration': the account is gone, after the retries of
\* _retry_fetch.
FetchRefused(c) ==
    /\ stage[c] = "fetch"
    /\ ~connected
    /\ stage' = [stage EXCEPT ![c] = "over"]
    /\ UNCHANGED <<connected, loop, cancelled, synchronizer, held, microsoft, faults,
                   history>>

\* The same for a user chatd does not know, a tenant without a domain, or a
\* server that fails.
FetchFails(c) ==
    /\ stage[c] = "fetch"
    /\ Spend
    /\ stage' = [stage EXCEPT ![c] = "over"]
    /\ missed' = TRUE
    /\ UNCHANGED <<connected, loop, cancelled, synchronizer, held, microsoft, failed,
                   robbed, overtaken>>

\* Mutant: the registration is checked before the configuration is awaited.
RegisterUnchecked(c) ==
    /\ stage[c] = "fetched"
    /\ synchronizer' = c
    /\ stage' = [stage EXCEPT ![c] = "ready"]
    /\ UNCHANGED <<connected, loop, cancelled, held, microsoft, faults, history>>

\* create_subscription after its await: registers a renewer and starts its
\* task, or raises 'user is already being synchronized'.
Register(c) ==
    /\ stage[c] = "fetched"
    /\ \/ /\ synchronizer = None
          /\ synchronizer' = c
          /\ stage' = [stage EXCEPT ![c] = "ready"]
       \/ /\ synchronizer # None
          /\ stage' = [stage EXCEPT ![c] = "over"]
          /\ UNCHANGED synchronizer
    /\ UNCHANGED <<connected, loop, cancelled, held, microsoft, faults, history>>

-----------------------------------------------------------------------------
(***************************************************************************)
(* SubscriptionRenewer._run.                                               *)
(***************************************************************************)

Move(c, from, to) ==
    /\ stage[c] = from
    /\ c \notin cancelled
    /\ stage' = [stage EXCEPT ![c] = to]

\* The first step of the task sends the POST of _create_subscription.
StartRun(c) ==
    /\ Move(c, "ready", "create")
    /\ wire' = wire \cup {Post(c)}
    /\ UNCHANGED <<connected, loop, cancelled, synchronizer, held, subscription, faults,
                   history>>

\* An HTTPError, a lost connection (Microsoft may have the request) or the
\* UnboundLocalError after a 400 ends the task, which stays in _synchronizers.
CreateFails(c) ==
    /\ Move(c, "create", "over")
    /\ Spend
    /\ wire' \in {wire, wire \ {Post(c)}}
    /\ failed' = failed \cup {c}
    /\ UNCHANGED <<connected, loop, cancelled, synchronizer, held, subscription, missed,
                   robbed, overtaken>>

\* _find_subscription after a 409: GET subscriptions finds the compatible one.
FindSubscription(c) ==
    /\ Move(c, "conflict", "found")
    /\ subscription # None
    /\ held' = [held EXCEPT ![c] = subscription]
    /\ UNCHANGED <<connected, loop, cancelled, synchronizer, microsoft, faults, history>>

\* 'no compatible subscription found': it was deleted or expired meanwhile.
FindNothing(c) ==
    /\ Move(c, "conflict", "over")
    /\ subscription = None
    /\ failed' = failed \cup {c}
    /\ UNCHANGED <<connected, loop, cancelled, synchronizer, held, microsoft, faults,
                   missed, robbed, overtaken>>

\* _create_subscription returns; the started event is being published.
CreateReturns(c) ==
    /\ Move(c, "created", "notify") \/ Move(c, "found", "notify")
    /\ UNCHANGED <<connected, loop, cancelled, synchronizer, held, microsoft, faults,
                   history>>

\* notifier.subscribed returns.
Subscribed(c) ==
    /\ Move(c, "notify", "renew")
    /\ UNCHANGED <<connected, loop, cancelled, synchronizer, held, microsoft, faults,
                   history>>

\* The PATCH of _renew_subscription is answered 404, or with another error;
\* the loop is left and the subscription deleted.
RenewFails(c) ==
    /\ Move(c, "renew", "delete")
    /\ \/ subscription # held[c] /\ UNCHANGED faults
       \/ Spend
    /\ wire' = wire \cup {Delete(c)}
    /\ failed' = failed \cup {c}
    /\ UNCHANGED <<connected, loop, cancelled, synchronizer, held, subscription, missed,
                   robbed, overtaken>>

\* The PATCH raises what is not an HTTPError, such as a ConnectionError.
RenewCrashes(c) ==
    /\ Move(c, "renew", "over")
    /\ Spend
    /\ failed' = failed \cup {c}
    /\ UNCHANGED <<connected, loop, cancelled, synchronizer, held, microsoft, missed,
                   robbed, overtaken>>

\* CancelledError is raised where the task waits.  Only the loop of _run
\* catches it; a POST or a DELETE under way goes on in its thread.
CancelDelivered(c) ==
    /\ c \in cancelled
    /\ \/ /\ stage[c] = "renew"
          /\ stage' = [stage EXCEPT ![c] = "delete"]
          /\ wire' = wire \cup {Delete(c)}
          /\ cancelled' = cancelled \ {c}
       \/ /\ Live(c) \/ stage[c] = "delete"
          /\ stage[c] # "renew"
          /\ stage' = [stage EXCEPT ![c] = "over"]
          /\ UNCHANGED <<wire, cancelled>>
    /\ UNCHANGED <<connected, loop, synchronizer, held, subscription, faults, history>>

-----------------------------------------------------------------------------
(***************************************************************************)
(* Microsoft.                                                              *)
(***************************************************************************)

Answer(c, from, to) == stage' = [stage EXCEPT ![c] = IF @ = from THEN to ELSE @]

\* POST subscriptions: 409 if there is a compatible one; else Microsoft posts
\* a validationToken to chatd, which answers 404 (so that the POST fails with
\* 400) once the user is not in _synchronizers.
AnswerPost(c) ==
    /\ Post(c) \in wire
    /\ wire' = wire \ {Post(c)}
    /\ \/ /\ subscription # None
          /\ Answer(c, "create", "conflict")
          /\ UNCHANGED <<subscription, held>>
       \/ /\ subscription = None
          /\ synchronizer # None
          /\ subscription' = c
          /\ Answer(c, "create", "created")
          /\ held' = [held EXCEPT ![c] = IF stage[c] = "create" THEN c ELSE @]
       \/ /\ subscription = None
          /\ synchronizer = None
          /\ Answer(c, "create", "over")
          /\ UNCHANGED <<subscription, held>>
    /\ UNCHANGED <<connected, loop, cancelled, synchronizer, faults, history>>

\* Renewers that rely on the subscription.
Keepers == {c \in Calls : /\ stage[c] \in {"created", "found", "notify", "renew"}
                          /\ held[c] = subscription}

\* DELETE subscriptions/<_id>, 404 if there is no such subscription; the
\* renewer is over once the stopped event is published.
AnswerDelete(c) ==
    /\ Delete(c) \in wire
    /\ wire' = wire \ {Delete(c)}
    /\ Answer(c, "delete", "over")
    /\ \/ /\ subscription = held[c]
          /\ subscription' = None
          /\ robbed' = robbed \cup Keepers
       \/ /\ subscription # held[c]
          /\ UNCHANGED <<subscription, robbed>>
    /\ UNCHANGED <<connected, loop, cancelled, synchronizer, held, faults, missed, failed,
                   overtaken>>

\* 'failed to delete subscription for user'
DeleteFails(c) ==
    /\ Delete(c) \in wire
    /\ Spend
    /\ wire' = wire \ {Delete(c)}
    /\ Answer(c, "delete", "over")
    /\ UNCHANGED <<connected, loop, cancelled, synchronizer, held, subscription, history>>

\* The expiration date passes.
Expire ==
    /\ subscription # None
    /\ Keepers = {}
    /\ subscription' = None
    /\ UNCHANGED <<connected, loop, renewers, wire, faults, history>>

-----------------------------------------------------------------------------
\* The process stops, whose loop, threads and dictionary go, and is started
\* again: the plugin is loaded and schedules _initialize.
Restart ==
    /\ Spend
    /\ Idle # {}
    /\ inbox' = <<>>
    /\ listing' = "scheduled"
    /\ stage' = [c \in Calls |-> IF c \in Idle THEN "idle" ELSE "over"]
    /\ cancelled' = {}
    /\ synchronizer' = None
    /\ wire' = {}
    /\ transaction' = "none"
    /\ missed' = FALSE
    /\ UNCHANGED <<connected, held, subscription, failed, robbed, overtaken>>

ServiceStep(c) ==
    \/ CreateListed(c)
    \/ OnExternalAuthAdded(c)
    \/ FetchConfiguration(c)
    \/ FetchRefused(c)
    \/ Register(c)

RenewerStep(c) ==
    \/ StartRun(c)
    \/ FindSubscription(c)
    \/ FindNothing(c)
    \/ CreateReturns(c)
    \/ Subscribed(c)
    \/ CancelDelivered(c)

Next ==
    \/ Connect
    \/ Disconnect
    \/ ListConnected
    \/ ListFails
    \/ OnExternalAuthDeleted
    \/ Expire
    \/ LoseDatabase
    \/ Restart
    \/ \E c \in Calls :
          \/ ServiceStep(c)
          \/ RenewerStep(c)
          \/ FetchFails(c)
          \/ CreateFails(c)
          \/ RenewFails(c)
          \/ RenewCrashes(c)
          \/ AnswerPost(c)
          \/ AnswerDelete(c)
          \/ DeleteFails(c)

Spec == Init /\ [][Next]_vars

\* The loop runs what is ready, requests are answered and subscriptions that
\* nobody renews expire.
Fairness ==
    /\ WF_vars(ListConnected) /\ WF_vars(OnExternalAuthDeleted) /\ WF_vars(Expire)
    /\ \A c \in Calls :
          /\ WF_vars(ServiceStep(c)) /\ WF_vars(RenewerStep(c))
          /\ WF_vars(AnswerPost(c)) /\ WF_vars(AnswerDelete(c))

FairSpec == Spec /\ Fairness

-----------------------------------------------------------------------------
(***************************************************************************)
(* Properties.                                                             *)
(***************************************************************************)

\* At any moment at most one renewer works for the user, and it is the one
\* delete_subscription will find: any other has been cancelled, although the
\* registration comes after an await and several calls may be in it.
OneRenewer ==
    \A c \in Calls : Live(c) => c \in cancelled \/ synchronizer = c

\* Nothing is scheduled, on the wire or about to run.
Quiet ==
    /\ inbox = <<>>
    /\ listing = "over"
    /\ wire = {}
    /\ \A c \in Calls : \/ stage[c] \in {"idle", "over"}
                       \/ (stage[c] = "renew" /\ c \notin cancelled)

Followed ==
    /\ synchronizer # None
    /\ stage[synchronizer] = "renew"
    /\ subscription # None
    /\ held[synchronizer] = subscription

\* Once everything has settled, the presence of the user is followed exactly
\* while the account is connected.  The exceptions are the known ones: an
\* error that nothing retries (missed, failed), the subscription of a quick
\* reconnection deleted by the renewer of the connection before (robbed), and
\* a deletion handled while a creation awaited its configuration (overtaken),
\* whose renewer stays for an account that is gone.
Settled ==
    Quiet =>
      IF connected
      THEN \/ Followed
           \/ synchronizer \in failed \cup robbed
           \/ (synchronizer = None /\ missed)
      ELSE /\ synchronizer \in overtaken \cup {None}
           /\ \A c \in Calls : stage[c] = "renew" => c = synchronizer

\* After a disconnection Microsoft stops notifying: the subscription is
\* deleted or expires, unless the user reconnects or a creation that was
\* overtaken by the deletion keeps renewing it.
NotificationsEnd ==
    ~connected ~> connected \/ subscription = None \/ synchronizer \in overtaken
=============================================================================
