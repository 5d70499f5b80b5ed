-------------------------- MODULE CacheInvalidation --------------------------
(***************************************************************************)
(* ConnectorStore composed with what is meant to keep it current: the bus  *)
(* events of wazo-auth, ConnectorRouter.invalidate_backend_cache, and the  *)
(* poller task of the delivery runner that holds on to an instance.        *)
(*                                                                         *)
(* One key; its connector has the poll transport and needs a provider      *)
(* configuration.  The events are handled one at a time by the consumer    *)
(* thread; the callbacks posted to the runner's loop run in turn.          *)
(***************************************************************************)
EXTENDS ConnectorStore

CONSTANTS
    MaxCreates, \* bound: identities created (reconcile_after_create)
    MaxDeletes  \* bound: identities deleted (reconcile_after_delete)

ASSUME InvalidationAssumption == MaxCreates \in Nat /\ MaxDeletes \in Nat

\* The bus consumer thread in invalidate_backend_cache, and a request thread
\* in reconcile_after_delete.
Invalidators == {"event", "delete"}

VARIABLES
    events,  \* auth_external_auth_* events not yet handled
    handler, \* where each of Invalidators is: "idle", "drop" or "resync"
    posted,  \* _synchronize_pollers callbacks posted to the loop
    poller,  \* version of the instance the running poller uses, 0: none
    creates, \* identities still to be created
    deletes, \* identities still to be deleted
    missed,  \* history: an event found nothing cached during a fetch
    refused  \* history: a refused fetch removed the key since the last
             \* synchronization of the pollers

busVars == <<events, handler, posted, poller, creates, deletes, missed, refused>>
vars == <<storeVars, busVars>>

InvalidationTypeOK ==
    /\ TypeOK
    /\ events \in Nat
    /\ handler \in [Invalidators -> {"idle", "drop", "resync"}]
    /\ posted \in Nat
    /\ poller \in Version
    /\ creates \in Nat
    /\ deletes \in Nat
    /\ missed \in BOOLEAN
    /\ refused \in BOOLEAN

\* The runner synchronizes its pollers when it starts.
Init ==
    /\ StoreInit
    /\ events = 0
    /\ handler = [i \in Invalidators |-> "idle"]
    /\ posted = 1
    /\ poller = 0
    /\ creates = MaxCreates
    /\ deletes = MaxDeletes
    /\ missed = FALSE
    /\ refused = FALSE

\* wazo-auth publishes every change of the configuration.
ChangeConfig ==
    /\ UpdateConfig
    /\ events' = events + 1
    /\ UNCHANGED <<handler, posted, poller, creates, deletes, missed, refused>>

\* Everything else the store does by itself.
Beside ==
    /\ refused' = (refused \/ (cache # 0 /\ cache' = 0))
    /\ UNCHANGED <<events, handler, posted, poller, creates, deletes, missed>>

StoreRuns ==
    /\ Expire \/ \E t \in Threads : Get(t) \/ ThreadStep(t) \/ AuthFails(t)
    /\ Beside

Step(i, s) == handler' = [handler EXCEPT ![i] = s]

\* on_external_auth_changed; if self._store.peek(...) is None: return
HandleEvent ==
    /\ events > 0
    /\ handler["event"] = "idle"
    /\ IF cache = 0
       THEN /\ events' = events - 1
            /\ missed' = (missed \/ pending # "none")
            /\ UNCHANGED handler
       ELSE /\ Step("event", "drop")
            /\ UNCHANGED <<events, missed>>
    /\ UNCHANGED <<storeVars, posted, poller, creates, deletes, refused>>

\* reconcile_after_delete: drop what is cached if the tenant has no identity
\* left for the backend, and resync anyway.
DeleteIdentity ==
    /\ handler["delete"] = "idle"
    /\ deletes > 0
    /\ deletes' = deletes - 1
    /\ \/ cache # 0 /\ Step("delete", "drop")
       \/ Step("delete", "resync")
    /\ UNCHANGED <<storeVars, events, posted, poller, creates, missed, refused>>

\* Mutant: the cache is emptied behind the back of the fetch.
InvalidateQuietly(i) ==
    /\ handler[i] = "drop"
    /\ Step(i, "resync")
    /\ DropWithoutEpoch
    /\ UNCHANGED <<events, posted, poller, creates, deletes, missed, refused>>

\* self._store.drop(backend, tenant_uuid)
InvalidateDrop(i) ==
    /\ handler[i] = "drop"
    /\ Step(i, "resync")
    /\ DropEntry
    /\ UNCHANGED <<events, posted, poller, creates, deletes, missed, refused>>

\* self._delivery_runner.resync_pollers()
InvalidateResync(i) ==
    /\ handler[i] = "resync"
    /\ Step(i, "idle")
    /\ events' = IF i = "event" THEN events - 1 ELSE events
    /\ posted' = posted + 1
    /\ UNCHANGED <<storeVars, poller, creates, deletes, missed, refused>>

\* reconcile_after_create
CreateIdentity ==
    /\ creates > 0
    /\ creates' = creates - 1
    /\ posted' = posted + 1
    /\ UNCHANGED <<storeVars, events, handler, poller, deletes, missed, refused>>

\* Mutant: a poller whose key is gone is left running.
StartPollersOnly ==
    /\ posted > 0
    /\ posted' = posted - 1
    /\ poller' = IF poller = 0 THEN cache ELSE poller
    /\ refused' = FALSE
    /\ UNCHANGED <<storeVars, events, handler, creates, deletes, missed>>

\* _synchronize_pollers: stop the poller of a key that is not cached, start
\* one for a cached key that has none, leave the others alone.
SynchronizePollers ==
    /\ posted > 0
    /\ posted' = posted - 1
    /\ poller' = IF cache = 0 \/ poller = 0 THEN cache ELSE poller
    /\ refused' = FALSE
    /\ UNCHANGED <<storeVars, events, handler, creates, deletes, missed>>

InvalidatorStep(i) == InvalidateDrop(i) \/ InvalidateResync(i)

Next ==
    \/ ChangeConfig
    \/ StoreRuns
    \/ HandleEvent
    \/ DeleteIdentity
    \/ \E i \in Invalidators : InvalidatorStep(i)
    \/ CreateIdentity
    \/ SynchronizePollers

Spec == Init /\ [][Next]_vars

\* The consumer thread, the request thread and the loop run, wazo-auth answers
\* (its client has a timeout), the TTL passes; nothing makes anybody call get.
FairSpec ==
    /\ Spec
    /\ WF_vars(HandleEvent)
    /\ \A i \in Invalidators : WF_vars(InvalidatorStep(i))
    /\ WF_vars(SynchronizePollers)
    /\ WF_vars(Expire /\ Beside)
    /\ \A t \in Threads : WF_vars(ThreadStep(t) /\ Beside)

-----------------------------------------------------------------------------
\* An instance older than the configuration stays in the cache only while an
\* event about it is on its way, or after one that came during a fetch and
\* found nothing to invalidate.
StaleOnlyIfMissed == cache # 0 /\ cache < config => events > 0 \/ missed

\* The poller of a key that is no longer cached is about to be stopped: the
\* callback is posted, or will be by the thread that dropped the key.  Only a
\* refused fetch removes a key and posts nothing.
PollerStops ==
    poller # 0 /\ cache = 0 =>
        posted > 0 \/ refused \/ \E i \in Invalidators : handler[i] = "resync"
=============================================================================
