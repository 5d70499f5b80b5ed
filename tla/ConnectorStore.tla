--------------------------- MODULE ConnectorStore ---------------------------
(***************************************************************************)
(* plugins/connectors/store.py for one (tenant, backend) key: the cached   *)
(* connector instance, the single fetch that concurrent callers share, and *)
(* the epoch that keeps a fetch overtaken by a drop out of the cache.      *)
(*                                                                         *)
(* An instance is abstracted to the version of the provider configuration  *)
(* it was built from; wazo-auth is the version it holds now.  Version 0    *)
(* stands for "no instance".  The keys do not share state.                 *)
(***************************************************************************)
EXTENDS Naturals, FiniteSets

CONSTANTS
    Threads,    \* threads that call get: requests, populate, the executor
    MaxVersion, \* bound: configurations wazo-auth ever holds
    MaxFailures \* bound: requests to wazo-auth that fail

ASSUME StoreAssumption ==
    /\ MaxVersion \in Nat \ {0}
    /\ MaxFailures \in Nat

VARIABLES
    config,   \* version wazo-auth holds
    exists,   \* FALSE: it answers 404
    cache,    \* _cache[key]
    live,     \* is _expires_at[key] in the future?
    epoch,    \* _cache_epoch[key], 0 when missing
    pending,  \* _pending_fetches[key]: "none", "open" or "resolved"
    result,   \* what the resolved future holds
    pc,       \* where each thread is in get
    mark,     \* its epoch_before
    have,     \* the instance it has built, 0 when the fetch raised
    failures, \* failures of wazo-auth still to come
    floor     \* history: version wazo-auth held at the last drop

auth == <<config, exists>>
entry == <<cache, live>>
fetch == <<epoch, pending, result>>
local == <<mark, have>>
storeVars == <<config, exists, cache, live, epoch, pending, result, pc, mark, have,
               failures, floor>>

Version == Nat

\* Before the lock of _fetch; waiting for another thread's future; the leader
\* before and after it reads the epoch, with an answer, refused by an HTTP
\* error, before it resolves the future and before it removes it.
ThreadState == {"idle", "lookup", "follow", "begin", "ask", "built", "refused",
                "publish", "cleanup"}
Leading(t) == pc[t] \in {"begin", "ask", "built", "refused", "publish", "cleanup"}

TypeOK ==
    /\ config \in Version \ {0}
    /\ exists \in BOOLEAN
    /\ cache \in Version
    /\ live \in BOOLEAN
    /\ epoch \in Nat
    /\ pending \in {"none", "open", "resolved"}
    /\ result \in Version
    /\ pc \in [Threads -> ThreadState]
    /\ mark \in [Threads -> Nat]
    /\ have \in [Threads -> Version]
    /\ failures \in Nat
    /\ floor \in Version

StoreInit ==
    /\ config = 1
    /\ exists = TRUE
    /\ cache = 0
    /\ live = FALSE
    /\ epoch = 0
    /\ pending = "none"
    /\ result = 0
    /\ pc = [t \in Threads |-> "idle"]
    /\ mark = [t \in Threads |-> 0]
    /\ have = [t \in Threads |-> 0]
    /\ failures = MaxFailures
    /\ floor = 0

-----------------------------------------------------------------------------
\* PUT or DELETE of the external auth configuration in wazo-auth.
UpdateConfig ==
    /\ config < MaxVersion
    /\ config' = config + 1
    /\ exists' \in BOOLEAN
    /\ UNCHANGED <<entry, fetch, pc, local, failures, floor>>

\* time.monotonic() passes _expires_at[key].
Expire ==
    /\ live
    /\ live' = FALSE
    /\ UNCHANGED <<auth, cache, fetch, pc, local, failures, floor>>

\* _get_cached
Hit == live /\ cache # 0

Goto(t, s) == pc' = [pc EXCEPT ![t] = s]

\* get without a cached instance goes on to _fetch.
Get(t) ==
    /\ pc[t] = "idle"
    /\ ~Hit
    /\ Goto(t, "lookup")
    /\ UNCHANGED <<auth, entry, fetch, local, failures, floor>>

\* Mutant: the leader does not register its future.
LookupUnregistered(t) ==
    /\ pc[t] = "lookup"
    /\ IF Hit THEN Goto(t, "idle") ELSE Goto(t, "begin")
    /\ UNCHANGED <<auth, entry, fetch, local, failures, floor>>

\* The first lock of _fetch: the cache again, then the fetch under way, which
\* returns at once if its future is resolved, else lead a new one.
Lookup(t) ==
    /\ pc[t] = "lookup"
    /\ \/ /\ Hit \/ pending = "resolved"
          /\ Goto(t, "idle")
          /\ UNCHANGED pending
       \/ /\ ~Hit /\ pending = "open"
          /\ Goto(t, "follow")
          /\ UNCHANGED pending
       \/ /\ ~Hit /\ pending = "none"
          /\ Goto(t, "begin")
          /\ pending' = "open"
    /\ UNCHANGED <<auth, entry, epoch, result, local, failures, floor>>

\* epoch_before
ReadEpoch(t) ==
    /\ pc[t] = "begin"
    /\ mark' = [mark EXCEPT ![t] = epoch]
    /\ Goto(t, "ask")
    /\ UNCHANGED <<auth, entry, fetch, have, failures, floor>>

\* external.get_config answers; the instance is built from the answer.
AskAuth(t) ==
    /\ pc[t] = "ask"
    /\ Goto(t, IF exists THEN "built" ELSE "refused")
    /\ have' = [have EXCEPT ![t] = IF exists THEN config ELSE 0]
    /\ UNCHANGED <<auth, entry, fetch, mark, failures, floor>>

\* It answers with an error status, or is not reachable.
AuthFails(t) ==
    /\ pc[t] = "ask"
    /\ failures > 0
    /\ failures' = failures - 1
    /\ have' = [have EXCEPT ![t] = 0]
    /\ Goto(t, "refused") \/ Goto(t, "publish")
    /\ UNCHANGED <<auth, entry, fetch, mark, floor>>

\* except HTTPError: the entry is removed, BackendNotConfiguredException or
\* AuthServiceUnavailableException is raised.
ForgetRefused(t) ==
    /\ pc[t] = "refused"
    /\ cache' = 0
    /\ live' = FALSE
    /\ Goto(t, "publish")
    /\ UNCHANGED <<auth, fetch, local, failures, floor>>

\* Mutant: the epoch is not compared.
StoreAnyway(t) ==
    /\ pc[t] = "built"
    /\ cache' = have[t]
    /\ live' = TRUE
    /\ Goto(t, "publish")
    /\ UNCHANGED <<auth, fetch, local, failures, floor>>

\* The last lock of _do_fetch: cached only if no drop came in between.
StoreInstance(t) ==
    /\ pc[t] = "built"
    /\ cache' = IF epoch = mark[t] THEN have[t] ELSE cache
    /\ live' = (live \/ epoch = mark[t])
    /\ Goto(t, "publish")
    /\ UNCHANGED <<auth, fetch, local, failures, floor>>

\* Mutant: the future is resolved with a result only, never an exception.
ResolveOnSuccess(t) ==
    /\ pc[t] = "publish"
    /\ pending' = "resolved"
    /\ result' = have[t]
    /\ pc' = [u \in Threads |-> IF u = t THEN "cleanup"
                                ELSE IF pc[u] = "follow" /\ have[t] # 0 THEN "idle" ELSE pc[u]]
    /\ UNCHANGED <<auth, entry, epoch, local, failures, floor>>

\* future.set_result or set_exception: every follower has its answer.
ResolveFuture(t) ==
    /\ pc[t] = "publish"
    /\ pending' = "resolved"
    /\ result' = have[t]
    /\ pc' = [u \in Threads |-> IF u = t THEN "cleanup"
                                ELSE IF pc[u] = "follow" THEN "idle" ELSE pc[u]]
    /\ UNCHANGED <<auth, entry, epoch, local, failures, floor>>

\* finally: the future and the epoch are removed.
Cleanup(t) ==
    /\ pc[t] = "cleanup"
    /\ pending' = "none"
    /\ epoch' = 0
    /\ result' = 0
    /\ Goto(t, "idle")
    /\ mark' = [mark EXCEPT ![t] = 0]
    /\ have' = [have EXCEPT ![t] = 0]
    /\ UNCHANGED <<auth, entry, failures, floor>>

\* Mutant: the epoch does not move.
DropWithoutEpoch ==
    /\ cache' = 0
    /\ live' = FALSE
    /\ floor' = config
    /\ UNCHANGED <<auth, epoch, pending, result, pc, local, failures>>

\* drop, whoever calls it.
DropEntry ==
    /\ cache' = 0
    /\ live' = FALSE
    /\ epoch' = IF pending # "none" THEN epoch + 1 ELSE epoch
    /\ floor' = config
    /\ UNCHANGED <<auth, pending, result, pc, local, failures>>

ThreadStep(t) ==
    \/ Lookup(t)
    \/ ReadEpoch(t)
    \/ AskAuth(t)
    \/ ForgetRefused(t)
    \/ StoreInstance(t)
    \/ ResolveFuture(t)
    \/ Cleanup(t)

StoreStep ==
    \/ UpdateConfig
    \/ Expire
    \/ \E t \in Threads : Get(t) \/ ThreadStep(t) \/ AuthFails(t)

StoreNext == StoreStep \/ DropEntry

StoreSpec == StoreInit /\ [][StoreNext]_storeVars

-----------------------------------------------------------------------------
\* A drop is final: what is in the cache afterwards was built from the
\* configuration wazo-auth held when drop was called, or a later one, however
\* many fetches were under way (the epoch comparison of _do_fetch).
NoStaleAfterDrop == cache # 0 => cache >= floor

\* At most one thread at a time asks wazo-auth for the key; the others wait
\* for its future, which is in _pending_fetches as long as it leads.
OneLeader ==
    /\ \A t, u \in Threads : Leading(t) /\ Leading(u) => t = u
    /\ \A t \in Threads : Leading(t) => pending # "none"
    /\ \A t \in Threads : pc[t] = "cleanup" <=> Leading(t) /\ pending = "resolved"

\* A caller that waits for another thread's fetch gets an answer, also when
\* that fetch raises.
FollowersReturn == \A t \in Threads : pc[t] = "follow" ~> pc[t] = "idle"

\* _cache_epoch keeps no entry once the fetch that needed it is over: repeated
\* drops do not make it grow.
EpochCleared == pending = "none" => epoch = 0
=============================================================================
