--------------------------- MODULE MCPresenceInit ---------------------------
(* Instance of PresenceInit for TLC: a tenant, its user, a line of the user  *)
(* and a channel of the line.  The channel hangs on rows of another listing, *)
(* as a session does; the line on rows of the same one.                      *)
EXTENDS PresenceInit

CONSTANTS tenant, user, line, channel

Chain == <<tenant, user, line, channel>>
ChainFacts == {Chain[n] : n \in 1 .. 4}
ChainTables == [i \in ChainFacts |-> CASE i = tenant -> "tenant" [] i = user -> "user"
                                       [] i = line -> "line" [] i = channel -> "channel"]
ChainOwners == [i \in ChainFacts |->
                  {Chain[n] : n \in {m \in 1 .. 4 : \E k \in m + 1 .. 4 : Chain[k] = i}}]
NothingOrAll == {{}, ChainFacts}
=============================================================================
