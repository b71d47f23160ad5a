----------------------------- MODULE SessionPool ----------------------------
(***************************************************************************)
(* InMemorySessionProvider (runtime-axum/src/session.rs): a bounded map from *)
(* session keys to sessions that evicts in insertion order.  Both servers    *)
(* resolve the session of a request with it.  A session has the name of the  *)
(* request it was made for.                                                  *)
(***************************************************************************)
EXTENDS Integers, Sequences, FiniteSets

CONSTANTS Clients,        \* requests
          SessionKeys,    \* named session keys
          Nameless,       \* a request without a session id
          NoSession,
          KeyOf,          \* the key each request names
          MaxSessions

ASSUME PoolAssumption ==
  /\ Nameless \notin SessionKeys /\ KeyOf \in [Clients -> SessionKeys \union {Nameless}]
  /\ NoSession \notin Clients /\ MaxSessions \in Nat \ {0}

VARIABLES
  pool,          \* inner.map
  pool_order,    \* inner.order
  lookup,        \* where the call of session() of each request is
  held,          \* the session it returned
  evictions,     \* how often a key left the map (history)
  held_since     \* evictions of its key when the request got its session (history)

poolVars == <<pool, pool_order, lookup, held, evictions, held_since>>

PoolTypeOK ==
  /\ pool \in [SessionKeys -> Clients \union {NoSession}]
  /\ pool_order \in Seq(SessionKeys)
  /\ lookup \in [Clients -> {"none", "missed", "done"}]
  /\ held \in [Clients -> Clients \union {NoSession}]
  /\ evictions \in [SessionKeys -> Nat] /\ held_since \in [Clients -> Nat]

PoolInit ==
  /\ pool = [k \in SessionKeys |-> NoSession] /\ pool_order = <<>>
  /\ lookup = [c \in Clients |-> "none"] /\ held = [c \in Clients |-> NoSession]
  /\ evictions = [k \in SessionKeys |-> 0] /\ held_since = [c \in Clients |-> 0]

KeysIn(map) == {k \in SessionKeys : map[k] # NoSession}
Pooled == KeysIn(pool)

\* The call returns session s to request c.
Returns(c, s) ==
  /\ lookup' = [lookup EXCEPT ![c] = "done"]
  /\ held' = [held EXCEPT ![c] = s]
  /\ held_since' = [held_since EXCEPT
       ![c] = IF KeyOf[c] = Nameless THEN 0 ELSE evictions[KeyOf[c]]]

\* Without a key, a fresh session; with one, the read lock and a look at the map.
FastPath(c) ==
  /\ lookup[c] = "none"
  /\ IF KeyOf[c] = Nameless THEN Returns(c, c)
     ELSE IF KeyOf[c] \in Pooled THEN Returns(c, pool[KeyOf[c]])
     ELSE lookup' = [lookup EXCEPT ![c] = "missed"] /\ UNCHANGED <<held, held_since>>
  /\ UNCHANGED <<pool, pool_order, evictions>>

\* The map and the order after key k got session s and, if that was one too many,
\* the oldest key was dropped.
Inserted(k, s) ==
  LET order == Append(pool_order, k)
      grown == [pool EXCEPT ![k] = s]
      full == Cardinality(KeysIn(grown)) > MaxSessions
  IN  /\ pool' = IF full THEN [grown EXCEPT ![Head(order)] = NoSession] ELSE grown
      /\ pool_order' = IF full THEN Tail(order) ELSE order
      /\ evictions' = IF full THEN [evictions EXCEPT ![Head(order)] = @ + 1] ELSE evictions

\* A slow path that trusts what it saw under the read lock.
SlowPath_Unchecked(c) ==
  /\ lookup[c] = "missed"
  /\ Inserted(KeyOf[c], c) /\ Returns(c, c)

\* The write lock: look again, another request may have been first; else insert.
SlowPath(c) ==
  /\ lookup[c] = "missed"
  /\ IF KeyOf[c] \in Pooled
       THEN Returns(c, pool[KeyOf[c]]) /\ UNCHANGED <<pool, pool_order, evictions>>
       ELSE Inserted(KeyOf[c], c) /\ Returns(c, c)

-----------------------------------------------------------------------------
(* Properties.                                                              *)

\* Requests of one key share one session, requests of different keys and requests
\* without a key never do; a key changes its session only by being evicted, though
\* requests look for it before they take the lock that lets them add it.
SessionsAgree ==
  \A c, d \in Clients :
    c # d /\ lookup[c] = "done" /\ lookup[d] = "done" =>
      (held[c] = held[d] <=>
         KeyOf[c] # Nameless /\ KeyOf[c] = KeyOf[d] /\ held_since[c] = held_since[d])

\* The order lists every key of the map once and nothing else, so that the bound is
\* kept and each eviction frees a place.
OrderIsExact ==
  /\ {pool_order[i] : i \in 1 .. Len(pool_order)} = Pooled
  /\ \A i, j \in 1 .. Len(pool_order) : i # j => pool_order[i] # pool_order[j]
  /\ Len(pool_order) <= MaxSessions

\* Who shares a session is decided by the keys alone, within the bound of the map.
PoolExact == SessionsAgree /\ OrderIsExact
=============================================================================
