-------------------------- MODULE HostedRunProofs ---------------------------
(***************************************************************************)
(* The session pool, for any number of requests and keys and any pool      *)
(* size; and the log, the writer and the transports of a run, for any      *)
(* number of observers, a ring of any size and a stream of any length,     *)
(* with the steps of their refinement of ReplayStream.                     *)
(***************************************************************************)
EXTENDS RunStream, Invocations, TLAPS

-----------------------------------------------------------------------------
(* The pool.                                                                 *)

\* The session a finished lookup returned: a fresh one without a key; with one, a
\* session that was made for that key at the same number of evictions, which is
\* still the one in the map if the key was not evicted since.
HeldRight(c) ==
  LET k == KeyOf[c]  s == held[c]
  IN  IF k = Nameless THEN s = c
      ELSE /\ s \in Clients /\ KeyOf[s] = k /\ lookup[s] = "done" /\ held[s] = s
           /\ held_since[s] = held_since[c] /\ held_since[c] <= evictions[k]
           /\ held_since[c] = evictions[k] => pool[k] = s

\* The session in the map was made for its key, since the key's last eviction.
PooledRight(k) ==
  LET s == pool[k]
  IN  s # NoSession =>
        /\ KeyOf[s] = k /\ lookup[s] = "done" /\ held[s] = s /\ held_since[s] = evictions[k]

PoolInv ==
  /\ PoolTypeOK /\ OrderIsExact
  /\ \A c \in Clients : lookup[c] = "missed" => KeyOf[c] # Nameless
  /\ \A c \in Clients : lookup[c] = "done" => HeldRight(c)
  /\ \A k \in SessionKeys : PooledRight(k)
  /\ \A c, d \in Clients :
       /\ lookup[c] = "done" /\ lookup[d] = "done" /\ KeyOf[c] = KeyOf[d] /\ KeyOf[c] # Nameless
       /\ held_since[c] = held_since[d]
       => held[c] = held[d]

-----------------------------------------------------------------------------
(* A lookup keeps the pool in order.                                        *)

\* What an insert of session s under key k leaves: the order of eviction is exact,
\* and a key that goes out is evicted once; no other key is touched.
InsertRight(k, s) ==
  /\ OrderIsExact'
  /\ pool' \in [SessionKeys -> Clients \union {NoSession}]
  /\ pool_order' \in Seq(SessionKeys) /\ evictions' \in [SessionKeys -> Nat]
  /\ \A x \in SessionKeys :
       \/ evictions'[x] = evictions[x] /\ pool'[x] = IF x = k THEN s ELSE pool[x]
       \/ evictions'[x] = evictions[x] + 1 /\ pool'[x] = NoSession

\* A step that leaves the map and the order alone leaves them in agreement.
LEMMA OrderSame ==
  ASSUME PoolInv, UNCHANGED <<pool, pool_order>> PROVE OrderIsExact'
  BY DEF PoolInv, OrderIsExact, Pooled, KeysIn

\* A request that was given session s, by either path.
LEMMA ReturnsOne ==
  ASSUME PoolInv, NEW c \in Clients, KeyOf[c] # Nameless, NEW s, Returns(c, s)
  PROVE  /\ \A d \in Clients : lookup'[d] = IF d = c THEN "done" ELSE lookup[d]
         /\ \A d \in Clients : held'[d] = IF d = c THEN s ELSE held[d]
         /\ \A d \in Clients : held_since'[d] = IF d = c THEN evictions[KeyOf[c]] ELSE held_since[d]
         /\ KeyOf[c] \in SessionKeys
         /\ lookup' \in [Clients -> {"none", "missed", "done"}]
         /\ held_since' \in [Clients -> Nat]
         /\ s \in Clients => held' \in [Clients -> Clients \union {NoSession}]
  BY PoolAssumption, Zenon DEF Returns, PoolInv, PoolTypeOK

\* Somebody who has the session of a key has it since an eviction that is over.
LEMMA HoldersKnow ==
  ASSUME PoolInv, NEW d \in Clients, lookup[d] = "done", KeyOf[d] # Nameless
  PROVE  /\ held[d] \in Clients /\ KeyOf[held[d]] = KeyOf[d] /\ lookup[held[d]] = "done"
         /\ held[held[d]] = held[d] /\ held_since[held[d]] = held_since[d]
         /\ KeyOf[d] \in SessionKeys /\ held_since[d] \in Nat /\ evictions[KeyOf[d]] \in Nat
         /\ held_since[d] <= evictions[KeyOf[d]]
         /\ held_since[d] = evictions[KeyOf[d]] => pool[KeyOf[d]] = held[d]
  BY PoolAssumption, Zenon DEF PoolInv, PoolTypeOK, HeldRight

\* The fast path without a key.
LEMMA NamelessKeeps ==
  ASSUME PoolInv, NEW c \in Clients, lookup[c] = "none", KeyOf[c] = Nameless, Returns(c, c),
         UNCHANGED <<pool, pool_order, evictions>>
  PROVE  PoolInv'
<1>1. /\ \A d \in Clients : lookup'[d] = IF d = c THEN "done" ELSE lookup[d]
      /\ \A d \in Clients : held'[d] = IF d = c THEN c ELSE held[d]
      /\ \A d \in Clients : held_since'[d] = IF d = c THEN 0 ELSE held_since[d]
      /\ PoolTypeOK'
  BY PoolAssumption, Zenon DEF Returns, PoolInv, PoolTypeOK
<1>2. OrderIsExact'
  BY OrderSame, Zenon
<1>3. ASSUME NEW d \in Clients, lookup'[d] = "done" PROVE HeldRight(d)'
  <2>1. CASE d = c
    BY <1>1, <2>1, Zenon DEF HeldRight
  <2>2. CASE d # c /\ KeyOf[d] = Nameless
    BY <1>1, <1>3, <2>2, Zenon DEF HeldRight, PoolInv
  <2>3. CASE d # c /\ KeyOf[d] # Nameless
    BY <1>1, <1>3, <2>3, HoldersKnow DEF HeldRight
  <2> QED
    BY <2>1, <2>2, <2>3, Zenon
<1>4. ASSUME NEW k \in SessionKeys PROVE PooledRight(k)'
  <2>1. PooledRight(k) /\ pool[k] \in Clients \union {NoSession} /\ k # Nameless
    BY PoolAssumption, Zenon DEF PoolInv, PoolTypeOK
  <2> QED
    BY <1>1, <2>1, Zenon DEF PooledRight
<1>5. \A x, d \in Clients :
        /\ lookup'[x] = "done" /\ lookup'[d] = "done" /\ KeyOf[x] = KeyOf[d] /\ KeyOf[x] # Nameless
        /\ held_since'[x] = held_since'[d]
        => held'[x] = held'[d]
  BY <1>1 DEF PoolInv
<1>6. \A d \in Clients : lookup'[d] = "missed" => KeyOf[d] # Nameless
  BY <1>1, Zenon DEF PoolInv
<1> QED
  BY <1>1, <1>2, <1>3, <1>4, <1>5, <1>6, Zenon DEF PoolInv

\* A request that finds its key in the map shares the session there.
LEMMA FoundKeeps ==
  ASSUME PoolInv, NEW c \in Clients, lookup[c] # "done", KeyOf[c] # Nameless,
         KeyOf[c] \in Pooled, Returns(c, pool[KeyOf[c]]), UNCHANGED <<pool, pool_order, evictions>>
  PROVE  PoolInv'
<1> DEFINE k == KeyOf[c]
           s == pool[KeyOf[c]]
<1>1. /\ s \in Clients /\ KeyOf[s] = k /\ lookup[s] = "done" /\ held[s] = s
      /\ held_since[s] = evictions[k] /\ evictions[k] \in Nat /\ s # c
  BY PoolAssumption DEF PoolInv, PoolTypeOK, Pooled, KeysIn, PooledRight
<1>2. /\ \A d \in Clients : lookup'[d] = IF d = c THEN "done" ELSE lookup[d]
      /\ \A d \in Clients : held'[d] = IF d = c THEN s ELSE held[d]
      /\ \A d \in Clients : held_since'[d] = IF d = c THEN evictions[k] ELSE held_since[d]
      /\ k \in SessionKeys
  BY ReturnsOne, Zenon
<1>3. PoolTypeOK'
  BY <1>1, ReturnsOne, ZenonT(40) DEF PoolInv, PoolTypeOK
<1>4. OrderIsExact'
  BY OrderSame, Zenon
<1>5. ASSUME NEW d \in Clients, lookup'[d] = "done" PROVE HeldRight(d)'
  <2>1. CASE d = c
    BY <1>1, <1>2, <2>1 DEF HeldRight
  <2>2. CASE d # c /\ KeyOf[d] = Nameless
    BY <1>2, <1>5, <2>2, ZenonT(40) DEF HeldRight, PoolInv
  <2>3. CASE d # c /\ KeyOf[d] # Nameless
    <3>1. held[d] # c
      BY <1>2, <1>5, <2>3, HoldersKnow, Zenon
    <3> QED
      BY <1>2, <1>5, <2>3, <3>1, HoldersKnow DEF HeldRight
  <2> QED
    BY <2>1, <2>2, <2>3, ZenonT(40)
<1>6. ASSUME NEW x \in SessionKeys PROVE PooledRight(x)'
  <2>1. PooledRight(x) /\ pool[x] \in Clients \union {NoSession}
    BY Zenon DEF PoolInv, PoolTypeOK
  <2> QED
    BY <1>2, <2>1, Zenon DEF PooledRight
<1>7. \A x, d \in Clients :
        /\ lookup'[x] = "done" /\ lookup'[d] = "done" /\ KeyOf[x] = KeyOf[d] /\ KeyOf[x] # Nameless
        /\ held_since'[x] = held_since'[d]
        => held'[x] = held'[d]
  <2>1. \A d \in Clients : d # c /\ lookup[d] = "done" /\ KeyOf[d] = k /\ held_since[d] = evictions[k]
                             => held[d] = s
    BY HoldersKnow, Zenon
  <2> QED
    BY <1>2, <2>1, SMTT(30) DEF PoolInv
<1>8. \A d \in Clients : lookup'[d] = "missed" => KeyOf[d] # Nameless
  BY <1>2, Zenon DEF PoolInv
<1> QED
  BY <1>3, <1>4, <1>5, <1>6, <1>7, <1>8, Zenon DEF PoolInv

\* A request that finds its key gone inserts its own session, and nobody holds a
\* session of this key at its current number of evictions.
LEMMA InsertKeeps ==
  ASSUME PoolInv, NEW c \in Clients, lookup[c] # "done", KeyOf[c] # Nameless,
         KeyOf[c] \notin Pooled, InsertRight(KeyOf[c], c), Returns(c, c)
  PROVE  PoolInv'
<1> DEFINE k == KeyOf[c]
<1>1. k \in SessionKeys /\ pool[k] = NoSession /\ NoSession \notin Clients /\ evictions[k] \in Nat
  BY PoolAssumption, Zenon DEF PoolInv, PoolTypeOK, Pooled, KeysIn
<1>2. /\ \A d \in Clients : lookup'[d] = IF d = c THEN "done" ELSE lookup[d]
      /\ \A d \in Clients : held'[d] = IF d = c THEN c ELSE held[d]
      /\ \A d \in Clients : held_since'[d] = IF d = c THEN evictions[k] ELSE held_since[d]
  BY ReturnsOne, Zenon
<1>3. /\ OrderIsExact'
      /\ \A x \in SessionKeys :
           \/ evictions'[x] = evictions[x] /\ pool'[x] = IF x = k THEN c ELSE pool[x]
           \/ evictions'[x] = evictions[x] + 1 /\ pool'[x] = NoSession
      /\ evictions \in [SessionKeys -> Nat]
  BY Zenon DEF InsertRight, PoolInv, PoolTypeOK
<1>4. PoolTypeOK'
  BY <1>1, ReturnsOne, Zenon DEF InsertRight, PoolTypeOK
<1>5. \A d \in Clients : lookup[d] = "done" /\ KeyOf[d] = k => held_since[d] < evictions[k]
  BY <1>1, HoldersKnow
<1>6. ASSUME NEW d \in Clients, lookup'[d] = "done" PROVE HeldRight(d)'
  <2>1. CASE d = c
    BY <1>1, <1>2, <1>3, <2>1 DEF HeldRight
  <2>2. CASE d # c /\ KeyOf[d] = Nameless
    BY <1>2, <1>6, <2>2, Zenon DEF HeldRight, PoolInv
  <2>3. CASE d # c /\ KeyOf[d] # Nameless
    <3> DEFINE x == KeyOf[d]
    <3>1. /\ held[d] \in Clients /\ KeyOf[held[d]] = x /\ lookup[held[d]] = "done"
          /\ held[held[d]] = held[d] /\ held_since[held[d]] = held_since[d]
          /\ x \in SessionKeys /\ held_since[d] \in Nat /\ evictions[x] \in Nat
          /\ held_since[d] <= evictions[x]
          /\ held_since[d] = evictions[x] => pool[x] = held[d]
      BY <1>2, <1>6, <2>3, HoldersKnow, Zenon
    <3>2. held[d] # c /\ held'[d] = held[d] /\ held_since'[d] = held_since[d]
      BY <1>2, <2>3, <3>1, Zenon
    <3>3. /\ held_since[d] <= evictions'[x]
          /\ held_since[d] = evictions'[x] => pool'[x] = held[d]
      <4>1. x = k => held_since[d] < evictions[k]
        BY <1>2, <1>5, <1>6, <2>3, ZenonT(40)
      <4> HIDE DEF x, k
      <4>2. CASE evictions'[x] = evictions[x] /\ pool'[x] = IF x = k THEN c ELSE pool[x]
        BY <3>1, <4>1, <4>2
      <4>3. CASE evictions'[x] = evictions[x] + 1
        BY <3>1, <4>3
      <4> QED
        BY <1>3, <3>1, <4>2, <4>3, Zenon
    <3> QED
      BY <1>2, <2>3, <3>1, <3>2, <3>3, Zenon DEF HeldRight
  <2> QED
    BY <2>1, <2>2, <2>3, Zenon
<1>7. ASSUME NEW x \in SessionKeys PROVE PooledRight(x)'
  <2>1. PooledRight(x) /\ pool[x] \in Clients \union {NoSession}
    BY Zenon DEF PoolInv, PoolTypeOK
  <2>2. CASE x = k
    BY <1>1, <1>2, <1>3, <2>2, Zenon DEF PooledRight
  <2>3. CASE x # k
    BY <1>2, <1>3, <2>1, <2>3, Zenon DEF PooledRight
  <2> QED
    BY <2>2, <2>3, Zenon
<1>8. \A x, d \in Clients :
        /\ lookup'[x] = "done" /\ lookup'[d] = "done" /\ KeyOf[x] = KeyOf[d] /\ KeyOf[x] # Nameless
        /\ held_since'[x] = held_since'[d]
        => held'[x] = held'[d]
  <2>1. \A d \in Clients : d # c /\ lookup[d] = "done" /\ KeyOf[d] = k => held_since[d] # evictions[k]
    BY <1>1, HoldersKnow
  <2> QED
    BY <1>2, <2>1, SMTT(30) DEF PoolInv
<1>9. \A d \in Clients : lookup'[d] = "missed" => KeyOf[d] # Nameless
  BY <1>2, Zenon DEF PoolInv
<1> QED
  BY <1>3, <1>4, <1>6, <1>7, <1>8, <1>9, Zenon DEF PoolInv

\* The pool starts empty and exact.
LEMMA PoolStarts == PoolInit => PoolInv
<1> SUFFICES ASSUME PoolInit PROVE PoolInv
  BY Zenon
<1>1. PoolTypeOK
  BY DEF PoolInit, PoolTypeOK
<1>2. OrderIsExact
  BY PoolAssumption DEF PoolInit, OrderIsExact, Pooled, KeysIn
<1> QED
  BY <1>1, <1>2, Zenon DEF PoolInit, PoolInv, PooledRight

\* The pool invariant gives PoolExact.
LEMMA InvAgrees == PoolInv => PoolExact
<1> SUFFICES ASSUME PoolInv PROVE SessionsAgree
  BY Zenon DEF PoolInv, PoolExact
<1> SUFFICES ASSUME NEW c \in Clients, NEW d \in Clients,
                    c # d, lookup[c] = "done", lookup[d] = "done"
             PROVE  held[c] = held[d] <=>
                      KeyOf[c] # Nameless /\ KeyOf[c] = KeyOf[d] /\ held_since[c] = held_since[d]
  BY Zenon DEF SessionsAgree
<1>1. \A x \in Clients : lookup[x] = "done" /\ KeyOf[x] = Nameless => held[x] = x
  BY ZenonT(40) DEF PoolInv, HeldRight
<1>2. ASSUME held[c] = held[d]
      PROVE  KeyOf[c] # Nameless /\ KeyOf[c] = KeyOf[d] /\ held_since[c] = held_since[d]
  BY <1>1, <1>2, HoldersKnow
<1>3. ASSUME KeyOf[c] # Nameless, KeyOf[c] = KeyOf[d], held_since[c] = held_since[d]
      PROVE  held[c] = held[d]
  BY <1>3, Zenon DEF PoolInv
<1> QED
  BY <1>2, <1>3, Zenon

-----------------------------------------------------------------------------
(* The log of a run, its writer and its readers.                             *)

Events == [id : Nat, kind : Kinds]
Awake == {"idle", "registered", "parking", "waiting"}
Responses == Kinds \union {"nothing", "open", "dropped", "error500", "failed_to_start", "no_terminal"}
Unwinding == {"unwind", "mark_notify", "note", "unlock", "finished"}

Types ==
  /\ events \in Seq(Events) /\ first_seq \in Nat /\ terminal \in BOOLEAN
  /\ waiters \subseteq Subs /\ cursor \in [Subs -> Nat]
  /\ pending \in [Subs -> Seq(Events)] /\ done \in [Subs -> BOOLEAN]
  /\ phase \in [Subs -> Awake \union {"new", "ended", "gone"}]
  /\ writer \in {"launch", "drain", "append_notify"} \union Unwinding
  /\ emitted \in Nat /\ start_error \in BOOLEAN /\ mode \in {"sse", "oneshot", "async"}
  /\ pos \in [Subs -> Nat] /\ seen \in [Subs -> Kinds \union {"nothing"}]
  /\ response \in [Subs -> Responses]

\* The ring has lost events only if it is full, and a terminal event is the last
\* of the stream.
RingInv ==
  /\ RingIsSuffix
  /\ first_seq > 0 => Len(events) = MaxEvents
  /\ \A i \in 1 .. Len(events) : Terminal(events[i]) => i = Len(events) /\ terminal

\* A run that was not launched yet has no end, one that failed to start no event.
WriterInv ==
  /\ writer = "launch" => ~terminal /\ ~start_error /\ emitted = 0
  /\ start_error => writer \in Unwinding /\ emitted = 0

\* The last event of the stream; the ring never drops it.
LastKind == events[Len(events)].kind

\* What a transport holds is the stretch of the stream from its position up to its
\* cursor, and it knows the kind of what it sent last: an item, unless that is the
\* last event of the stream.
HoldsStretch(s) ==
  /\ cursor[s] = pos[s] + Len(pending[s]) /\ cursor[s] <= emitted
  /\ \A i \in 1 .. Len(pending[s]) :
       /\ pending[s][i].id = pos[s] + i
       /\ pending[s][i].kind = IF pos[s] + i = emitted THEN LastKind ELSE "item"
  /\ seen[s] = IF pos[s] = 0 THEN "nothing"
               ELSE IF pos[s] = emitted THEN LastKind ELSE "item"

\* A transport is done when it sent a terminal event, waits only with nothing in
\* hand, and ends only at the end.
EndsRight(s) ==
  /\ done[s] <=> SawTerminal(s)
  /\ phase[s] \in {"registered", "parking", "waiting"} => pending[s] = <<>> /\ ~done[s]
  /\ phase[s] = "ended" => terminal /\ pos[s] = emitted /\ response[s] = ResponseOf(s)

SubInv == \A s \in Subs : HoldsStretch(s) /\ EndsRight(s)

StreamInv == Types /\ RingInv /\ WriterInv /\ SubInv

-----------------------------------------------------------------------------
(* What read_from returns.                                                   *)

\* The part of a sequence from a position on.
LEMMA SuffixIs ==
  ASSUME NEW S, NEW s \in Seq(S), NEW m \in 1 .. Len(s) + 1
  PROVE  /\ SubSeq(s, m, Len(s)) \in Seq(S)
         /\ Len(SubSeq(s, m, Len(s))) = IF m <= Len(s) THEN Len(s) - m + 1 ELSE 0
         /\ \A i \in 1 .. Len(s) - m + 1 : SubSeq(s, m, Len(s))[i] = s[m + i - 1]
<1> DEFINE q == SubSeq(s, m, Len(s))
           k == Len(s) - m + 1
<1>1. Len(s) \in Nat /\ k \in Nat /\ \A i \in 1 .. k : m + i - 1 \in 1 .. Len(s)
  OBVIOUS
<1>2. Len(q) = k
  OBVIOUS
<1>3. \A i \in 1 .. k : q[i] = s[m + i - 1]
  OBVIOUS
<1>4. q \in Seq(S)
  OBVIOUS
<1> QED
  BY <1>1, <1>2, <1>3, <1>4

\* read_from gives the rest of the stream from the cursor on, or from the oldest
\* event of the ring if the cursor's was evicted, and a cursor at its end.
LEMMA ReadsRest ==
  ASSUME Types, RingInv, NEW c \in Nat, c <= emitted
  PROVE  LET from == MaxOf(c, first_seq)  slice == ReadFrom(c)
         IN  /\ from \in c .. emitted /\ from \in Nat
             /\ slice.events \in Seq(Events) /\ Len(slice.events) = emitted - from
             /\ \A i \in 1 .. emitted - from : slice.events[i] = events[from - first_seq + i]
             /\ slice.next_cursor = emitted /\ slice.terminal = terminal
<1> DEFINE from == MaxOf(c, first_seq)
           low == from - first_seq + 1
<1>1. /\ Len(events) \in Nat /\ emitted = first_seq + Len(events) /\ first_seq \in Nat
      /\ emitted \in Nat
  BY DEF Types, RingInv, RingIsSuffix
<1>2. from \in c .. emitted /\ from \in Nat /\ from >= first_seq
  BY <1>1 DEF MaxOf
<1> HIDE DEF from
<1>3. low \in 1 .. Len(events) + 1
  BY <1>1, <1>2
<1>4. /\ SubSeq(events, low, Len(events)) \in Seq(Events)
      /\ Len(SubSeq(events, low, Len(events))) = emitted - from
      /\ \A i \in 1 .. emitted - from :
           SubSeq(events, low, Len(events))[i] = events[from - first_seq + i]
  <2>1. events \in Seq(Events)
    BY Zenon DEF Types
  <2>2. /\ SubSeq(events, low, Len(events)) \in Seq(Events)
        /\ Len(SubSeq(events, low, Len(events))) =
             IF low <= Len(events) THEN Len(events) - low + 1 ELSE 0
        /\ \A i \in 1 .. Len(events) - low + 1 :
             SubSeq(events, low, Len(events))[i] = events[low + i - 1]
    BY <1>3, <2>1, SuffixIs, Zenon
  <2>3. /\ Len(events) - low + 1 = emitted - from
        /\ (IF low <= Len(events) THEN Len(events) - low + 1 ELSE 0) = emitted - from
        /\ \A i \in Int : low + i - 1 = from - first_seq + i
    BY <1>1, <1>2, <1>3
  <2>4. emitted - from \in Int
    BY <1>1, <1>2
  <2> HIDE DEF low
  <2>5. ASSUME NEW i \in 1 .. emitted - from
        PROVE  SubSeq(events, low, Len(events))[i] = events[from - first_seq + i]
    <3>1. i \in Int /\ i \in 1 .. Len(events) - low + 1
      BY <2>3, <2>4
    <3>2. SubSeq(events, low, Len(events))[i] = events[low + i - 1]
      BY <2>2, <3>1, Zenon
    <3> QED
      BY <2>3, <3>1, <3>2, Zenon
  <2> QED
    BY <2>2, <2>3, <2>5, Zenon
<1>5. /\ ReadFrom(c).events = SubSeq(events, low, Len(events))
      /\ ReadFrom(c).next_cursor = from + Len(SubSeq(events, low, Len(events)))
      /\ ReadFrom(c).terminal = terminal
  BY Zenon DEF ReadFrom, from
<1> HIDE DEF low
<1>6. ReadFrom(c).next_cursor = emitted
  BY <1>1, <1>2, <1>4, <1>5
<1> QED
  BY <1>2, <1>4, <1>5, <1>6, Zenon DEF from

-----------------------------------------------------------------------------
(* The inductive invariant.                                                  *)

\* The invariant holds when the run is created.
LEMMA StreamStarts == Init => StreamInv
<1> SUFFICES ASSUME Init PROVE StreamInv
  BY Zenon
<1>1. Types
  <2>1. /\ events = <<>> /\ first_seq = 0 /\ terminal = FALSE /\ waiters = {}
        /\ writer = "launch" /\ emitted = 0 /\ start_error = FALSE
        /\ mode \in {"sse", "oneshot", "async"}
    BY Zenon DEF Init, LogInit
  <2>2. /\ cursor \in [Subs -> Nat] /\ done \in [Subs -> BOOLEAN] /\ pos \in [Subs -> Nat]
        /\ phase \in [Subs -> Awake \union {"new", "ended", "gone"}]
        /\ seen \in [Subs -> Kinds \union {"nothing"}] /\ response \in [Subs -> Responses]
    BY Zenon DEF Init, LogInit, Responses
  <2>3. pending \in [Subs -> Seq(Events)] /\ events \in Seq(Events)
    BY DEF Init, LogInit
  <2> QED
    BY <2>1, <2>2, <2>3, Zenon DEF Types
<1>2. Len(events) = 0 /\ \A s \in Subs : pending[s] = <<>> /\ Len(pending[s]) = 0
  BY Zenon DEF Init, LogInit
<1>3. RingInv /\ WriterInv
  BY <1>2, MaxEventsAssumption DEF Init, LogInit, RingInv, RingIsSuffix, WriterInv
<1>4. ASSUME NEW s \in Subs PROVE HoldsStretch(s) /\ EndsRight(s)
  <2>1. /\ cursor[s] = 0 /\ pos[s] = 0 /\ emitted = 0 /\ seen[s] = "nothing" /\ done[s] = FALSE
        /\ phase[s] = "new"
    BY Zenon DEF Init, LogInit
  <2> QED
    BY <1>2, <2>1 DEF HoldsStretch, EndsRight, SawTerminal
<1> QED
  BY <1>1, <1>3, <1>4, Zenon DEF StreamInv, SubInv

\* Steps of the writer that touch neither the log nor the run's outcome: only its
\* place, the waiters and the registry's stamps change.
LEMMA WriterMoves ==
  ASSUME StreamInv, waiters' \subseteq Subs,
         \/ Launched \/ StreamEnds \/ Panics \/ AppendNotifies
         \/ GuardNotifies \/ GuardNotesTerminal \/ GuardUnlocks
  PROVE  StreamInv'
<1>1. /\ UNCHANGED <<logVars, cursor, pending, done, phase, emitted, start_error, transportVars>>
      /\ writer' \in {"drain"} \union Unwinding
      /\ writer \in Unwinding => writer' \in Unwinding
  BY Zenon DEF Launched, StreamEnds, Panics, AppendNotifies, GuardNotifies, GuardNotesTerminal,
         GuardUnlocks, NotifyWaiters, subVars, Unwinding
<1>2. Types'
  BY <1>1, Zenon DEF StreamInv, Types, logVars, transportVars
<1>3. RingInv'
  BY <1>1, Zenon DEF StreamInv, RingInv, RingIsSuffix, logVars
<1>4. WriterInv'
  BY <1>1, Zenon DEF StreamInv, WriterInv, logVars, Unwinding
<1>5. SubInv'
  BY <1>1 DEF StreamInv, SubInv, HoldsStretch, EndsRight, SawTerminal, ResponseOf, OneShot,
              LastKind, logVars, transportVars
<1> QED
  BY <1>2, <1>3, <1>4, <1>5, Zenon DEF StreamInv

\* The run fails to start: nothing was emitted, and no transport has ended.
LEMMA StartFails ==
  ASSUME StreamInv, StartFailed PROVE StreamInv'
<1>1. /\ UNCHANGED <<logVars, subVars, emitted, transportVars>>
      /\ writer = "launch" /\ writer' = "unwind" /\ start_error' = TRUE
  BY Zenon DEF StartFailed
<1>2. Types' /\ RingInv' /\ WriterInv'
  BY <1>1, Zenon DEF StreamInv, Types, RingInv, RingIsSuffix, WriterInv, logVars, subVars,
              transportVars, Unwinding
<1>3. \A s \in Subs : phase[s] # "ended"
  BY <1>1, Zenon DEF StreamInv, WriterInv, SubInv, EndsRight
<1>4. SubInv'
  BY <1>1, <1>3, ZenonT(40) DEF StreamInv, SubInv, HoldsStretch, EndsRight, SawTerminal, LastKind,
                    logVars, subVars, transportVars
<1> QED
  BY <1>2, <1>4, Zenon DEF StreamInv

\* The guard closes the log: who was done is still, who ended has ended before.
LEMMA GuardMarks ==
  ASSUME StreamInv, GuardMarksTerminal PROVE StreamInv'
<1>1. /\ UNCHANGED <<events, first_seq, subVars, emitted, start_error, transportVars>>
      /\ writer = "unwind" /\ writer' = "mark_notify" /\ terminal' = TRUE
  BY Zenon DEF GuardMarksTerminal, MarkTerminal
<1>2. Types' /\ RingInv' /\ WriterInv'
  BY <1>1, Zenon DEF StreamInv, Types, RingInv, RingIsSuffix, WriterInv, subVars,
              transportVars, Unwinding, Terminal
<1>3. SubInv'
  BY <1>1 DEF StreamInv, SubInv, HoldsStretch, EndsRight, SawTerminal, ResponseOf, OneShot,
              LastKind, subVars, transportVars
<1> QED
  BY <1>2, <1>3, Zenon DEF StreamInv

-----------------------------------------------------------------------------
(* The writer appends an event.                                              *)

\* An event appended to the ring, and the eviction it causes, keep the invariant.
LEMMA YieldKeeps ==
  ASSUME StreamInv, NEW kind \in Kinds, StreamYields(kind)
  PROVE  StreamInv'
<1> DEFINE ev == [id |-> emitted + 1, kind |-> kind]
<1>1. /\ ~terminal /\ emitted' = emitted + 1 /\ AppendEvent(ev)
      /\ writer = "drain" /\ writer' = "append_notify"
      /\ UNCHANGED <<subVars, start_error, transportVars>>
  BY Zenon DEF StreamYields
<1>2. ev \in Events /\ ev.id = emitted + 1 /\ ev.kind = kind
  BY DEF StreamInv, Types, Events
<1> HIDE DEF ev
<1>3. /\ events \in Seq(Events) /\ Len(events) \in Nat /\ first_seq \in Nat /\ emitted \in Nat
      /\ MaxEvents \in Nat /\ MaxEvents > 0 /\ Len(events) <= MaxEvents
      /\ first_seq + Len(events) = emitted
      /\ \A i \in 1 .. Len(events) : events[i].id = first_seq + i /\ ~Terminal(events[i])
  BY <1>1, MaxEventsAssumption DEF StreamInv, Types, RingInv, RingIsSuffix
<1>4. /\ events' \in Seq(Events) /\ first_seq' \in Nat /\ terminal' = Terminal(ev)
      /\ Len(events') > 0 /\ Len(events') <= MaxEvents /\ Len(events') \in Nat
      /\ first_seq' + Len(events') = emitted'
      /\ first_seq' > 0 => Len(events') = MaxEvents
      /\ \A i \in 1 .. Len(events') - 1 : events'[i].id = first_seq' + i /\ ~Terminal(events'[i])
      /\ events'[Len(events')] = ev
  <2>1. terminal' = Terminal(ev)
    BY <1>1, Zenon DEF AppendEvent, Terminal
  <2>2. CASE Len(events) = MaxEvents
    <3>1. events # <<>> /\ Tail(events) \in Seq(Events) /\ Len(Tail(events)) = Len(events) - 1
          /\ \A i \in 1 .. Len(events) - 1 : Tail(events)[i] = events[i + 1]
      BY <1>3, <2>2
    <3>2. events' = Append(Tail(events), ev) /\ first_seq' = first_seq + 1
      BY <1>1, <2>2, Zenon DEF AppendEvent
    <3>3. /\ events' \in Seq(Events) /\ Len(events') = Len(events)
          /\ events'[Len(events')] = ev
          /\ \A i \in 1 .. Len(events) - 1 : events'[i] = events[i + 1]
      BY <1>2, <1>3, <3>1, <3>2
    <3>4. ASSUME NEW i \in 1 .. Len(events) - 1
          PROVE  events'[i].id = first_seq' + i /\ ~Terminal(events'[i])
      <4>1. i + 1 \in 1 .. Len(events) /\ first_seq + (i + 1) = first_seq' + i
        BY <1>3, <3>2
      <4> QED
        BY <1>3, <3>3, <4>1, Zenon
    <3>5. /\ first_seq' \in Nat /\ first_seq' + Len(events) = emitted'
          /\ Len(events) > 0 /\ Len(events) <= MaxEvents
      BY <1>1, <1>3, <2>2, <3>2
    <3> QED
      BY <1>3, <2>1, <2>2, <3>3, <3>4, <3>5, Zenon
  <2>3. CASE Len(events) # MaxEvents
    <3>1. events' = Append(events, ev) /\ first_seq' = first_seq
      BY <1>1, <2>3, Zenon DEF AppendEvent
    <3>2. /\ events' \in Seq(Events) /\ Len(events') = Len(events) + 1
          /\ events'[Len(events')] = ev
          /\ \A i \in 1 .. Len(events) : events'[i] = events[i]
      BY <1>2, <1>3, <3>1
    <3>3. first_seq = 0
      BY <1>3, <2>3 DEF StreamInv, RingInv
    <3> QED
      BY <1>1, <1>3, <2>1, <2>3, <3>1, <3>2, <3>3
  <2> QED
    BY <2>2, <2>3, Zenon
<1>5. Types'
  BY <1>1, <1>3, <1>4 DEF StreamInv, Types, Terminal, subVars, transportVars
<1>6. RingInv'
  <2>1. ASSUME NEW i \in 1 .. Len(events')
        PROVE  /\ events'[i].id = first_seq' + i
               /\ Terminal(events'[i]) => i = Len(events') /\ terminal'
    <3>1. CASE i = Len(events')
      BY <1>1, <1>2, <1>3, <1>4, <3>1, Zenon
    <3>2. CASE i # Len(events')
      <4>1. i \in 1 .. Len(events') - 1
        BY <1>4, <3>2
      <4> QED
        BY <1>4, <4>1, Zenon
    <3> QED
      BY <3>1, <3>2, Zenon
  <2> QED
    BY <1>4, <2>1, Zenon DEF RingInv, RingIsSuffix, Terminal
<1>7. WriterInv'
  BY <1>1, Zenon DEF StreamInv, WriterInv, Unwinding
<1>8. ASSUME NEW s \in Subs PROVE HoldsStretch(s)' /\ EndsRight(s)'
  <2>1. /\ cursor[s] = pos[s] + Len(pending[s]) /\ cursor[s] <= emitted
        /\ pos[s] \in Nat /\ cursor[s] \in Nat /\ Len(pending[s]) \in Nat
        /\ UNCHANGED <<cursor, pending, done, phase, pos, seen, response>>
    BY <1>1 DEF StreamInv, SubInv, HoldsStretch, Types, subVars, transportVars
  <2>2. emitted > 0 => LastKind = "item"
    <3>1. emitted > 0 => Len(events) > 0
      BY <1>3 DEF StreamInv, RingInv
    <3> QED
      BY <1>3, <3>1 DEF LastKind, Terminal
  <2>3. \A i \in 1 .. Len(pending[s]) :
          pending[s][i].id = pos[s] + i /\ pending[s][i].kind = "item" /\ pos[s] + i # emitted'
    <3> SUFFICES ASSUME NEW i \in 1 .. Len(pending[s])
                 PROVE  /\ pending[s][i].id = pos[s] + i /\ pending[s][i].kind = "item"
                        /\ pos[s] + i # emitted'
      BY Zenon
    <3>1. /\ pending[s][i].id = pos[s] + i
          /\ pending[s][i].kind = IF pos[s] + i = emitted THEN LastKind ELSE "item"
      BY Zenon DEF StreamInv, SubInv, HoldsStretch
    <3>2. emitted > 0 /\ pos[s] + i # emitted + 1
      BY <1>3, <2>1
    <3> QED
      BY <1>1, <2>2, <3>1, <3>2, Zenon
  <2>4. seen[s] = (IF pos[s] = 0 THEN "nothing" ELSE "item") /\ pos[s] # emitted'
    BY <1>1, <1>3, <2>1, <2>2 DEF StreamInv, SubInv, HoldsStretch
  <2>5. HoldsStretch(s)'
    BY <1>1, <1>3, <2>1, <2>3, <2>4, SMTT(30) DEF HoldsStretch
  <2>6. EndsRight(s)'
    BY <1>1, <2>1, Zenon DEF StreamInv, SubInv, EndsRight, SawTerminal
  <2> QED
    BY <2>5, <2>6, Zenon
<1> QED
  BY <1>5, <1>6, <1>7, <1>8, Zenon DEF StreamInv, SubInv

-----------------------------------------------------------------------------
(* The transports.                                                           *)

\* A transport connects, waits or wakes: only its place and the waiters change.
LEMMA WaitKeeps ==
  ASSUME StreamInv, NEW s \in Subs, Connect(s) \/ Wait(s)
  PROVE  StreamInv'
<1>1. /\ UNCHANGED <<logVars, writerVars, transportVars, cursor, pending, done>>
      /\ waiters' \subseteq Subs
      /\ \E to \in Awake :
           /\ phase' = [phase EXCEPT ![s] = to]
           /\ to # "idle" => pending[s] = <<>> /\ ~done[s]
  BY Zenon DEF Connect, Wait, Subscribe, Register, Block, Park, Wake, Awake, StreamInv, Types, SubInv,
         EndsRight
<1>2. Types'
  BY <1>1, Zenon DEF StreamInv, Types, logVars, writerVars, transportVars
<1>3. RingInv' /\ WriterInv'
  BY <1>1, Zenon DEF StreamInv, RingInv, RingIsSuffix, WriterInv, logVars, writerVars
<1>4. ASSUME NEW u \in Subs PROVE HoldsStretch(u)' /\ EndsRight(u)'
  <2>1. HoldsStretch(u)'
    BY <1>1, Zenon DEF StreamInv, SubInv, HoldsStretch, LastKind, logVars, writerVars, transportVars
  <2>2. ResponseOf(u)' = ResponseOf(u) /\ SawTerminal(u)' = SawTerminal(u)
    BY <1>1, Zenon DEF ResponseOf, OneShot, SawTerminal, logVars, writerVars, transportVars
  <2>3. EndsRight(u)'
    BY <1>1, <2>2, Zenon DEF StreamInv, Types, SubInv, EndsRight, Awake, logVars, writerVars, transportVars
  <2> QED
    BY <2>1, <2>3, Zenon
<1> QED
  BY <1>2, <1>3, <1>4, Zenon DEF StreamInv, SubInv

\* The stream of a transport is over, or its client leaves.
LEMMA LeaveKeeps ==
  ASSUME StreamInv, NEW s \in Subs, Finish(s) \/ Disconnect(s)
  PROVE  StreamInv' /\ (Finish(s) => terminal /\ pos[s] = emitted)
<1>1. /\ UNCHANGED <<logVars, writer, emitted, start_error, mode, pos, seen, cursor, pending, done>>
      /\ waiters' \subseteq Subs
      /\ \/ /\ Finish(s) /\ phase' = [phase EXCEPT ![s] = "ended"]
            /\ response' = [response EXCEPT ![s] = ResponseOf(s)]
         \/ /\ ~Finish(s) /\ phase' = [phase EXCEPT ![s] = "gone"]
            /\ response' = [response EXCEPT ![s] = "dropped"]
  BY Zenon DEF Finish, Disconnect, EndOfStream, Unsubscribe, StreamInv, Types
<1>2. Finish(s) => terminal /\ pos[s] = emitted
  <2> SUFFICES ASSUME Finish(s) PROVE terminal /\ pos[s] = emitted
    BY Zenon
  <2>1. /\ pos[s] \in Nat /\ cursor[s] \in Nat /\ emitted \in Nat /\ cursor[s] <= emitted
        /\ cursor[s] = pos[s] + Len(pending[s]) /\ first_seq + Len(events) = emitted
    BY Zenon DEF StreamInv, Types, SubInv, HoldsStretch, RingInv, RingIsSuffix
  <2>2. CASE done[s]
    <3>1. pos[s] = emitted /\ pos[s] # 0 /\ LastKind # "item"
      BY <2>2, Zenon DEF StreamInv, SubInv, HoldsStretch, EndsRight, SawTerminal
    <3>2. Len(events) \in Nat /\ Len(events) > 0
      BY <2>1, <3>1, MaxEventsAssumption DEF StreamInv, RingInv, Types
    <3> QED
      BY <3>1, <3>2 DEF StreamInv, RingInv, LastKind, Terminal
  <2>3. CASE phase[s] = "registered" /\ ReadFrom(cursor[s]).events = <<>> /\ ReadFrom(cursor[s]).terminal
    <3> DEFINE from == MaxOf(cursor[s], first_seq)
    <3>1. terminal /\ pending[s] = <<>>
      BY <2>1, <2>3, ReadsRest, Zenon DEF StreamInv, SubInv, EndsRight
    <3>2. from = emitted
      <4>1. Len(ReadFrom(cursor[s]).events) = emitted - from /\ from \in Nat
        BY <2>1, ReadsRest, Zenon DEF StreamInv
      <4>2. Len(ReadFrom(cursor[s]).events) = 0
        BY <2>3
      <4> HIDE DEF from
      <4> QED
        BY <2>1, <4>1, <4>2
    <3>3. cursor[s] = emitted
      BY <2>1, <3>2, MaxEventsAssumption DEF MaxOf, StreamInv, RingInv, Types
    <3> QED
      BY <2>1, <3>1, <3>3
  <2> QED
    BY <2>2, <2>3, Zenon DEF Finish, EndOfStream
<1>3. Types'
  <2>1. ResponseOf(s) \in Responses
    <3>1. seen[s] \in Responses
      BY Zenon DEF StreamInv, Types, Responses
    <3>2. ResponseOf(s) \in {"error500", "failed_to_start", seen[s], "no_terminal"}
      BY Zenon DEF ResponseOf
    <3> QED
      BY <3>1, <3>2, Zenon DEF Responses
  <2>2. "dropped" \in Responses
    BY Zenon DEF Responses
  <2>3. phase' \in [Subs -> Awake \union {"new", "ended", "gone"}]
    BY <1>1, Zenon DEF StreamInv, Types
  <2>4. response' \in [Subs -> Responses]
    BY <1>1, <2>1, <2>2, Zenon DEF StreamInv, Types
  <2> QED
    BY <1>1, <2>3, <2>4, Zenon DEF StreamInv, Types, logVars
<1>4. RingInv' /\ WriterInv'
  BY <1>1, Zenon DEF StreamInv, RingInv, RingIsSuffix, WriterInv, logVars
<1>5. SubInv'
  BY <1>1, <1>2 DEF StreamInv, Types, SubInv, HoldsStretch, EndsRight, SawTerminal, ResponseOf, OneShot,
              LastKind, logVars
<1> QED
  BY <1>2, <1>3, <1>4, <1>5, Zenon DEF StreamInv

\* Whichever batch a transport takes its next event from, one it holds or one it just
\* read, the batch is the stretch of the stream that ends at its new cursor.
IsStretch(batch, from) ==
  /\ batch \in Seq(Events) /\ batch # <<>> /\ from \in Nat /\ from + Len(batch) <= emitted
  /\ \A i \in 1 .. Len(batch) :
       /\ batch[i].id = from + i
       /\ batch[i].kind = IF from + i = emitted THEN LastKind ELSE "item"

TakesFrom(s, batch, from) ==
  /\ pending' = [pending EXCEPT ![s] = Tail(batch)]
  /\ cursor' = [cursor EXCEPT ![s] = from + Len(batch)]
  /\ done' = [done EXCEPT ![s] = Terminal(Head(batch))]
  /\ pos' = [pos EXCEPT ![s] = Head(batch).id]
  /\ seen' = [seen EXCEPT ![s] = Head(batch).kind]
  /\ phase' = [phase EXCEPT ![s] = "idle"]

\* A send takes a stretch of the stream: from the cursor, or from the oldest event
\* left when the cursor points at one that was evicted.
LEMMA SendTakes ==
  ASSUME StreamInv, NEW s \in Subs, Send(s)
  PROVE  \E batch, from :
           /\ IsStretch(batch, from) /\ TakesFrom(s, batch, from)
           /\ from = pos[s] \/ (from = first_seq /\ pos[s] < first_seq)
<1>1. /\ pos[s] \in Nat /\ cursor[s] \in Nat /\ emitted \in Nat /\ first_seq \in Nat
      /\ pending[s] \in Seq(Events) /\ events \in Seq(Events) /\ Len(events) \in Nat
      /\ cursor[s] <= emitted /\ cursor[s] = pos[s] + Len(pending[s])
      /\ first_seq + Len(events) = emitted
  BY DEF StreamInv, Types, SubInv, HoldsStretch, RingInv, RingIsSuffix
<1>2. CASE Drain(s)
  <2>1. /\ pending[s] # <<>> /\ phase[s] = "idle" /\ NextEvent(s) = Head(pending[s])
    BY <1>2, Zenon DEF Drain, NextEvent
  <2>2. TakesFrom(s, pending[s], pos[s])
    BY <1>1, <1>2, <2>1, Zenon DEF TakesFrom, Drain, Send, StreamInv, Types
  <2>3. IsStretch(pending[s], pos[s])
    BY <1>1, <2>1, Zenon DEF IsStretch, StreamInv, SubInv, HoldsStretch
  <2> QED
    BY <2>2, <2>3, Zenon
<1>3. CASE ReadBatch(s)
  <2> DEFINE slice == ReadFrom(cursor[s])
             from == MaxOf(cursor[s], first_seq)
  <2>1. /\ phase[s] = "registered" /\ slice.events # <<>> /\ pending[s] = <<>>
        /\ cursor[s] = pos[s]
    BY <1>1, <1>3 DEF ReadBatch, StreamInv, SubInv, EndsRight
  <2>2. /\ from \in Nat /\ slice.events \in Seq(Events) /\ Len(slice.events) = emitted - from
        /\ \A i \in 1 .. emitted - from : slice.events[i] = events[from - first_seq + i]
        /\ slice.next_cursor = from + Len(slice.events)
        /\ from = pos[s] \/ (from = first_seq /\ pos[s] < first_seq)
        /\ from >= first_seq
    <3>1. /\ from \in Nat /\ slice.events \in Seq(Events) /\ Len(slice.events) = emitted - from
          /\ \A i \in 1 .. emitted - from : slice.events[i] = events[from - first_seq + i]
          /\ slice.next_cursor = emitted
      BY <1>1, ReadsRest, Zenon DEF StreamInv
    <3>2. /\ from = pos[s] \/ (from = first_seq /\ pos[s] < first_seq)
          /\ from >= first_seq
      BY <1>1, <2>1 DEF MaxOf
    <3> HIDE DEF slice, from
    <3>3. slice.next_cursor = from + Len(slice.events)
      BY <1>1, <3>1
    <3> QED
      BY <3>1, <3>2, <3>3, Zenon
  <2>3. TakesFrom(s, slice.events, from)
    BY <1>1, <1>3, <2>1, <2>2, Zenon DEF TakesFrom, ReadBatch, Send, NextEvent
  <2> HIDE DEF slice, from
  <2>4. ASSUME NEW i \in 1 .. Len(slice.events)
        PROVE  /\ slice.events[i].id = from + i
               /\ slice.events[i].kind = IF from + i = emitted THEN LastKind ELSE "item"
    <3> DEFINE j == from - first_seq + i
    <3>1. j \in 1 .. Len(events) /\ slice.events[i] = events[j] /\ first_seq + j = from + i
      BY <1>1, <2>2
    <3>2. events[j].id = first_seq + j /\ (j # Len(events) => events[j].kind = "item")
      BY <3>1, Zenon DEF StreamInv, RingInv, RingIsSuffix, Terminal
    <3> HIDE DEF j
    <3>3. j = Len(events) <=> from + i = emitted
      <4>1. i \in Int /\ from \in Int
        BY <1>1, <2>2
      <4>2. j \in Int /\ first_seq + j = from + i
        BY <3>1
      <4> QED
        BY <1>1, <4>1, <4>2
    <3> QED
      BY <3>1, <3>2, <3>3, Zenon DEF LastKind
  <2>5. IsStretch(slice.events, from)
    BY <1>1, <2>1, <2>2, <2>4 DEF IsStretch
  <2> QED
    BY <2>2, <2>3, <2>5, Zenon
<1> QED
  BY <1>2, <1>3, Zenon DEF Send

\* A send keeps the invariant, moves one cursor and lets nobody fall asleep.
LEMMA SendKeeps ==
  ASSUME StreamInv, NEW s \in Subs, Send(s)
  PROVE  /\ StreamInv' /\ phase[s] \in Awake /\ phase'[s] \in Awake
         /\ \A u \in Subs \ {s} : phase'[u] = phase[u] /\ pos'[u] = pos[u]
         /\ pos'[s] \in (pos[s] + 1) .. emitted
         /\ pos'[s] = pos[s] + 1 \/ (pos'[s] = first_seq + 1 /\ pos[s] < first_seq)
<1>1. PICK batch, from :
        /\ IsStretch(batch, from) /\ TakesFrom(s, batch, from)
        /\ from = pos[s] \/ (from = first_seq /\ pos[s] < first_seq)
  BY SendTakes, Zenon
<1>2. /\ UNCHANGED <<logVars, writerVars, mode, response>> /\ phase[s] \in Awake
      /\ waiters' \subseteq Subs
  BY Zenon DEF Send, Drain, ReadBatch, Awake, StreamInv, Types
<1>3. /\ Head(batch) \in Events /\ Head(batch) = batch[1]
      /\ Len(batch) \in Nat /\ Len(batch) > 0
      /\ Tail(batch) \in Seq(Events) /\ Len(Tail(batch)) = Len(batch) - 1
      /\ \A i \in 1 .. Len(batch) - 1 : Tail(batch)[i] = batch[i + 1]
  BY <1>1 DEF IsStretch
<1>4. /\ Head(batch).id = from + 1 /\ from \in Nat /\ emitted \in Nat /\ from + Len(batch) <= emitted
      /\ Head(batch).kind = (IF from + 1 = emitted THEN LastKind ELSE "item")
      /\ Head(batch).kind \in Kinds
  BY <1>1, <1>3 DEF IsStretch, StreamInv, Types, Events
<1>5. Types'
  BY <1>1, <1>2, <1>3, <1>4 DEF StreamInv, Types, TakesFrom, Terminal, logVars, writerVars, Awake
<1>6. RingInv' /\ WriterInv'
  BY <1>2, Zenon DEF StreamInv, RingInv, RingIsSuffix, WriterInv, logVars, writerVars
<1>7. LastKind' = LastKind /\ emitted' = emitted /\ terminal' = terminal
  BY <1>2, Zenon DEF LastKind, logVars, writerVars
<1>8. HoldsStretch(s)' /\ EndsRight(s)'
  <2>1. /\ pos'[s] = from + 1 /\ cursor'[s] = from + Len(batch) /\ pending'[s] = Tail(batch)
        /\ seen'[s] = Head(batch).kind /\ phase'[s] = "idle"
        /\ done'[s] <=> Head(batch).kind # "item"
    BY <1>1, <1>4, Zenon DEF TakesFrom, StreamInv, Types, Terminal
  <2>2. ASSUME NEW i \in 1 .. Len(Tail(batch))
        PROVE  /\ Tail(batch)[i].id = from + 1 + i
               /\ Tail(batch)[i].kind = IF from + 1 + i = emitted THEN LastKind ELSE "item"
    <3>1. /\ i + 1 \in 1 .. Len(batch) /\ Tail(batch)[i] = batch[i + 1]
          /\ from + (i + 1) = from + 1 + i
      BY <1>3, <1>4
    <3> QED
      BY <1>1, <3>1, Zenon DEF IsStretch
  <2>3. HoldsStretch(s)'
    <3>1. /\ from + Len(batch) = (from + 1) + Len(Tail(batch)) /\ from + Len(batch) <= emitted
          /\ from + 1 # 0
      BY <1>3, <1>4
    <3> QED
      BY <1>4, <1>7, <2>1, <2>2, <3>1, ZenonT(40) DEF HoldsStretch
  <2>4. EndsRight(s)'
    BY <1>4, <2>1, Zenon DEF EndsRight, SawTerminal, Kinds
  <2> QED
    BY <2>3, <2>4, Zenon
<1>9. ASSUME NEW u \in Subs, u # s PROVE HoldsStretch(u)' /\ EndsRight(u)'
  <2>1. /\ pos'[u] = pos[u] /\ cursor'[u] = cursor[u] /\ pending'[u] = pending[u]
        /\ seen'[u] = seen[u] /\ phase'[u] = phase[u] /\ done'[u] = done[u]
    BY <1>1, <1>9, Zenon DEF TakesFrom, StreamInv, Types
  <2>2. ResponseOf(u)' = ResponseOf(u) /\ SawTerminal(u)' = SawTerminal(u) /\ response' = response
    BY <1>2, <2>1, Zenon DEF ResponseOf, OneShot, SawTerminal, writerVars
  <2>3. HoldsStretch(u)'
    BY <1>7, <2>1, SMTT(30) DEF StreamInv, SubInv, HoldsStretch
  <2>4. EndsRight(u)'
    BY <1>7, <2>1, <2>2, Zenon DEF StreamInv, SubInv, EndsRight
  <2> QED
    BY <2>3, <2>4, Zenon
<1>10. StreamInv'
  BY <1>5, <1>6, <1>8, <1>9, Zenon DEF StreamInv, SubInv
<1>11. /\ pos'[s] = from + 1 /\ phase'[s] = "idle" /\ pos[s] \in Nat /\ first_seq \in Nat
       /\ \A u \in Subs \ {s} : phase'[u] = phase[u] /\ pos'[u] = pos[u]
  BY <1>1, <1>4, Zenon DEF TakesFrom, StreamInv, Types
<1>12. /\ pos'[s] \in (pos[s] + 1) .. emitted
       /\ pos'[s] = pos[s] + 1 \/ (pos'[s] = first_seq + 1 /\ pos[s] < first_seq)
  BY <1>1, <1>3, <1>4, <1>11
<1> QED
  BY <1>2, <1>10, <1>11, <1>12, Zenon DEF Awake

\* Every step keeps the invariant.
LEMMA StreamStep ==
  ASSUME StreamInv, [Next]_vars PROVE StreamInv'
<1>1. waiters \subseteq Subs
  BY Zenon DEF StreamInv, Types
<1>2. CASE \/ Launched \/ StreamEnds \/ Panics \/ AppendNotifies
           \/ GuardNotifies \/ GuardNotesTerminal \/ GuardUnlocks
  <2>1. waiters' \subseteq Subs
    BY <1>1, <1>2, Zenon DEF Launched, StreamEnds, Panics, AppendNotifies, GuardNotifies,
                      GuardNotesTerminal, GuardUnlocks, NotifyWaiters, subVars
  <2> QED
    BY <1>2, <2>1, WriterMoves, Zenon
<1>3. CASE StartFailed
  BY <1>3, StartFails, Zenon
<1>4. CASE GuardMarksTerminal
  BY <1>4, GuardMarks, Zenon
<1>5. CASE \E kind \in Kinds : StreamYields(kind)
  BY <1>5, YieldKeeps, Zenon
<1>6. CASE \E s \in Subs : Connect(s) \/ Wait(s)
  BY <1>6, WaitKeeps, Zenon
<1>7. CASE \E s \in Subs : Finish(s) \/ Disconnect(s)
  BY <1>7, LeaveKeeps, Zenon
<1>8. CASE \E s \in Subs : Send(s)
  BY <1>8, SendKeeps, Zenon
<1>9. CASE UNCHANGED vars
  <2>1. UNCHANGED <<logVars, subVars, writerVars, transportVars>>
    BY <1>9, Zenon DEF vars
  <2>2. Types' /\ RingInv' /\ WriterInv'
    BY <2>1, Zenon DEF StreamInv, Types, RingInv, RingIsSuffix, WriterInv, logVars, subVars, writerVars,
                transportVars
  <2>3. ASSUME NEW s \in Subs PROVE HoldsStretch(s)' /\ EndsRight(s)'
    <3>1. ResponseOf(s)' = ResponseOf(s) /\ SawTerminal(s)' = SawTerminal(s)
      BY <2>1, Zenon DEF ResponseOf, OneShot, SawTerminal, writerVars, transportVars
    <3>2. HoldsStretch(s)'
      BY <2>1, Zenon DEF StreamInv, SubInv, HoldsStretch, LastKind, logVars, subVars, writerVars, transportVars
    <3>3. EndsRight(s)'
      BY <2>1, <3>1, Zenon
         DEF StreamInv, SubInv, EndsRight, logVars, subVars, writerVars, transportVars
    <3> QED
      BY <3>2, <3>3, Zenon
  <2> QED
    BY <2>2, <2>3, Zenon DEF StreamInv, SubInv
<1> QED
  BY <1>2, <1>3, <1>4, <1>5, <1>6, <1>7, <1>8, <1>9, Zenon
  DEF Next, RunnerStep, Bookkeeping, TransportStep

\* The log, its writer and its transports keep the invariant, whatever the schedule.
THEOREM StreamInvariant == Spec => []StreamInv
<1> QED
  BY StreamStarts, StreamStep, PTL DEF Spec

-----------------------------------------------------------------------------
(* What follows from it.                                                     *)

\* The invariant says what each ending means.
LEMMA EndingIsHonest == StreamInv => HonestEnding
<1> SUFFICES ASSUME StreamInv, NEW s \in Subs, phase[s] = "ended"
             PROVE  /\ terminal /\ pos[s] = emitted
                    /\ response[s] =
                         CASE start_error -> IF OneShot(s) THEN "error500" ELSE "failed_to_start"
                           [] ~start_error /\ emitted > 0 /\ Terminal(events[Len(events)])
                                -> events[Len(events)].kind
                           [] OTHER -> "no_terminal"
  BY Zenon DEF HonestEnding
<1>1. terminal /\ pos[s] = emitted /\ response[s] = ResponseOf(s)
  BY Zenon DEF StreamInv, SubInv, EndsRight
<1>2. start_error => ~SawTerminal(s)
  BY <1>1, Zenon DEF StreamInv, SubInv, WriterInv, HoldsStretch, SawTerminal
<1>3. emitted > 0 => seen[s] = LastKind /\ LastKind \in Kinds
  <2> SUFFICES ASSUME emitted > 0 PROVE seen[s] = LastKind /\ LastKind \in Kinds
    BY Zenon
  <2>1. Len(events) \in Nat \ {0}
    BY MaxEventsAssumption DEF StreamInv, Types, RingInv, RingIsSuffix
  <2>2. events[Len(events)] \in Events
    BY <2>1 DEF StreamInv, Types
  <2>3. seen[s] = LastKind
    BY <1>1 DEF StreamInv, Types, SubInv, HoldsStretch
  <2> QED
    BY <2>2, <2>3, Zenon DEF LastKind, Events
<1>4. ~(emitted > 0) => ~SawTerminal(s)
  <2>1. emitted \in Nat /\ (pos[s] = 0 => seen[s] = "nothing")
    BY Zenon DEF StreamInv, Types, SubInv, HoldsStretch
  <2> QED
    BY <1>1, <2>1 DEF SawTerminal
<1>5. (emitted > 0 /\ Terminal(events[Len(events)])) <=> SawTerminal(s)
  BY <1>3, <1>4, Zenon DEF Terminal, LastKind, SawTerminal, Kinds
<1>6. SawTerminal(s) => seen[s] = events[Len(events)].kind
  BY <1>3, <1>4, Zenon DEF LastKind
<1> HIDE DEF SawTerminal, OneShot
<1>7. CASE start_error
  BY <1>1, <1>2, <1>7, Zenon DEF ResponseOf
<1>8. CASE ~start_error /\ SawTerminal(s)
  <2>1. ResponseOf(s) = events[Len(events)].kind
    BY <1>6, <1>8, Zenon DEF ResponseOf
  <2> QED
    BY <1>1, <1>5, <1>8, <2>1, Zenon
<1>9. CASE ~start_error /\ ~SawTerminal(s)
  <2>1. ResponseOf(s) = "no_terminal"
    BY <1>9, Zenon DEF ResponseOf
  <2> QED
    BY <1>1, <1>5, <1>9, <2>1, Zenon
<1> QED
  BY <1>7, <1>8, <1>9, Zenon

\* A response that ended by itself reports what happened to the run, for any ring
\* size, any number of observers and any stream (sse_response, oneshot_response and
\* handle_socket over EventLog::subscribe).
THEOREM EndingsAreHonest == Spec => []HonestEnding
<1> QED
  BY StreamInvariant, EndingIsHonest, PTL

\* A step jumps over events only where the ring has dropped them.
LEMMA StepSkipsOnlyEvicted ==
  ASSUME StreamInv, StreamInv', Next
  PROVE  /\ RingIsSuffix'
         /\ \A s \in Subs : pos'[s] # pos[s] =>
              \/ pos'[s] = pos[s] + 1
              \/ pos'[s] = first_seq + 1 /\ pos[s] < first_seq
<1>1. RingIsSuffix'
  BY Zenon DEF StreamInv, RingInv
<1>2. CASE \E s \in Subs : Send(s)
  BY <1>1, <1>2, SendKeeps, Zenon
<1>3. CASE ~\E s \in Subs : Send(s)
  <2>1. pos' = pos
    BY <1>3, Zenon
       DEF Next, RunnerStep, Bookkeeping, TransportStep, Panics, Launched, StartFailed, StreamEnds,
                StreamYields, AppendNotifies, GuardMarksTerminal, GuardNotifies, GuardNotesTerminal,
                GuardUnlocks, Connect, Wait, Finish, Disconnect, transportVars
  <2> QED
    BY <1>1, <2>1, Zenon
<1> QED
  BY <1>2, <1>3, Zenon

\* A transport moves forward one event at a time and skips only what the ring had
\* evicted when it read, for any ring size (EventLog::append, EventLog::subscribe).
THEOREM SkipsOnlyEvicted == Spec => OnlyEvictionSkips
<1>1. StreamInv /\ StreamInv' /\ [Next]_vars =>
        [/\ RingIsSuffix'
         /\ \A s \in Subs : pos'[s] # pos[s] =>
              \/ pos'[s] = pos[s] + 1
              \/ pos'[s] = first_seq + 1 /\ pos[s] < first_seq]_vars
  BY StepSkipsOnlyEvicted, Zenon
<1> QED
  BY <1>1, StreamInvariant, PTL DEF Spec, OnlyEvictionSkips

-----------------------------------------------------------------------------
(* Safety of the refinement: every step of the log, the writer or a transport *)
(* is a step of the abstract stream, or none.                                 *)

ReplaySafety == Replay!Init /\ [][Replay!Next]_(Replay!streamVars)

ReaderOf == [s \in Subs |-> IF phase[s] \in {"new", "ended", "gone"} THEN phase[s] ELSE "open"]

\* A subscriber that moves, moves its abstract reader and no other.
LEMMA ReaderMoves ==
  ASSUME Types, NEW s \in Subs, NEW to, phase' = [phase EXCEPT ![s] = to]
  PROVE  ReaderOf' = [ReaderOf EXCEPT ![s] = IF to \in {"new", "ended", "gone"} THEN to ELSE "open"]
<1>1. \A u \in Subs : phase'[u] = IF u = s THEN to ELSE phase[u]
  BY Zenon DEF Types
<1> QED
  BY <1>1, Zenon DEF ReaderOf

\* The initial states are initial states of the replay stream.
LEMMA ReplayStarts == Init => Replay!Init
  BY ZenonT(40) DEF Init, LogInit, Replay!Init

\* Every step is a step of the replay stream, or none.
LEMMA ReplayStep ==
  ASSUME StreamInv, [Next]_vars PROVE [Replay!Next]_(Replay!streamVars)
<1>0. /\ Replay!streamVars = <<emitted, terminal, pos, ReaderOf>> 
      /\ (Replay!streamVars)' = <<emitted', terminal', pos', ReaderOf'>>
      /\ Types
  BY Zenon DEF Replay!streamVars, ReaderOf, StreamInv
<1>1. CASE UNCHANGED <<emitted, terminal, pos, phase>>
  BY <1>0, <1>1, Zenon DEF ReaderOf
<1>2. CASE \E kind \in Kinds : StreamYields(kind)
  <2>1. /\ ~terminal /\ emitted' = emitted + 1 /\ terminal' \in BOOLEAN
        /\ UNCHANGED <<pos, phase>>
    BY <1>0, <1>2, Zenon DEF StreamYields, AppendEvent, subVars, transportVars, Types
  <2>2. Replay!Emit
    BY <2>1, Zenon DEF Replay!Emit
  <2> QED
    BY <2>2, Zenon DEF Replay!Next
<1>3. CASE GuardMarksTerminal
  <2>1. Replay!Close
    BY <1>3, Zenon DEF GuardMarksTerminal, MarkTerminal, subVars, transportVars, Replay!Close
  <2> QED
    BY <2>1, Zenon DEF Replay!Next
<1>4. CASE \E s \in Subs : Connect(s)
  <2>1. PICK s \in Subs : Connect(s)
    BY <1>4, Zenon
  <2>2. /\ phase[s] = "new" /\ phase' = [phase EXCEPT ![s] = "idle"]
        /\ UNCHANGED <<emitted, terminal, pos>>
    BY <2>1, Zenon DEF Connect, Subscribe, logVars, writerVars, transportVars
  <2>3. ReaderOf[s] = "new"
    BY <2>2, Zenon DEF ReaderOf
  <2>4. ReaderOf' = [ReaderOf EXCEPT ![s] = IF "idle" \in {"new", "ended", "gone"} THEN "idle" ELSE "open"]
    BY <1>0, <2>2, ReaderMoves, Zenon
  <2>5. ReaderOf' = [ReaderOf EXCEPT ![s] = "open"]
    BY <2>4, Zenon
  <2>6. Replay!Open(s)
    BY <2>2, <2>3, <2>5, Zenon DEF Replay!Open, ReaderOf
  <2> QED
    BY <2>6, Zenon DEF Replay!Next
<1>5. CASE \E s \in Subs : Wait(s)
  <2>1. PICK s \in Subs : Wait(s)
    BY <1>5, Zenon
  <2>2. PICK to \in Awake : phase' = [phase EXCEPT ![s] = to]
    BY <2>1, Zenon DEF Wait, Register, Block, Park, Wake, Awake
  <2>3. phase[s] \in Awake /\ UNCHANGED <<emitted, terminal, pos>>
    BY <2>1, Zenon DEF Wait, Register, Block, Park, Wake, Awake, logVars, writerVars, transportVars
  <2>4. ReaderOf' = ReaderOf
    <3>1. \A u \in Subs : phase'[u] = IF u = s THEN to ELSE phase[u]
      BY <1>0, <2>2, Zenon DEF Types
    <3> QED
      BY <2>2, <2>3, <3>1, Zenon DEF ReaderOf, Awake
  <2> QED
    BY <1>0, <2>3, <2>4, Zenon
<1>6. CASE \E s \in Subs : Send(s)
  <2>1. PICK s \in Subs : Send(s)
    BY <1>6, Zenon
  <2>2. /\ phase[s] \in Awake /\ phase'[s] \in Awake
        /\ \A u \in Subs \ {s} : phase'[u] = phase[u] /\ pos'[u] = pos[u]
        /\ pos'[s] \in (pos[s] + 1) .. emitted /\ UNCHANGED <<emitted, terminal>>
    BY <2>1, SendKeeps, Zenon DEF Send, logVars, writerVars
  <2>3. ReaderOf' = ReaderOf /\ ReaderOf[s] = "open"
    BY <2>2, Zenon DEF ReaderOf, Awake
  <2>4. pos' = [pos EXCEPT ![s] = pos'[s]]
    BY <1>0, <2>1, Zenon DEF Send, Types
  <2>5. Replay!Deliver(s)
    BY <2>2, <2>3, <2>4, Zenon DEF Replay!Deliver, ReaderOf
  <2> QED
    BY <2>5, Zenon DEF Replay!Next
<1>7. CASE \E s \in Subs : Finish(s)
  <2>1. PICK s \in Subs : Finish(s)
    BY <1>7, Zenon
  <2>2. /\ phase[s] \in Awake /\ phase' = [phase EXCEPT ![s] = "ended"]
        /\ terminal /\ pos[s] = emitted /\ UNCHANGED <<emitted, terminal, pos>>
    BY <2>1, LeaveKeeps, Zenon DEF Finish, EndOfStream, Awake, logVars
  <2>3. ReaderOf[s] = "open" /\ ReaderOf' = [ReaderOf EXCEPT ![s] = "ended"]
    BY <1>0, <2>2, ReaderMoves, Zenon DEF ReaderOf, Awake
  <2>4. Replay!End(s)
    BY <2>2, <2>3, Zenon DEF Replay!End, ReaderOf
  <2> QED
    BY <2>4, Zenon DEF Replay!Next
<1>8. CASE \E s \in Subs : Disconnect(s)
  <2>1. PICK s \in Subs : Disconnect(s)
    BY <1>8, Zenon
  <2>2. /\ phase[s] \in Awake /\ phase' = [phase EXCEPT ![s] = "gone"]
        /\ UNCHANGED <<emitted, terminal, pos>>
    BY <2>1, Zenon DEF Disconnect, Unsubscribe, Awake, logVars
  <2>3. ReaderOf[s] = "open" /\ ReaderOf' = [ReaderOf EXCEPT ![s] = "gone"]
    BY <1>0, <2>2, ReaderMoves, Zenon DEF ReaderOf, Awake
  <2>4. Replay!Leave(s)
    BY <2>2, <2>3, Zenon DEF Replay!Leave, ReaderOf
  <2> QED
    BY <2>4, Zenon DEF Replay!Next
<1>9. CASE \/ Launched \/ StartFailed \/ StreamEnds \/ Panics \/ AppendNotifies
           \/ GuardNotifies \/ GuardNotesTerminal \/ GuardUnlocks \/ UNCHANGED vars
  <2>1. UNCHANGED <<emitted, terminal, pos, phase>>
    BY <1>9, Zenon DEF Launched, StartFailed, StreamEnds, Panics, AppendNotifies, GuardNotifies,
                GuardNotesTerminal, GuardUnlocks, NotifyWaiters, vars, logVars, subVars, writerVars,
                transportVars
  <2> QED
    BY <1>1, <2>1, Zenon
<1> QED
  BY <1>2, <1>3, <1>4, <1>5, <1>6, <1>7, <1>8, <1>9, Zenon
  DEF Next, RunnerStep, Bookkeeping, TransportStep

\* The log with its ring, lock and wakeups implements the abstract replay stream:
\* readers only move forward and end only at the end of a closed stream.
THEOREM ReplaysTheStream == Spec => ReplaySafety
<1> QED
  BY StreamInvariant, ReplayStarts, ReplayStep, PTL DEF Spec, ReplaySafety

-----------------------------------------------------------------------------
(* The eviction order of the pool, and its theorem.                          *)

INSTANCE FiniteSetTheorems

\* A sequence without repetition has as many entries as elements.
LEMMA DistinctCount ==
  ASSUME NEW q \in Seq(SessionKeys), NEW S, S = {q[i] : i \in 1 .. Len(q)},
         \A i, j \in 1 .. Len(q) : i # j => q[i] # q[j]
  PROVE  Cardinality(S) = Len(q)
<1>1. Len(q) \in Nat /\ q \in [1 .. Len(q) -> SessionKeys] /\ DOMAIN q = 1 .. Len(q)
  OBVIOUS
<1>2. q \in [1 .. Len(q) -> S]
  BY <1>1, Zenon
<1>3. q \in Surjection(1 .. Len(q), S) /\ q \in Injection(1 .. Len(q), S)
  BY <1>1, <1>2, Zenon DEF Surjection, Injection, IsInjective
<1>4. IsFiniteSet(1 .. Len(q)) /\ Cardinality(1 .. Len(q)) = Len(q)
  BY <1>1, FS_Interval, SMTT(30)
<1> QED
  BY <1>3, <1>4, FS_Surjection

\* What an insert leaves: the new key is in, and the key that goes out if there are
\* too many is evicted once; no other key is touched.
LEMMA InsertKeepsOrder ==
  ASSUME PoolInv, NEW k \in SessionKeys, pool[k] = NoSession, NEW s \in Clients, Inserted(k, s)
  PROVE  InsertRight(k, s)
<1> DEFINE order == Append(pool_order, k)
           grown == [pool EXCEPT ![k] = s]
           full == Cardinality(KeysIn(grown)) > MaxSessions
<1>0. /\ pool \in [SessionKeys -> Clients \union {NoSession}] /\ evictions \in [SessionKeys -> Nat]
      /\ pool_order \in Seq(SessionKeys) /\ Len(pool_order) \in Nat
      /\ NoSession \notin Clients /\ MaxSessions \in Nat \ {0}
  BY PoolAssumption DEF PoolInv, PoolTypeOK
<1>1. /\ grown \in [SessionKeys -> Clients \union {NoSession}]
      /\ \A x \in SessionKeys : grown[x] = IF x = k THEN s ELSE pool[x]
  BY <1>0, Zenon
<1>2. /\ order \in Seq(SessionKeys) /\ Len(order) = Len(pool_order) + 1
      /\ order[Len(pool_order) + 1] = k
      /\ \A i \in 1 .. Len(pool_order) : order[i] = pool_order[i]
  BY <1>0
<1>3. KeysIn(grown) = Pooled \union {k} /\ k \notin Pooled
  BY <1>0, <1>1, Zenon DEF KeysIn, Pooled
<1>4. /\ pool' = (IF full THEN [grown EXCEPT ![Head(order)] = NoSession] ELSE grown)
      /\ pool_order' = (IF full THEN Tail(order) ELSE order)
      /\ evictions' = (IF full THEN [evictions EXCEPT ![Head(order)] = @ + 1] ELSE evictions)
  BY Zenon DEF Inserted
<1> HIDE DEF order, grown
<1>5. /\ KeysIn(grown) = {order[i] : i \in 1 .. Len(order)}
      /\ \A i, j \in 1 .. Len(order) : i # j => order[i] # order[j]
  <2>1. /\ {pool_order[i] : i \in 1 .. Len(pool_order)} = Pooled
        /\ \A i, j \in 1 .. Len(pool_order) : i # j => pool_order[i] # pool_order[j]
    BY Zenon DEF PoolInv, OrderIsExact
  <2>2. 1 .. Len(order) = (1 .. Len(pool_order)) \union {Len(pool_order) + 1}
    BY <1>0, <1>2
  <2>3. \A i \in 1 .. Len(pool_order) : order[i] \in Pooled /\ order[i] # k
    BY <1>2, <1>3, <2>1, Zenon
  <2>4. {order[i] : i \in 1 .. Len(order)} = Pooled \union {k}
    BY <1>2, <2>1, <2>2
  <2>5. ASSUME NEW i \in 1 .. Len(order), NEW j \in 1 .. Len(order), i # j
        PROVE  order[i] # order[j]
    BY <1>2, <2>1, <2>2, <2>3, <2>5, Zenon
  <2> QED
    BY <1>3, <2>4, <2>5, Zenon
<1>6. Cardinality(KeysIn(grown)) = Len(order)
  BY <1>2, <1>5, DistinctCount, Zenon
<1>7. CASE ~full
  <2>1. pool' = grown /\ pool_order' = order /\ evictions' = evictions
    BY <1>4, <1>7, Zenon
  <2>2. Len(order) <= MaxSessions
    BY <1>0, <1>2, <1>6, <1>7
  <2>3. OrderIsExact'
    BY <1>5, <2>1, <2>2, Zenon DEF OrderIsExact, Pooled, KeysIn
  <2> QED
    BY <1>0, <1>1, <1>2, <2>1, <2>3, Zenon DEF InsertRight
<1>8. CASE full
  <2> DEFINE h == Head(order)
  <2>1. /\ h = order[1] /\ h \in SessionKeys /\ Tail(order) \in Seq(SessionKeys)
        /\ Len(Tail(order)) = Len(pool_order)
        /\ \A i \in 1 .. Len(pool_order) : Tail(order)[i] = order[i + 1]
    BY <1>0, <1>2
  <2>2. pool' = [grown EXCEPT ![h] = NoSession] /\ pool_order' = Tail(order)
        /\ evictions' = [evictions EXCEPT ![h] = evictions[h] + 1]
    BY <1>4, <1>8, Zenon
  <2> HIDE DEF h
  <2>3. /\ pool' \in [SessionKeys -> Clients \union {NoSession}]
        /\ \A x \in SessionKeys : pool'[x] = IF x = h THEN NoSession ELSE grown[x]
        /\ evictions' \in [SessionKeys -> Nat]
        /\ \A x \in SessionKeys : evictions'[x] = IF x = h THEN evictions[x] + 1 ELSE evictions[x]
    BY <1>0, <1>1, <2>1, <2>2
  <2>4. Pooled' = KeysIn(grown) \ {h}
    BY <2>3, Zenon DEF Pooled, KeysIn
  <2>5. {Tail(order)[i] : i \in 1 .. Len(pool_order)} = KeysIn(grown) \ {h}
    <3>1. ASSUME NEW i \in 1 .. Len(pool_order) PROVE Tail(order)[i] \in KeysIn(grown) \ {h}
      <4>1. i + 1 \in 1 .. Len(order) /\ 1 \in 1 .. Len(order) /\ i + 1 # 1
        BY <1>0, <1>2
      <4> QED
        BY <1>5, <2>1, <4>1, Zenon
    <3>2. ASSUME NEW x \in KeysIn(grown) \ {h}
          PROVE  \E i \in 1 .. Len(pool_order) : Tail(order)[i] = x
      <4>1. PICK j \in 1 .. Len(order) : order[j] = x
        BY <1>5, Zenon
      <4>2. j # 1
        BY <2>1, <4>1, Zenon
      <4>3. j - 1 \in 1 .. Len(pool_order) /\ (j - 1) + 1 = j
        BY <1>0, <1>2, <4>2
      <4> QED
        BY <2>1, <4>1, <4>3, Zenon
    <3> QED
      BY <3>1, <3>2, Zenon
  <2>6. ASSUME NEW i \in 1 .. Len(pool_order), NEW j \in 1 .. Len(pool_order), i # j
        PROVE  Tail(order)[i] # Tail(order)[j]
    <3>1. i + 1 \in 1 .. Len(order) /\ j + 1 \in 1 .. Len(order) /\ i + 1 # j + 1
      BY <1>0, <1>2, <2>6
    <3> QED
      BY <1>5, <2>1, <3>1, Zenon
  <2>7. Len(pool_order) <= MaxSessions
    BY Zenon DEF PoolInv, OrderIsExact
  <2>8. OrderIsExact'
    BY <2>1, <2>2, <2>4, <2>5, <2>6, <2>7, Zenon DEF OrderIsExact
  <2> QED
    BY <1>1, <2>1, <2>2, <2>3, <2>8, Zenon DEF InsertRight
<1> QED
  BY <1>7, <1>8, Zenon

\* A lookup, on the fast or the slow path, keeps the pool exact.
LEMMA LookupKeeps ==
  ASSUME PoolInv, NEW c \in Clients, FastPath(c) \/ SlowPath(c)
  PROVE  PoolInv'
<1>1. CASE FastPath(c)
  <2>0. lookup[c] = "none" /\ UNCHANGED <<pool, pool_order, evictions>>
    BY <1>1, Zenon DEF FastPath
  <2>1. CASE KeyOf[c] = Nameless
    BY <1>1, <2>0, <2>1, NamelessKeeps, Zenon DEF FastPath
  <2>2. CASE KeyOf[c] # Nameless /\ KeyOf[c] \in Pooled
    BY <1>1, <2>0, <2>2, FoundKeeps, Zenon DEF FastPath
  <2>3. CASE KeyOf[c] # Nameless /\ KeyOf[c] \notin Pooled
    <3>1. /\ lookup' = [lookup EXCEPT ![c] = "missed"]
          /\ UNCHANGED <<pool, pool_order, evictions, held, held_since>>
      BY <1>1, <2>3, Zenon DEF FastPath
    <3>2. \A d \in Clients : lookup'[d] = IF d = c THEN "missed" ELSE lookup[d]
      BY <3>1, Zenon DEF PoolInv, PoolTypeOK
    <3>3. PoolTypeOK'
      BY <3>1, Zenon DEF PoolInv, PoolTypeOK
    <3>4. OrderIsExact'
      BY <3>1, OrderSame, Zenon
    <3>5. ASSUME NEW d \in Clients, lookup'[d] = "done" PROVE HeldRight(d)'
      <4>1. lookup[d] = "done" /\ HeldRight(d)
        BY <3>2, <3>5, Zenon DEF PoolInv
      <4> QED
        BY <2>0, <3>1, <3>2, <4>1, Zenon DEF HeldRight
    <3>6. ASSUME NEW k \in SessionKeys PROVE PooledRight(k)'
      <4>1. PooledRight(k) /\ pool[k] \in Clients \union {NoSession}
        BY Zenon DEF PoolInv, PoolTypeOK
      <4> QED
        BY <2>0, <3>1, <3>2, <4>1, Zenon DEF PooledRight
    <3>7. \A x, d \in Clients :
            /\ lookup'[x] = "done" /\ lookup'[d] = "done" /\ KeyOf[x] = KeyOf[d] /\ KeyOf[x] # Nameless
            /\ held_since'[x] = held_since'[d]
            => held'[x] = held'[d]
      BY <3>1, <3>2 DEF PoolInv
    <3> QED
      BY <2>3, <3>2, <3>3, <3>4, <3>5, <3>6, <3>7, Zenon DEF PoolInv
  <2> QED
    BY <2>1, <2>2, <2>3, Zenon
<1>2. CASE SlowPath(c)
  <2>1. lookup[c] = "missed" /\ KeyOf[c] # Nameless
    BY <1>2, Zenon DEF SlowPath, PoolInv
  <2>2. CASE KeyOf[c] \in Pooled
    BY <1>2, <2>1, <2>2, FoundKeeps, Zenon DEF SlowPath
  <2>3. CASE KeyOf[c] \notin Pooled
    <3>1. Inserted(KeyOf[c], c) /\ Returns(c, c) /\ KeyOf[c] \in SessionKeys /\ pool[KeyOf[c]] = NoSession
      BY <1>2, <2>1, <2>3, PoolAssumption, Zenon DEF SlowPath, Pooled, KeysIn
    <3>2. InsertRight(KeyOf[c], c)
      BY <3>1, InsertKeepsOrder, Zenon
    <3> QED
      BY <2>1, <2>3, <3>1, <3>2, InsertKeeps, Zenon
  <2> QED
    BY <2>2, <2>3, Zenon
<1> QED
  BY <1>1, <1>2, Zenon

\* Every step keeps the pool exact.
LEMMA PoolStep ==
  ASSUME PoolInv, [InvocationNext]_invocationVars PROVE PoolInv'
<1>1. CASE \E c \in Clients : ResolveSession(c)
  BY <1>1, LookupKeeps, ZenonT(40) DEF ResolveSession
<1>2. CASE UNCHANGED poolVars
  BY <1>2, OrderSame, Zenon DEF poolVars, PoolInv, PoolTypeOK, HeldRight, PooledRight
<1> QED
  BY <1>1, <1>2, Zenon DEF InvocationNext, Validate, Launch, ClientLeaves, Yields, Ends, TaskPanics,
     TaskStep, Starts, Sends, TaskEnds, Receives, Closes, invocationVars

\* Two requests share a session exactly if they name the same key and it was not
\* evicted between them, and the order of eviction lists the keys of the map, for any
\* number of requests and keys (InMemorySessionProvider::session).
THEOREM PoolIsExact == InvocationSpec => []PoolExact
<1>1. InvocationInit => PoolInv
  BY PoolStarts, Zenon DEF InvocationInit
<1> QED
  BY <1>1, PoolStep, InvAgrees, PTL DEF InvocationSpec
=============================================================================
