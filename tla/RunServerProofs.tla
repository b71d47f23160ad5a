--------------------------- MODULE RunServerProofs --------------------------
(***************************************************************************)
(* The invariants of RunServer, for any number of requests, sessions and    *)
(* any limits: first what every operation of the registry preserves, then   *)
(* the server around it.                                                    *)
(***************************************************************************)
EXTENDS RunServer, FiniteSetTheorems, SequenceTheorems, TLAPS

-----------------------------------------------------------------------------
(* The registry.                                                            *)

NoRepetition(q) == \A i, j \in 1 .. Len(q) : i # j => q[i] # q[j]

\* A run that is not in the map has no stamp left behind.
Forgotten == \A r \in Runs \ runs : terminal_at[r] = NoTime

RegistryInv == RegistryTypeOK /\ LiveCountExact /\ CompletionOrderExact /\ Forgotten

-----------------------------------------------------------------------------
(* Queues.                                                                  *)

\* Appending a new id to a queue adds exactly that id.
LEMMA AppendElements ==
  ASSUME NEW S, NEW q \in Seq(S), NEW x \in S, x \notin Elements(q), NoRepetition(q)
  PROVE  /\ Append(q, x) \in Seq(S)
         /\ Elements(Append(q, x)) = Elements(q) \union {x}
         /\ NoRepetition(Append(q, x))
<1>1. /\ Append(q, x) \in Seq(S)
      /\ Len(Append(q, x)) = Len(q) + 1
      /\ \A i \in 1 .. Len(q) : Append(q, x)[i] = q[i]
      /\ Append(q, x)[Len(q) + 1] = x
  BY AppendProperties
<1>2. Len(q) \in Nat
  BY LenProperties
<1>3. 1 .. Len(q) + 1 = (1 .. Len(q)) \union {Len(q) + 1}
  BY <1>2
<1>4. Elements(Append(q, x)) = Elements(q) \union {x}
  BY <1>1, <1>2, <1>3 DEF Elements
<1>5. NoRepetition(Append(q, x))
  BY <1>1, <1>2, <1>3 DEF NoRepetition, Elements
<1> QED
  BY <1>1, <1>4, <1>5

\* An arrangement lists the set, each member once.
LEMMA ArrangementElements ==
  ASSUME NEW S, IsFiniteSet(S), NEW p \in Arrangements(S)
  PROVE  /\ p \in Seq(S)
         /\ Elements(p) = S
         /\ NoRepetition(p)
<1>1. Cardinality(S) \in Nat
  BY FS_CardinalityType
<1>2. p \in [1 .. Cardinality(S) -> S]
  BY DEF Arrangements
<1>3. p \in Seq(S) /\ Len(p) = Cardinality(S)
  BY <1>1, <1>2
<1>4. /\ \A x \in S : \E i \in 1 .. Cardinality(S) : p[i] = x
      /\ \A i, j \in 1 .. Cardinality(S) : i # j => p[i] # p[j]
  BY DEF Arrangements
<1> QED
  BY <1>2, <1>3, <1>4 DEF Elements, NoRepetition

\* Two queues without a common id, one behind the other.
LEMMA ConcatElements ==
  ASSUME NEW S, NEW q \in Seq(S), NEW p \in Seq(S),
         NoRepetition(q), NoRepetition(p), Elements(q) \intersect Elements(p) = {}
  PROVE  /\ q \o p \in Seq(S)
         /\ Elements(q \o p) = Elements(q) \union Elements(p)
         /\ NoRepetition(q \o p)
<1>1. /\ q \o p \in Seq(S)
      /\ Len(q \o p) = Len(q) + Len(p)
      /\ \A i \in 1 .. Len(q) + Len(p) :
           (q \o p)[i] = IF i <= Len(q) THEN q[i] ELSE p[i - Len(q)]
  BY ConcatProperties
<1>2. Len(q) \in Nat /\ Len(p) \in Nat
  BY LenProperties
<1>3. \A i \in 1 .. Len(q) : (q \o p)[i] = q[i]
  BY <1>1, <1>2
<1>4. \A i \in 1 .. Len(p) : (q \o p)[Len(q) + i] = p[i]
  BY <1>1, <1>2
<1>5. \A i \in 1 .. Len(q) + Len(p) :
        \/ i \in 1 .. Len(q)
        \/ \E k \in 1 .. Len(p) : i = Len(q) + k
  <2> TAKE i \in 1 .. Len(q) + Len(p)
  <2>1. CASE i <= Len(q)
    BY <2>1, <1>2
  <2>2. CASE ~(i <= Len(q))
    <3>1. i - Len(q) \in 1 .. Len(p) /\ i = Len(q) + (i - Len(q))
      BY <2>2, <1>2
    <3> QED
      BY <3>1
  <2> QED
    BY <2>1, <2>2
<1>6. Elements(q \o p) = Elements(q) \union Elements(p)
  <2>1. ASSUME NEW x \in Elements(q \o p) PROVE x \in Elements(q) \union Elements(p)
    <3>1. PICK i \in 1 .. Len(q) + Len(p) : x = (q \o p)[i]
      BY <2>1, <1>1 DEF Elements
    <3> QED
      BY <3>1, <1>3, <1>4, <1>5 DEF Elements
  <2>2. ASSUME NEW i \in 1 .. Len(q) PROVE q[i] \in Elements(q \o p)
    BY <1>1, <1>2, <1>3 DEF Elements
  <2>3. ASSUME NEW i \in 1 .. Len(p) PROVE p[i] \in Elements(q \o p)
    <3>1. Len(q) + i \in 1 .. Len(q) + Len(p)
      BY <1>2
    <3> QED
      BY <3>1, <1>1, <1>4 DEF Elements
  <2> QED
    BY <2>1, <2>2, <2>3 DEF Elements
<1>7. NoRepetition(q \o p)
  <2> SUFFICES ASSUME NEW i \in 1 .. Len(q) + Len(p), NEW j \in 1 .. Len(q) + Len(p), i # j
               PROVE  (q \o p)[i] # (q \o p)[j]
    BY <1>1 DEF NoRepetition
  <2>1. CASE i \in 1 .. Len(q) /\ j \in 1 .. Len(q)
    BY <2>1, <1>3 DEF NoRepetition
  <2>2. ASSUME NEW k \in 1 .. Len(p), NEW l \in 1 .. Len(p), i = Len(q) + k, j = Len(q) + l
        PROVE  (q \o p)[i] # (q \o p)[j]
    BY <2>2, <1>2, <1>4 DEF NoRepetition
  <2>3. ASSUME NEW k \in 1 .. Len(q), NEW l \in 1 .. Len(p)
        PROVE  (q \o p)[k] # (q \o p)[Len(q) + l]
    <3>1. q[k] # p[l]
      BY DEF Elements
    <3> QED
      BY <3>1, <1>3, <1>4
  <2>4. /\ i \in 1 .. Len(q) \/ \E k \in 1 .. Len(p) : i = Len(q) + k
        /\ j \in 1 .. Len(q) \/ \E k \in 1 .. Len(p) : j = Len(q) + k
    BY <1>5
  <2> QED
    BY <2>1, <2>2, <2>3, <2>4
<1> QED
  BY <1>1, <1>6, <1>7

\* Popping n runs off the front leaves the later ones where they were.
LEMMA TrimPositions ==
  ASSUME NEW S, NEW q \in Seq(S), NEW n \in Nat
  PROVE  /\ Trim(q, n) \in Seq(S) /\ Len(q) \in Nat
         /\ Len(Trim(q, n)) = IF n <= Len(q) THEN Len(q) - n ELSE 0
         /\ \A i \in 1 .. Len(Trim(q, n)) : n + i \in 1 .. Len(q) /\ Trim(q, n)[i] = q[n + i]
<1>1. Len(q) \in Nat /\ \A i \in 1 .. Len(q) : q[i] \in S
  BY LenProperties, ElementOfSeq
<1>2. \A i \in n + 1 .. Len(q) : q[i] \in S
  BY <1>1
<1>3. /\ Trim(q, n) \in Seq(S)
      /\ Len(Trim(q, n)) = IF n + 1 <= Len(q) THEN Len(q) - (n + 1) + 1 ELSE 0
      /\ \A i \in 1 .. Len(q) - (n + 1) + 1 : Trim(q, n)[i] = q[n + 1 + i - 1]
  <2>1. n + 1 \in Int /\ Len(q) \in Int
    BY <1>1
  <2> QED
    BY <1>2, <2>1, SubSeqProperties DEF Trim
<1>4. \A i \in 1 .. Len(Trim(q, n)) : n + i \in 1 .. Len(q) /\ Trim(q, n)[i] = q[n + i]
  BY <1>1, <1>3, SMTT(30)
<1>5. Len(Trim(q, n)) = IF n <= Len(q) THEN Len(q) - n ELSE 0
  BY <1>1, <1>3
<1> QED
  BY <1>1, <1>3, <1>4, <1>5

\* The ids that are left are those behind position n.
LEMMA TrimmedElements ==
  ASSUME NEW S, NEW q \in Seq(S), NEW n \in Nat
  PROVE  /\ \A m \in 1 .. Len(q) : m > n => q[m] \in Elements(Trim(q, n))
         /\ \A x \in Elements(Trim(q, n)) : \E m \in 1 .. Len(q) : m > n /\ q[m] = x
<1> DEFINE p == Trim(q, n)
<1>1. /\ Len(q) \in Nat /\ Len(p) = IF n <= Len(q) THEN Len(q) - n ELSE 0
      /\ \A i \in 1 .. Len(p) : n + i \in 1 .. Len(q) /\ p[i] = q[n + i]
  BY TrimPositions
<1> HIDE DEF p
<1>2. ASSUME NEW m \in 1 .. Len(q), m > n PROVE q[m] \in Elements(p)
  <2>1. m - n \in 1 .. Len(p) /\ n + (m - n) = m
    BY <1>1, <1>2
  <2>2. p[m - n] = q[m]
    BY <1>1, <2>1
  <2> QED
    BY <2>1, <2>2 DEF Elements
<1>3. ASSUME NEW x \in Elements(p) PROVE \E m \in 1 .. Len(q) : m > n /\ q[m] = x
  <2>1. PICK l \in 1 .. Len(p) : p[l] = x
    BY <1>3 DEF Elements
  <2>2. n + l \in 1 .. Len(q) /\ n + l > n /\ q[n + l] = x
    BY <1>1, <2>1
  <2> QED
    BY <2>2
<1> QED
  BY <1>2, <1>3 DEF p

\* Popping runs off the front keeps a queue a queue.
LEMMA TrimElements ==
  ASSUME NEW S, NEW q \in Seq(S), NEW n \in Nat, NoRepetition(q)
  PROVE  /\ Trim(q, n) \in Seq(S)
         /\ Elements(Trim(q, n)) \subseteq Elements(q)
         /\ NoRepetition(Trim(q, n))
<1>1. Trim(q, n) \in Seq(S) /\ Len(q) \in Nat
  BY TrimPositions
<1>2. \A i \in 1 .. Len(Trim(q, n)) : n + i \in 1 .. Len(q) /\ Trim(q, n)[i] = q[n + i]
  BY TrimPositions
<1>3. Elements(Trim(q, n)) \subseteq Elements(q)
  BY <1>2 DEF Elements
<1>4. NoRepetition(Trim(q, n))
  <2> SUFFICES ASSUME NEW i \in 1 .. Len(Trim(q, n)), NEW j \in 1 .. Len(Trim(q, n)), i # j
               PROVE  Trim(q, n)[i] # Trim(q, n)[j]
    BY DEF NoRepetition
  <2>1. n + i # n + j /\ n + i \in 1 .. Len(q) /\ n + j \in 1 .. Len(q)
    BY <1>2
  <2>2. q[n + i] # q[n + j]
    BY <2>1 DEF NoRepetition
  <2> QED
    BY <2>2, <1>2
<1> QED
  BY <1>1, <1>3, <1>4

-----------------------------------------------------------------------------
(* The operations.                                                          *)

\* The empty registry satisfies the invariant.
LEMMA RegistryInitially ==
  RegistryInit => RegistryInv
<1> SUFFICES ASSUME RegistryInit PROVE RegistryInv
  OBVIOUS
<1>1. RegistryTypeOK /\ Forgotten
  BY RegistryAssumption DEF RegistryInit, RegistryTypeOK, Forgotten, Times, NoTime
<1>2. LiveRuns = {} /\ TerminalRuns = {}
  BY DEF RegistryInit, LiveRuns, TerminalRuns
<1>3. LiveCountExact
  BY <1>2, FS_EmptySet, RegistryAssumption DEF LiveCountExact, RegistryInit
<1>4. CompletionOrderExact
  <2>1. Len(completion_order) = 0
    BY DEF RegistryInit
  <2> QED
    BY <1>2, <2>1 DEF CompletionOrderExact, Elements
<1> QED
  BY <1>1, <1>3, <1>4 DEF RegistryInv

\* The sets live counts are finite.
LEMMA LiveFinite ==
  ASSUME RegistryTypeOK
  PROVE  IsFiniteSet(runs) /\ IsFiniteSet(LiveRuns) /\ Cardinality(LiveRuns) \in Nat
<1>1. runs \in SUBSET Runs /\ LiveRuns \in SUBSET Runs
  BY DEF RegistryTypeOK, LiveRuns
<1>2. IsFiniteSet(runs) /\ IsFiniteSet(LiveRuns)
  BY <1>1, FS_Subset, RegistryAssumption
<1> QED
  BY <1>2, FS_CardinalityType

\* create adds one live run and counts it.
LEMMA CreateKeeps ==
  ASSUME NEW r \in Runs, NEW t \in Nat, r \notin runs, RegistryInv, Create(r, t)
  PROVE  RegistryInv' /\ LiveRuns' = LiveRuns \union {r}
<1> USE DEF RegistryInv
<1>1. RegistryTypeOK'
  BY DEF Create, RegistryTypeOK, Times
<1>2. terminal_at[r] = NoTime /\ terminal_at' = terminal_at /\ runs' = runs \union {r}
  BY DEF Forgotten, Create
<1>3. LiveRuns' = LiveRuns \union {r} /\ r \notin LiveRuns /\ TerminalRuns' = TerminalRuns
  BY <1>2 DEF LiveRuns, TerminalRuns, Stamped
<1>4. LiveCountExact'
  <2>1. Cardinality(LiveRuns') = Cardinality(LiveRuns) + 1
    BY <1>3, LiveFinite, FS_AddElement
  <2> QED
    BY <2>1, RegistryAssumption DEF LiveCountExact, Create, HasRoom, RegistryTypeOK
<1>5. CompletionOrderExact'
  BY <1>3 DEF CompletionOrderExact, Create, Elements
<1>6. Forgotten'
  BY <1>2 DEF Forgotten
<1> QED
  BY <1>1, <1>3, <1>4, <1>5, <1>6

\* note_terminal moves one run from the live ones to the completion queue, or
\* does nothing: for a run that is gone, and for one that was stamped before.
LEMMA NoteTerminalKeeps ==
  ASSUME NEW r \in Runs, NEW t \in Nat, RegistryInv, NoteTerminal(r, t)
  PROVE  RegistryInv' /\ LiveRuns' = LiveRuns \ {r}
<1> USE DEF RegistryInv
<1>1. CASE ~(r \in runs /\ ~Stamped(r))
  <2>1. UNCHANGED registryVars
    BY <1>1 DEF NoteTerminal
  <2>2. UNCHANGED <<LiveRuns, TerminalRuns>> /\ r \notin LiveRuns
    BY <1>1, <2>1 DEF registryVars, LiveRuns, TerminalRuns, Stamped
  <2> QED
    BY <2>1, <2>2 DEF registryVars, RegistryTypeOK, LiveCountExact, CompletionOrderExact,
                      Forgotten, Elements
<1>2. CASE r \in runs /\ ~Stamped(r)
  <2>1. /\ terminal_at' = [terminal_at EXCEPT ![r] = t]
        /\ completion_order' = Append(completion_order, r)
        /\ live' = SaturatingSub(live, 1)
        /\ UNCHANGED <<runs, created_at, cancelled>>
    BY <1>2 DEF NoteTerminal
  <2>2. /\ LiveRuns' = LiveRuns \ {r} /\ r \in LiveRuns
        /\ TerminalRuns' = TerminalRuns \union {r} /\ r \notin TerminalRuns
    BY <1>2, <2>1 DEF LiveRuns, TerminalRuns, Stamped, NoTime, RegistryTypeOK
  <2>3. /\ completion_order' \in Seq(Runs)
        /\ Elements(completion_order') = Elements(completion_order) \union {r}
        /\ NoRepetition(completion_order')
    BY <2>1, <2>2, AppendElements DEF RegistryTypeOK, CompletionOrderExact, NoRepetition
  <2>4. live' = Cardinality(LiveRuns') /\ live' \in Nat /\ live' <= MaxInFlight
    <3>1. Cardinality(LiveRuns') = Cardinality(LiveRuns) - 1
      BY <2>2, LiveFinite, FS_RemoveElement
    <3>2. Cardinality(LiveRuns) # 0
      BY <2>2, LiveFinite, FS_EmptySet
    <3> QED
      BY <2>1, <3>1, <3>2, LiveFinite, RegistryAssumption DEF LiveCountExact, SaturatingSub
  <2>5. RegistryTypeOK'
    BY <2>1, <2>3, <2>4 DEF RegistryTypeOK, Times
  <2>6. Forgotten'
    BY <1>2, <2>1 DEF Forgotten, RegistryTypeOK
  <2> QED
    BY <2>2, <2>3, <2>4, <2>5, <2>6 DEF LiveCountExact, CompletionOrderExact, NoRepetition, Elements
<1> QED
  BY <1>1, <1>2

-----------------------------------------------------------------------------
(* sweep.                                                                   *)

\* q0 is the queue after pass 0, q after pass 1 and p after pass 2, for a
\* sweep at t that pops n runs in pass 2.
SweepShape(t, n, q0, q, p) ==
  LET stamps  == StampedAt(Overdue(t), t)
      ended   == TerminalRuns \union Overdue(t)
      expired == Expired(stamps, t)
  IN  /\ q0 \in Seq(Runs) /\ NoRepetition(q0) /\ Elements(q0) = ended
      /\ Len(completion_order) <= Len(q0)
      /\ \A i \in 1 .. Len(completion_order) : q0[i] = completion_order[i]
      /\ q \in Seq(Runs) /\ NoRepetition(q) /\ Elements(q) = ended \ expired
      /\ Len(q) = Cardinality(ended \ expired)
      /\ \A i, j \in 1 .. Len(q) : i < j => Index(q0, q[i]) < Index(q0, q[j])
      /\ p \in Seq(Runs) /\ NoRepetition(p) /\ Elements(p) \subseteq Elements(q)
      /\ p = Trim(q, n) /\ n = SaturatingSub(Cardinality(ended \ expired), MaxRuns)
      /\ completion_order' = p
      /\ runs' = (runs \ expired) \ (Elements(q) \ Elements(p))
      /\ created_at' = [r \in Runs |-> IF r \in runs' THEN created_at[r] ELSE NoTime]
      /\ terminal_at' = [r \in Runs |-> IF r \in runs' THEN stamps[r] ELSE NoTime]

\* The runs that have ended once pass 0 is done, and the ones pass 1 drops.
LEMMA EndedRuns ==
  ASSUME NEW t \in Nat, RegistryTypeOK
  PROVE  LET stamps == StampedAt(Overdue(t), t)
             ended  == TerminalRuns \union Overdue(t)
         IN  /\ Overdue(t) \subseteq LiveRuns /\ ended \subseteq runs
             /\ TerminalAmong(runs, stamps) = ended
             /\ Expired(stamps, t) \subseteq ended
             /\ \A S : TerminalAmong(runs \ S, stamps) = ended \ S
             /\ stamps \in [Runs -> Times]
             /\ \A r \in runs : stamps[r] # NoTime <=> r \in ended
<1> DEFINE stamps == StampedAt(Overdue(t), t)
           ended  == TerminalRuns \union Overdue(t)
<1>1. Overdue(t) \subseteq LiveRuns /\ ended \subseteq runs
  BY DEF Overdue, LiveRuns, TerminalRuns
<1>2. stamps \in [Runs -> Times]
  BY DEF StampedAt, RegistryTypeOK, Times
<1>3. \A r \in runs : stamps[r] # NoTime <=> r \in ended
  BY DEF StampedAt, TerminalRuns, Stamped, RegistryTypeOK, NoTime
<1>4. TerminalAmong(runs, stamps) = ended /\ \A S : TerminalAmong(runs \ S, stamps) = ended \ S
  BY <1>1, <1>3 DEF TerminalAmong
<1>5. Expired(stamps, t) \subseteq ended
  BY <1>4 DEF Expired
<1> QED
  BY <1>1, <1>2, <1>3, <1>4, <1>5, SMTT(30)

\* What the three passes of sweep leave of the map, the stamps and the queue.
LEMMA SweepHasShape ==
  ASSUME NEW t \in Nat, RegistryInv, Sweep(t)
  PROVE  \E n \in Nat : \E q0, q, p \in Seq(Runs) : SweepShape(t, n, q0, q, p)
<1> DEFINE overdue == Overdue(t)
           stamps  == StampedAt(overdue, t)
           ended   == TerminalRuns \union overdue
           expired == Expired(stamps, t)
           n       == SaturatingSub(Cardinality(ended \ expired), MaxRuns)
<1> USE DEF RegistryInv
<1>1. /\ overdue \subseteq LiveRuns /\ ended \subseteq runs
      /\ TerminalAmong(runs \ expired, stamps) = ended \ expired
  BY EndedRuns
<1>2. /\ IsFiniteSet(overdue) /\ overdue \in SUBSET Runs
      /\ IsFiniteSet(ended \ expired) /\ ended \ expired \in SUBSET Runs
      /\ Cardinality(ended \ expired) \in Nat
  <2>1. overdue \in SUBSET Runs /\ ended \ expired \in SUBSET Runs
    BY <1>1 DEF RegistryTypeOK, LiveRuns
  <2> QED
    BY <2>1, FS_Subset, FS_CardinalityType, RegistryAssumption
<1>3. n \in Nat
  BY <1>2, RegistryAssumption DEF SaturatingSub
<1> DEFINE Outcome(q) ==
             /\ completion_order' = Trim(q, n)
             /\ runs' = (runs \ expired) \ (Elements(q) \ Elements(Trim(q, n)))
             /\ created_at' = [r \in Runs |-> IF r \in runs' THEN created_at[r] ELSE NoTime]
             /\ terminal_at' = [r \in Runs |-> IF r \in runs' THEN stamps[r] ELSE NoTime]
<1>4a. PICK q0 \in Reclaimed(overdue) : \E q \in Retained(q0, expired) : Outcome(q)
  BY <1>1 DEF Sweep
<1>4. PICK q \in Retained(q0, expired) : Outcome(q)
  BY <1>4a
<1>5. PICK a \in Arrangements(overdue) : q0 = completion_order \o a
  BY DEF Reclaimed
<1>6. a \in Seq(Runs) /\ Elements(a) = overdue /\ NoRepetition(a)
  <2>1. a \in Seq(overdue) /\ Elements(a) = overdue /\ NoRepetition(a)
    BY <1>2, ArrangementElements
  <2> QED
    BY <1>2, <2>1
<1>7. /\ completion_order \in Seq(Runs) /\ NoRepetition(completion_order)
      /\ Elements(completion_order) = TerminalRuns
  BY DEF RegistryTypeOK, CompletionOrderExact, NoRepetition
<1>8. TerminalRuns \intersect overdue = {}
  BY <1>1 DEF TerminalRuns, LiveRuns
<1>9. q0 \in Seq(Runs) /\ NoRepetition(q0) /\ Elements(q0) = ended
  BY <1>5, <1>6, <1>7, <1>8, ConcatElements
<1>10. /\ Len(completion_order) <= Len(q0)
       /\ \A i \in 1 .. Len(completion_order) : q0[i] = completion_order[i]
  BY <1>5, <1>6, <1>7, ConcatProperties, LenProperties
<1>11. /\ q \in Arrangements(ended \ expired)
       /\ \A i, j \in 1 .. Len(q) : i < j => Index(q0, q[i]) < Index(q0, q[j])
  BY <1>9 DEF Retained
<1>12. q \in Seq(Runs) /\ NoRepetition(q) /\ Elements(q) = ended \ expired
  <2>1. q \in Seq(ended \ expired) /\ NoRepetition(q) /\ Elements(q) = ended \ expired
    BY <1>2, <1>11, ArrangementElements
  <2> QED
    BY <1>2, <2>1
<1>13. Len(q) = Cardinality(ended \ expired)
  BY <1>2, <1>11 DEF Arrangements
<1>14. /\ Trim(q, n) \in Seq(Runs) /\ NoRepetition(Trim(q, n))
       /\ Elements(Trim(q, n)) \subseteq Elements(q)
  BY <1>3, <1>12, TrimElements
<1>15. SweepShape(t, n, q0, q, Trim(q, n))
  BY <1>4, <1>9, <1>10, <1>11, <1>12, <1>13, <1>14 DEF SweepShape
<1> QED
  BY <1>3, <1>9, <1>12, <1>14, <1>15

\* A sweep takes the overdue runs, and only them, out of the live ones.
LEMMA SweepKeeps ==
  ASSUME NEW t \in Nat, RegistryInv, Sweep(t)
  PROVE  /\ RegistryInv' /\ LiveRuns' = LiveRuns \ Overdue(t) /\ runs' \subseteq runs
         /\ cancelled' = cancelled \union Overdue(t)
<1> DEFINE overdue == Overdue(t)
           stamps  == StampedAt(overdue, t)
           ended   == TerminalRuns \union overdue
           expired == Expired(stamps, t)
<1> USE DEF RegistryInv
<1>1. PICK n \in Nat, q0 \in Seq(Runs), q \in Seq(Runs), p \in Seq(Runs) :
        SweepShape(t, n, q0, q, p)
  BY SweepHasShape
<1>2. /\ overdue \subseteq LiveRuns /\ ended \subseteq runs /\ expired \subseteq ended
      /\ stamps \in [Runs -> Times] /\ \A r \in runs : stamps[r] # NoTime <=> r \in ended
  BY EndedRuns
<1>3. /\ Elements(q) = ended \ expired /\ Elements(p) \subseteq Elements(q)
      /\ completion_order' = p /\ NoRepetition(p)
      /\ runs' = (runs \ expired) \ (Elements(q) \ Elements(p))
      /\ created_at' = [r \in Runs |-> IF r \in runs' THEN created_at[r] ELSE NoTime]
      /\ terminal_at' = [r \in Runs |-> IF r \in runs' THEN stamps[r] ELSE NoTime]
  BY <1>1 DEF SweepShape
<1>4. runs' \subseteq runs /\ runs \subseteq Runs
  BY <1>3 DEF RegistryTypeOK
<1>5. \A r \in runs' : Stamped(r)' <=> r \in ended
  BY <1>2, <1>3, <1>4 DEF Stamped
<1>6. LiveRuns' = {r \in runs' : r \notin ended} /\ TerminalRuns' = {r \in runs' : r \in ended}
  BY <1>5 DEF LiveRuns, TerminalRuns
<1>7. TerminalRuns' = Elements(p)
  BY <1>2, <1>3, <1>6
<1>8. LiveRuns = runs \ TerminalRuns
  BY DEF LiveRuns, TerminalRuns
<1>9. LiveRuns' = LiveRuns \ overdue
  BY <1>2, <1>3, <1>6, <1>8
<1>10. live' = Cardinality(LiveRuns') /\ live' \in Nat /\ live' <= MaxInFlight
  <2>1. overdue \in SUBSET LiveRuns /\ LiveRuns \intersect overdue = overdue
    BY <1>2
  <2>2. /\ IsFiniteSet(overdue) /\ Cardinality(overdue) <= Cardinality(LiveRuns)
        /\ Cardinality(overdue) \in Nat
    BY <2>1, LiveFinite, FS_Subset, FS_CardinalityType
  <2>3. Cardinality(LiveRuns \ overdue) = Cardinality(LiveRuns) - Cardinality(overdue)
    BY <2>1, LiveFinite, FS_Difference, ZenonT(40)
  <2>4. live' = SaturatingSub(live, Cardinality(overdue))
    BY DEF Sweep
  <2> QED
    BY <1>9, <2>2, <2>3, <2>4, LiveFinite, RegistryAssumption DEF SaturatingSub, LiveCountExact
<1>11. cancelled' = cancelled \union overdue /\ overdue \subseteq Runs
  BY <1>2, <1>4 DEF Sweep, LiveRuns
<1>12. RegistryTypeOK'
  BY <1>2, <1>3, <1>4, <1>10, <1>11 DEF RegistryTypeOK, Times
<1>13. Forgotten'
  BY <1>3 DEF Forgotten
<1>14. CompletionOrderExact'
  BY <1>3, <1>7 DEF CompletionOrderExact, NoRepetition, Elements
<1> QED
  BY <1>4, <1>9, <1>10, <1>11, <1>12, <1>13, <1>14 DEF LiveCountExact

\* In a queue without repetition an id has one index.
LEMMA IndexUnique ==
  ASSUME NEW q \in Seq(Runs), NoRepetition(q), NEW i \in 1 .. Len(q)
  PROVE  Index(q, q[i]) = i
<1>1. \E k \in 1 .. Len(q) : q[k] = q[i]
  OBVIOUS
<1>2. Index(q, q[i]) \in 1 .. Len(q) /\ q[Index(q, q[i])] = q[i]
  BY <1>1 DEF Index
<1> QED
  BY <1>2 DEF NoRepetition

\* A queue holds at most as many ids as it is long.
LEMMA ElementsBounded ==
  ASSUME NEW q \in Seq(Runs)
  PROVE  Cardinality(Elements(q)) <= Len(q)
<1>1. Len(q) \in Nat /\ q \in [1 .. Len(q) -> Runs]
  BY LenProperties
<1>2. q \in Surjection(1 .. Len(q), Elements(q))
  BY <1>1 DEF Surjection, Elements
<1>3. ExistsSurjection(1 .. Len(q), Elements(q))
  BY <1>2 DEF ExistsSurjection
<1> QED
  BY <1>1, <1>3, FS_SurjCardinalityBound

\* Only ended runs leave; those the cap evicts completed before those it
\* keeps; nothing overdue or expired stays, and no more than max_runs.
LEMMA SweepOrderly ==
  ASSUME NEW t \in Nat, RegistryInv, Sweep(t)
  PROVE  /\ \A r \in runs \ runs' : Stamped(r) \/ r \in Overdue(t)
         /\ \A i, j \in 1 .. Len(completion_order) :
              i < j /\ completion_order[i] \in runs' /\ completion_order[j] \notin runs' =>
                terminal_at[completion_order[j]] + Ttl <= t
         /\ \A r \in runs' :
              IF terminal_at'[r] = NoTime THEN created_at[r] + MaxRunDuration > t
                                          ELSE terminal_at'[r] + Ttl > t
         /\ Cardinality({r \in runs' : terminal_at'[r] # NoTime}) <= MaxRuns
<1> DEFINE overdue == Overdue(t)
           stamps  == StampedAt(overdue, t)
           ended   == TerminalRuns \union overdue
           expired == Expired(stamps, t)
<1> USE DEF RegistryInv
<1>1. PICK n \in Nat, q0 \in Seq(Runs), q \in Seq(Runs), p \in Seq(Runs) :
        SweepShape(t, n, q0, q, p)
  BY SweepHasShape
<1>2. /\ overdue \subseteq LiveRuns /\ ended \subseteq runs /\ expired \subseteq ended
      /\ TerminalAmong(runs, stamps) = ended
      /\ stamps \in [Runs -> Times] /\ \A r \in runs : stamps[r] # NoTime <=> r \in ended
  BY EndedRuns
<1>3. /\ Elements(q) = ended \ expired /\ Elements(p) \subseteq Elements(q)
      /\ runs' = (runs \ expired) \ (Elements(q) \ Elements(p))
      /\ terminal_at' = [r \in Runs |-> IF r \in runs' THEN stamps[r] ELSE NoTime]
      /\ p = Trim(q, n) /\ n = SaturatingSub(Cardinality(ended \ expired), MaxRuns)
      /\ Len(q) = Cardinality(ended \ expired) /\ completion_order' = p
  BY <1>1 DEF SweepShape
<1>4. runs' \subseteq runs /\ runs \subseteq Runs /\ Len(q) \in Nat
  BY <1>3, LenProperties DEF RegistryTypeOK
<1>5. \A r \in runs \ runs' : Stamped(r) \/ r \in Overdue(t)
  BY <1>2, <1>3 DEF TerminalRuns
<1>6. \A r \in runs' : IF terminal_at'[r] = NoTime THEN created_at[r] + MaxRunDuration > t
                                                   ELSE terminal_at'[r] + Ttl > t
  <2> SUFFICES ASSUME NEW r \in runs'
               PROVE  IF terminal_at'[r] = NoTime THEN created_at[r] + MaxRunDuration > t
                                                  ELSE terminal_at'[r] + Ttl > t
    OBVIOUS
  <2>1. terminal_at'[r] = stamps[r] /\ r \in runs /\ r \notin expired
        /\ stamps[r] \in Int /\ created_at[r] \in Int
    BY <1>2, <1>3, <1>4 DEF RegistryTypeOK, Times, NoTime
  <2>2. CASE stamps[r] = NoTime
    <3>1. r \in LiveRuns /\ r \notin overdue
      BY <2>1, <2>2, <1>2 DEF LiveRuns, TerminalRuns
    <3> QED
      BY <2>1, <2>2, <3>1, RegistryAssumption DEF Overdue
  <2>3. CASE stamps[r] # NoTime
    <3>1. r \in TerminalAmong(runs, stamps)
      BY <2>1, <2>3, <1>2
    <3>2. ~(stamps[r] + Ttl <= t)
      BY <2>1, <3>1 DEF Expired
    <3> QED
      BY <2>1, <2>3, <3>2, RegistryAssumption
  <2> QED
    BY <2>2, <2>3
<1>7. Cardinality({r \in runs' : terminal_at'[r] # NoTime}) <= MaxRuns
  <2>1. {r \in runs' : terminal_at'[r] # NoTime} = Elements(p)
    BY <1>2, <1>3, <1>4
  <2>2. Cardinality(Elements(p)) <= Len(p)
    BY ElementsBounded
  <2>3. Len(p) = IF n <= Len(q) THEN Len(q) - n ELSE 0
    BY <1>3, TrimPositions
  <2>4. n = IF Len(q) < MaxRuns THEN 0 ELSE Len(q) - MaxRuns
    BY <1>3 DEF SaturatingSub
  <2>5. Len(p) <= MaxRuns /\ Len(p) \in Nat
    BY <1>4, <2>3, <2>4, RegistryAssumption
  <2>6. Cardinality(Elements(p)) \in Nat
    <3>1. Elements(p) \in SUBSET Runs
      BY <1>2, <1>3, <1>4
    <3> QED
      BY <3>1, RegistryAssumption, FS_Subset, FS_CardinalityType
  <2>7. Cardinality(Elements(p)) <= MaxRuns
    BY <2>2, <2>5, <2>6, RegistryAssumption
  <2> QED
    BY <2>1, <2>7
<1>8. \A i, j \in 1 .. Len(completion_order) :
        i < j /\ completion_order[i] \in runs' /\ completion_order[j] \notin runs' =>
          terminal_at[completion_order[j]] + Ttl <= t
  <2> SUFFICES ASSUME NEW i \in 1 .. Len(completion_order),
                      NEW j \in 1 .. Len(completion_order),
                      i < j, completion_order[i] \in runs', completion_order[j] \notin runs'
               PROVE  terminal_at[completion_order[j]] + Ttl <= t
    OBVIOUS
  <2> DEFINE early == completion_order[i]
             late  == completion_order[j]
  <2>1. early \in TerminalRuns /\ late \in TerminalRuns
    BY DEF CompletionOrderExact, Elements
  <2>2. CASE late \in expired
    <3>1. late \in runs /\ late \notin overdue /\ late \in Runs
      BY <1>2, <1>4, <2>1 DEF LiveRuns, TerminalRuns
    <3> QED
      BY <2>2, <3>1 DEF Expired, StampedAt
  <2>3. CASE late \notin expired
    <3>1. late \in Elements(q) /\ late \notin Elements(p)
      BY <1>2, <1>3, <2>1, <2>3
    <3>2. early \in Elements(p)
      BY <1>2, <1>3, <2>1
    <3>3. PICK k \in 1 .. Len(q) : q[k] = late
      BY <3>1, SMTT(30) DEF Elements
    <3>4. /\ \A m \in 1 .. Len(q) : m > n => q[m] \in Elements(p)
          /\ \A x \in Elements(p) : \E m \in 1 .. Len(q) : m > n /\ q[m] = x
      BY <1>3, TrimmedElements
    <3>5. PICK m \in 1 .. Len(q) : m > n /\ q[m] = early
      BY <3>2, <3>4
    <3>6. k < m
      BY <3>1, <3>3, <3>4, <3>5, SMTT(30)
    <3>7. Index(q0, late) < Index(q0, early)
      BY <1>1, <3>3, <3>5, <3>6 DEF SweepShape
    <3>8. q0[i] = early /\ q0[j] = late /\ i \in 1 .. Len(q0) /\ j \in 1 .. Len(q0) /\ NoRepetition(q0)
      <4>1. Len(completion_order) \in Nat /\ Len(q0) \in Nat
        BY LenProperties DEF RegistryTypeOK
      <4>2. /\ Len(completion_order) <= Len(q0) /\ NoRepetition(q0)
            /\ \A x \in 1 .. Len(completion_order) : q0[x] = completion_order[x]
        BY <1>1 DEF SweepShape
      <4>3. i \in 1 .. Len(q0) /\ j \in 1 .. Len(q0)
        BY <4>1, <4>2
      <4> QED
        BY <4>2, <4>3
    <3>9. Index(q0, early) = i /\ Index(q0, late) = j
      BY <3>8, IndexUnique
    <3> QED
      BY <3>7, <3>9
  <2> QED
    BY <2>2, <2>3
<1> QED
  BY <1>5, <1>6, <1>7, <1>8

-----------------------------------------------------------------------------
(* The server.                                                              *)

\* Requests that have an Arc of a lock.
Active == Holding \union {"queued"}

\* The map holds a run only for a request whose writer was spawned.
MapFollowsStages == \A r \in runs : stage[r] \in {"running", "stamping", "unlocking", "finished"}

\* A run that was not told to stop is counted until its writer ends.
RunningIsLive == \A r \in Runs : stage[r] = "running" /\ r \notin cancelled => r \in LiveRuns

\* As long as one request has the lock of a named session, the map keeps it:
\* all requests of the session that have a lock share one.
LocksShared ==
  \A r \in Runs :
    /\ stage[r] \in Active => lock[r] # None
    /\ stage[r] \in Active /\ Key[r] # Anonymous => locks[Key[r]] = lock[r]

\* A lock is held by at most one request.
Exclusive ==
  \A r, q \in Runs : stage[r] \in Holding /\ stage[q] \in Holding /\ lock[r] = lock[q] => r = q

ServerInv ==
  /\ TypeOK /\ RegistryInv /\ MapFollowsStages /\ RunningIsLive
  /\ LocksShared /\ Exclusive

-----------------------------------------------------------------------------
\* The initial states satisfy the inductive invariant.
LEMMA ServerInitially ==
  Init => ServerInv
<1> SUFFICES ASSUME Init PROVE ServerInv
  OBVIOUS
<1>1. RegistryInv
  BY RegistryInitially DEF Init
<1>2. TypeOK
  BY <1>1, ServerAssumption DEF Init, TypeOK, RegistryInv, Stages, Holding
<1> QED
  BY <1>1, <1>2 DEF Init, RegistryInit, ServerInv, MapFollowsStages, RunningIsLive, LocksShared,
                    Exclusive, Active, Holding

\* A step that leaves the registry alone leaves its invariants alone.
LEMMA RegistryUnchanged ==
  ASSUME RegistryInv, UNCHANGED registryVars
  PROVE  RegistryInv' /\ LiveRuns' = LiveRuns
<1>1. LiveRuns' = LiveRuns /\ TerminalRuns' = TerminalRuns
  BY DEF registryVars, LiveRuns, TerminalRuns, Stamped
<1> QED
  BY <1>1 DEF registryVars, RegistryInv, RegistryTypeOK, LiveCountExact, CompletionOrderExact,
              Forgotten, Elements

\* lock_for prunes only locks nobody has an Arc of, so a key that some request
\* waits on or holds keeps its lock.
LEMMA LockForKeeps ==
  ASSUME NEW r \in Runs, ServerInv, LockFor(r)
  PROVE  ServerInv'
<1> USE DEF ServerInv
<1>1. RegistryInv' /\ LiveRuns' = LiveRuns
  BY RegistryUnchanged DEF LockFor
<1>2. /\ stage[r] = "new" /\ stage' = [stage EXCEPT ![r] = "queued"]
      /\ runs' = runs /\ cancelled' = cancelled
      /\ stage \in [Runs -> Stages] /\ lock \in [Runs -> Runs \union {None}]
      /\ locks \in [Keys -> Runs \union {None}]
  BY DEF LockFor, registryVars, TypeOK
<1>3. MapFollowsStages' /\ RunningIsLive'
  BY <1>1, <1>2 DEF MapFollowsStages, RunningIsLive
<1>4. Pruned \in [Keys -> Runs \union {None}]
  BY <1>2 DEF Pruned
<1>5. /\ lock' = [lock EXCEPT ![r] = lock'[r]] /\ lock'[r] \in Runs /\ lock'[r] # None
      /\ Key[r] = Anonymous => locks' = locks
      /\ Key[r] # Anonymous => locks' = [Pruned EXCEPT ![Key[r]] = lock'[r]]
      /\ Key[r] # Anonymous /\ Pruned[Key[r]] # None => lock'[r] = Pruned[Key[r]]
  BY <1>2, <1>4, ServerAssumption DEF LockFor
<1>6. \A q \in Runs \ {r} : stage'[q] = stage[q] /\ lock'[q] = lock[q]
  BY <1>2, <1>5
<1>7. TypeOK'
  <2>1. locks' \in [Keys -> Runs \union {None}] /\ lock' \in [Runs -> Runs \union {None}]
    BY <1>2, <1>4, <1>5, ServerAssumption
  <2>2. stage' \in [Runs -> Stages]
    BY <1>2 DEF Stages
  <2> QED
    BY <1>1, <2>1, <2>2 DEF TypeOK, RegistryInv, LockFor, clockVars
<1>8. LocksShared'
  <2> SUFFICES ASSUME NEW q \in Runs, stage'[q] \in Active
               PROVE  lock'[q] # None /\ (Key[q] # Anonymous => locks'[Key[q]] = lock'[q])
    BY DEF LocksShared
  <2>1. CASE q = r
    BY <2>1, <1>2, <1>4, <1>5, ServerAssumption
  <2>2. CASE q # r
    <3>1. /\ stage[q] \in Active /\ lock'[q] = lock[q] /\ lock[q] # None
          /\ Key[q] # Anonymous => locks[Key[q]] = lock[q] /\ Key[q] \in Keys
      BY <2>2, <1>6, ServerAssumption DEF LocksShared
    <3>2. Key[q] # Anonymous => Pruned[Key[q]] = lock[q]
      BY <3>1 DEF Pruned, Sharers
    <3> QED
      BY <3>1, <3>2, <1>4, <1>5, <2>2
  <2> QED
    BY <2>1, <2>2
<1>9. Exclusive'
  BY <1>2, <1>6 DEF Exclusive, Holding
<1> QED
  BY <1>1, <1>3, <1>7, <1>8, <1>9

\* A request that drops its Arc of the lock, with the registry untouched.
LEMMA DropKeeps ==
  ASSUME NEW r \in Runs, NEW s \in {"dropped", "finished"}, ServerInv,
         stage[r] \in {"queued", "locked", "unlocking"}, r \in runs => s = "finished",
         stage' = [stage EXCEPT ![r] = s], lock' = [lock EXCEPT ![r] = None],
         UNCHANGED <<registryVars, locks, clockVars>>
  PROVE  ServerInv'
<1> USE DEF ServerInv
<1>1. RegistryInv' /\ LiveRuns' = LiveRuns /\ runs' = runs /\ cancelled' = cancelled
  BY RegistryUnchanged DEF registryVars
<1>2. TypeOK'
  BY <1>1 DEF TypeOK, RegistryInv, clockVars, Stages
<1>3. MapFollowsStages' /\ RunningIsLive'
  BY <1>1 DEF MapFollowsStages, RunningIsLive, TypeOK
<1>4. LocksShared' /\ Exclusive'
  BY DEF LocksShared, Exclusive, Active, Holding, TypeOK
<1> QED
  BY <1>1, <1>2, <1>3, <1>4

\* A request that takes a free lock becomes its only holder.
LEMMA AcquireKeeps ==
  ASSUME NEW r \in Runs, ServerInv, Acquire(r)
  PROVE  ServerInv'
<1> USE DEF ServerInv
<1>1. RegistryInv' /\ LiveRuns' = LiveRuns /\ runs' = runs /\ cancelled' = cancelled
  BY RegistryUnchanged DEF registryVars, Acquire
<1>2. /\ stage[r] = "queued" /\ stage' = [stage EXCEPT ![r] = "locked"]
      /\ lock' = lock /\ locks' = locks /\ stage \in [Runs -> Stages]
      /\ lock[r] # None
  BY DEF Acquire, TypeOK, LocksShared, Active
<1>3. TypeOK'
  BY <1>1, <1>2 DEF TypeOK, RegistryInv, Acquire, Stages, Holding
<1>4. MapFollowsStages' /\ RunningIsLive' /\ LocksShared'
  BY <1>1, <1>2 DEF MapFollowsStages, RunningIsLive, LocksShared, Active, Holding
<1>5. Exclusive'
  <2>1. \A x \in Runs : lock[x] = lock[r] => stage[x] \notin Holding
    BY <1>2 DEF Acquire, Sharers
  <2> QED
    BY <1>2, <2>1 DEF Exclusive, Holding
<1> QED
  BY <1>1, <1>3, <1>4, <1>5

\* A holder that moves on to another stage in which it holds its lock.
LEMMA HolderKeepsLocks ==
  ASSUME NEW r \in Runs, NEW s \in Holding, LocksShared, Exclusive, stage \in [Runs -> Stages],
         stage[r] \in Holding, stage' = [stage EXCEPT ![r] = s], UNCHANGED <<locks, lock>>
  PROVE  LocksShared' /\ Exclusive' /\ stage' \in [Runs -> Stages]
<1>1. stage' \in [Runs -> Stages] /\ \A q \in Runs : stage'[q] \in Holding <=> stage[q] \in Holding
  BY DEF Stages
<1>2. \A q \in Runs : stage'[q] \in Active <=> stage[q] \in Active
  BY <1>1 DEF Active, Holding
<1> QED
  BY <1>1, <1>2 DEF LocksShared, Exclusive

\* create is called by the holder of the session lock; the new run is live.
LEMMA AdmitKeeps ==
  ASSUME NEW r \in Runs, ServerInv, Admit(r)
  PROVE  ServerInv'
<1> USE DEF ServerInv
<1>1. r \notin runs
  BY DEF Admit, MapFollowsStages
<1>2. RegistryInv' /\ LiveRuns' = LiveRuns \union {r}
  BY <1>1, CreateKeeps DEF Admit, TypeOK
<1>3. /\ stage' = [stage EXCEPT ![r] = "running"] /\ stage \in [Runs -> Stages]
      /\ runs' = runs \union {r} /\ cancelled' = cancelled /\ UNCHANGED <<locks, lock, clockVars>>
  BY DEF Admit, Create, TypeOK
<1>4. LocksShared' /\ Exclusive' /\ stage' \in [Runs -> Stages]
  BY <1>3, HolderKeepsLocks DEF Admit, Holding
<1>5. TypeOK'
  BY <1>2, <1>3, <1>4 DEF TypeOK, RegistryInv, clockVars
<1>6. MapFollowsStages' /\ RunningIsLive'
  BY <1>2, <1>3 DEF MapFollowsStages, RunningIsLive
<1> QED
  BY <1>2, <1>4, <1>5, <1>6

\* The end of a run keeps its lock and its slot until the writer stamps it.
LEMMA RunEndsKeeps ==
  ASSUME NEW r \in Runs, ServerInv, RunEnds(r)
  PROVE  ServerInv'
<1> USE DEF ServerInv
<1>1. RegistryInv' /\ LiveRuns' = LiveRuns /\ runs' = runs /\ cancelled' = cancelled
  BY RegistryUnchanged DEF registryVars, RunEnds
<1>2. LocksShared' /\ Exclusive' /\ stage' \in [Runs -> Stages]
  BY HolderKeepsLocks DEF RunEnds, Holding, TypeOK
<1>3. TypeOK'
  BY <1>1, <1>2 DEF TypeOK, RegistryInv, RunEnds
<1>4. MapFollowsStages' /\ RunningIsLive'
  BY <1>1 DEF MapFollowsStages, RunningIsLive, RunEnds, TypeOK
<1> QED
  BY <1>1, <1>2, <1>3, <1>4

\* The writer stamps its run while it still holds the session lock.
LEMMA StampKeeps ==
  ASSUME NEW r \in Runs, ServerInv, Stamp(r)
  PROVE  ServerInv'
<1> USE DEF ServerInv
<1>1. RegistryInv' /\ LiveRuns' = LiveRuns \ {r}
  BY NoteTerminalKeeps DEF Stamp, TypeOK
<1>2. runs' = runs /\ cancelled' = cancelled
  BY DEF Stamp, NoteTerminal, registryVars
<1>3. LocksShared' /\ Exclusive' /\ stage' \in [Runs -> Stages]
  BY HolderKeepsLocks DEF Stamp, Holding, TypeOK
<1>4. TypeOK'
  BY <1>1, <1>3 DEF TypeOK, RegistryInv, Stamp
<1>5. MapFollowsStages' /\ RunningIsLive'
  BY <1>1, <1>2 DEF MapFollowsStages, RunningIsLive, Stamp, TypeOK
<1> QED
  BY <1>1, <1>3, <1>4, <1>5

\* A sweep marks the overdue runs cancelled and touches no lock.
LEMMA SweeperSweepsKeeps ==
  ASSUME ServerInv, SweeperSweeps
  PROVE  ServerInv'
<1> USE DEF ServerInv
<1>1. /\ RegistryInv' /\ LiveRuns' = LiveRuns \ Overdue(sweep_clock) /\ runs' \subseteq runs
      /\ cancelled' = cancelled \union Overdue(sweep_clock)
  BY SweepKeeps DEF SweeperSweeps, TypeOK
<1>2. UNCHANGED <<stage, locks, lock>>
  BY DEF SweeperSweeps, requestVars
<1>3. LocksShared' /\ Exclusive'
  BY <1>2 DEF LocksShared, Exclusive
<1>4. TypeOK'
  BY <1>1, <1>2 DEF TypeOK, RegistryInv, SweeperSweeps
<1>5. MapFollowsStages' /\ RunningIsLive'
  BY <1>1, <1>2 DEF MapFollowsStages, RunningIsLive
<1> QED
  BY <1>1, <1>3, <1>4, <1>5

\* Time, the sweeper's clock, and stuttering.
LEMMA ClockKeeps ==
  ASSUME ServerInv, UNCHANGED <<registryVars, requestVars>>, now' \in Nat, sweep_clock' \in Nat,
         read_clock' = read_clock, sweeper' \in {"off", "idle", "armed"}
  PROVE  ServerInv'
<1> USE DEF ServerInv
<1>1. RegistryInv' /\ LiveRuns' = LiveRuns /\ runs' = runs /\ cancelled' = cancelled
  BY RegistryUnchanged DEF registryVars
<1>2. UNCHANGED <<stage, locks, lock>>
  BY DEF requestVars
<1> QED
  BY <1>1, <1>2 DEF TypeOK, RegistryInv, MapFollowsStages, RunningIsLive, LocksShared, Exclusive

\* Every step preserves the invariant: one case for each action of the server.
LEMMA ServerStep ==
  ServerInv /\ [Next]_vars => ServerInv'
<1> SUFFICES ASSUME ServerInv, [Next]_vars PROVE ServerInv'
  OBVIOUS
<1>1. ASSUME NEW r \in Runs, Reject(r) \/ GiveUp(r) PROVE ServerInv'
  <2>1. r \notin runs
    BY <1>1 DEF Reject, GiveUp, ServerInv, MapFollowsStages
  <2> QED
    BY <1>1, <2>1, DropKeeps DEF Reject, GiveUp
<1>2. ASSUME NEW r \in Runs, Unlock(r) PROVE ServerInv'
  BY <1>2, DropKeeps DEF Unlock
<1>3. CASE SweeperReadsClock
  BY <1>3, ClockKeeps DEF SweeperReadsClock, ServerInv, TypeOK
<1>4. CASE Tick
  BY <1>4, ClockKeeps DEF Tick, ServerInv, TypeOK
<1>5. CASE UNCHANGED vars
  BY <1>5, ClockKeeps DEF vars, clockVars, ServerInv, TypeOK
<1>6. CASE SweeperSweeps
  BY <1>6, SweeperSweepsKeeps
<1> QED
  BY <1>1, <1>2, <1>3, <1>4, <1>5, <1>6, LockForKeeps, AcquireKeeps, AdmitKeeps, RunEndsKeeps,
     StampKeeps DEF Next, RequestStep, WriterStep

-----------------------------------------------------------------------------
(* The theorems.                                                            *)

\* The inductive invariant holds in every reachable state.
LEMMA ServerInvariant ==
  Spec => []ServerInv
<1>1. ServerInv /\ [Next]_vars => ServerInv'
  BY ServerStep
<1> QED
  BY ServerInitially, <1>1, PTL DEF Spec

\* Every request, lock, clock and registry field keeps its type, whatever the
\* handlers of runs.rs, their writers and the sweeper do.
THEOREM ServerTypeOK ==
  Spec => []TypeOK
<1>1. ServerInv => TypeOK
  BY DEF ServerInv
<1> QED
  BY ServerInvariant, <1>1, PTL

\* The maintained counter of registry.rs is the number of non-terminal runs in
\* the map and never exceeds max_in_flight, so that the saturating subtraction in
\* note_terminal and sweep never hides a wrong count; completion_order is the
\* terminal runs of the map, each once, whichever way sweeps and the writers'
\* stamps interleave.
THEOREM ServerRegistryExact ==
  Spec => []RegistryExact
<1>1. ServerInv => RegistryExact
  BY DEF ServerInv, RegistryInv, RegistryExact
<1> QED
  BY ServerInvariant, <1>1, PTL

\* Requests of one named session run one after the other, although lock_for
\* prunes the lock map on every request.
THEOREM ServerOneRunPerSession ==
  Spec => []OneRunPerSession
<1>1. ServerInv => OneRunPerSession
  <2> SUFFICES ASSUME ServerInv, NEW r \in Runs, NEW q \in Runs, r # q,
                      stage[r] \in Holding, stage[q] \in Holding,
                      Key[r] = Key[q], Key[r] # Anonymous
               PROVE  FALSE
    BY DEF OneRunPerSession
  <2>1. locks[Key[r]] = lock[r] /\ locks[Key[q]] = lock[q]
    BY DEF ServerInv, LocksShared, Active
  <2> QED
    BY <2>1 DEF ServerInv, Exclusive
<1> QED
  BY ServerInvariant, <1>1, PTL

\* No more than max_in_flight runs are being driven that were not told to
\* stop: a slot is given away early only for a run that sweep has cancelled.
THEOREM ServerRunningBounded ==
  Spec => []RunningBounded
<1>1. ServerInv => RunningBounded
  <2> SUFFICES ASSUME ServerInv PROVE RunningBounded
    OBVIOUS
  <2> DEFINE driven == {r \in Runs : stage[r] = "running" /\ r \notin cancelled}
  <2>1. driven \in SUBSET LiveRuns
    BY DEF ServerInv, RunningIsLive
  <2>2. /\ Cardinality(driven) <= Cardinality(LiveRuns) /\ Cardinality(driven) \in Nat
        /\ Cardinality(LiveRuns) \in Nat
    BY <2>1, LiveFinite, FS_Subset, FS_CardinalityType DEF ServerInv, RegistryInv
  <2>3. Cardinality(LiveRuns) <= MaxInFlight
    BY DEF ServerInv, RegistryInv, LiveCountExact
  <2> HIDE DEF driven
  <2>4. Cardinality(driven) <= MaxInFlight
    BY <2>2, <2>3, RegistryAssumption
  <2> QED
    BY <2>4 DEF driven, RunningBounded
<1> QED
  BY ServerInvariant, <1>1, PTL

\* Whatever was stamped or admitted since the sweeper read its clock, a sweep
\* evicts ended runs only, oldest completions first, and leaves nothing that
\* was overdue or expired at that reading and at most max_runs ended runs; no
\* other step takes a run out of the map.
THEOREM ServerSweepIsOrderly ==
  Spec => SweepIsOrderly
<1> DEFINE Orderly ==
      /\ \A r \in runs \ runs' : Stamped(r) \/ r \in Overdue(sweep_clock)
      /\ \A i, j \in 1 .. Len(completion_order) :
           LET early == completion_order[i]  late == completion_order[j]
           IN  i < j /\ early \in runs' /\ late \notin runs' =>
                 terminal_at[late] + Ttl <= sweep_clock
      /\ sweeper = "armed" /\ sweeper' = "idle" =>
           /\ \A r \in runs' :
                IF terminal_at'[r] = NoTime
                  THEN created_at[r] + MaxRunDuration > sweep_clock
                  ELSE terminal_at'[r] + Ttl > sweep_clock
           /\ Cardinality({r \in runs' : terminal_at'[r] # NoTime}) <= MaxRuns
<1>1. ServerInv /\ [Next]_vars => [Orderly]_vars
  <2> SUFFICES ASSUME ServerInv, Next PROVE Orderly
    OBVIOUS
  <2>1. CASE SweeperSweeps
    <3>1. sweep_clock \in Nat /\ RegistryInv /\ Sweep(sweep_clock)
      BY <2>1 DEF SweeperSweeps, ServerInv, TypeOK
    <3> QED
      BY <3>1, SweepOrderly
  <2>2. CASE runs \subseteq runs' /\ (sweeper' = sweeper \/ sweeper # "armed")
    <3>1. \A i \in 1 .. Len(completion_order) : completion_order[i] \in runs
      BY DEF ServerInv, RegistryInv, CompletionOrderExact, Elements, TerminalRuns
    <3> QED
      BY <2>2, <3>1
  <2>3. SweeperSweeps \/ (runs \subseteq runs' /\ (sweeper' = sweeper \/ sweeper # "armed"))
    <3>1. ASSUME NEW r \in Runs, RequestStep(r) \/ GiveUp(r) \/ RunEnds(r) \/ WriterStep(r)
          PROVE  runs \subseteq runs' /\ (sweeper' = sweeper \/ sweeper # "armed")
      BY <3>1 DEF RequestStep, LockFor, Acquire, Reject, Admit, Create, GiveUp, RunEnds, WriterStep,
                  Stamp, NoteTerminal, Unlock, registryVars, clockVars
    <3>2. ASSUME SweeperReadsClock \/ Tick
          PROVE  runs \subseteq runs' /\ (sweeper' = sweeper \/ sweeper # "armed")
      BY <3>2 DEF SweeperReadsClock, Tick, registryVars
    <3> QED
      BY <3>1, <3>2, SMTT(30) DEF Next
  <2> QED
    BY <2>1, <2>2, <2>3
<1> QED
  BY ServerInvariant, <1>1, PTL DEF Spec, SweepIsOrderly
=============================================================================
