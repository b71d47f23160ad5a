----------------------------- MODULE RunRegistry ----------------------------
(***************************************************************************)
(* The registry of in-flight and recently completed runs                    *)
(* (runtime-axum/src/registry.rs; runtime-actix carries the same file).     *)
(* Every operation runs under the one write lock, so each is one atomic     *)
(* step; the clock value it is given was read before the lock was taken.    *)
(***************************************************************************)
EXTENDS Integers, Sequences, FiniteSets

CONSTANTS Runs, MaxInFlight, MaxRuns, Ttl, MaxRunDuration

ASSUME RegistryAssumption ==
  /\ IsFiniteSet(Runs)
  /\ MaxInFlight \in Nat /\ MaxRuns \in Nat /\ Ttl \in Nat /\ MaxRunDuration \in Nat

VARIABLES
  runs,              \* ids in the map
  created_at,        \* RunHandle.created_at
  terminal_at,       \* RunHandle.terminal_at, NoTime while it is None
  completion_order,  \* terminal runs, oldest completion first
  live,              \* the maintained count of non-terminal runs
  cancelled          \* runs whose cancellation token has fired

registryVars == <<runs, created_at, terminal_at, completion_order, live, cancelled>>

NoTime == -1
Times == Nat \union {NoTime}

RegistryTypeOK ==
  /\ runs \subseteq Runs /\ cancelled \subseteq Runs
  /\ created_at \in [Runs -> Times] /\ terminal_at \in [Runs -> Times]
  /\ completion_order \in Seq(Runs)
  /\ live \in Nat

RegistryInit ==
  /\ runs = {} /\ cancelled = {}
  /\ created_at = [r \in Runs |-> NoTime] /\ terminal_at = [r \in Runs |-> NoTime]
  /\ completion_order = <<>>
  /\ live = 0

Stamped(r) == terminal_at[r] # NoTime
LiveRuns == {r \in runs : ~Stamped(r)}
TerminalRuns == {r \in runs : Stamped(r)}

SaturatingSub(a, b) == IF a < b THEN 0 ELSE a - b

-----------------------------------------------------------------------------
HasRoom == live < MaxInFlight

\* Admission and insertion share the critical section.
Create(r, t) ==
  /\ HasRoom
  /\ runs' = runs \union {r}
  /\ created_at' = [created_at EXCEPT ![r] = t]
  /\ live' = live + 1
  /\ UNCHANGED <<terminal_at, completion_order, cancelled>>

\* A stamp that does not look whether the run is stamped already.
NoteTerminal_NotIdempotent(r, t) ==
  IF r \in runs
    THEN /\ terminal_at' = [terminal_at EXCEPT ![r] = t]
         /\ completion_order' = Append(completion_order, r)
         /\ live' = live - 1
         /\ UNCHANGED <<runs, created_at, cancelled>>
    ELSE UNCHANGED registryVars

NoteTerminal(r, t) ==
  IF r \in runs /\ ~Stamped(r)
    THEN /\ terminal_at' = [terminal_at EXCEPT ![r] = t]
         /\ completion_order' = Append(completion_order, r)
         /\ live' = SaturatingSub(live, 1)
         /\ UNCHANGED <<runs, created_at, cancelled>>
    ELSE UNCHANGED registryVars

-----------------------------------------------------------------------------
(* sweep: reclaim the overdue, drop the expired, then trim to max_runs.     *)

\* A sweep that gives up on reclaiming runs that do not end.
Overdue_Never(t) == {r \in LiveRuns : r \in cancelled}

Overdue(t) == {r \in LiveRuns : created_at[r] + MaxRunDuration <= t}

\* The ways to arrange a finite set as a sequence without repetition.
Arrangements(S) ==
  { p \in [1 .. Cardinality(S) -> S] :
      /\ \A x \in S : \E i \in 1 .. Cardinality(S) : p[i] = x
      /\ \A i, j \in 1 .. Cardinality(S) : i # j => p[i] # p[j] }

\* Pass 0 stamps the overdue runs and walks a hash map to queue them, so it
\* appends them in any order.
StampedAt(overdue, t) ==
  [r \in Runs |-> IF r \in overdue THEN t ELSE terminal_at[r]]
Reclaimed(overdue) == { completion_order \o p : p \in Arrangements(overdue) }

\* Terminal runs among ids, for given stamps.
TerminalAmong(ids, stamps) == {r \in ids : stamps[r] # NoTime}

\* Pass 1: terminal runs whose retention window is over.
Expired(stamps, t) == {r \in TerminalAmong(runs, stamps) : stamps[r] + Ttl <= t}

Elements(q) == {q[i] : i \in 1 .. Len(q)}
Index(q, x) == CHOOSE i \in 1 .. Len(q) : q[i] = x

\* The queue q without the ids in S, in the same order (q has no repetition).
Retained(q, S) ==
  { p \in Arrangements(Elements(q) \ S) :
      \A i, j \in 1 .. Len(p) : i < j => Index(q, p[i]) < Index(q, p[j]) }

\* A trim that evicts the most recently completed runs first.
Trim_NewestFirst(q, n) == SubSeq(q, 1, Len(q) - n)

\* Pass 2 pops n runs off the front; every queued id is in the map, so each
\* pop evicts one run.
Trim(q, n) == SubSeq(q, n + 1, Len(q))

Sweep(t) ==
  LET overdue == Overdue(t)
      stamps  == StampedAt(overdue, t)
      expired == Expired(stamps, t)
      excess  == SaturatingSub(Cardinality(TerminalAmong(runs \ expired, stamps)), MaxRuns)
  IN  /\ cancelled' = cancelled \union overdue
      /\ live' = SaturatingSub(live, Cardinality(overdue))
      /\ \E q0 \in Reclaimed(overdue) : \E q \in Retained(q0, expired) :
           /\ completion_order' = Trim(q, excess)
           /\ runs' = (runs \ expired) \ (Elements(q) \ Elements(Trim(q, excess)))
           /\ created_at' = [r \in Runs |-> IF r \in runs' THEN created_at[r] ELSE NoTime]
           /\ terminal_at' = [r \in Runs |-> IF r \in runs' THEN stamps[r] ELSE NoTime]

-----------------------------------------------------------------------------
(* Properties.                                                              *)

\* live never drifts from the map (the comment at registry.rs:100-108), and
\* the in-flight cap holds.
LiveCountExact == live = Cardinality(LiveRuns) /\ live <= MaxInFlight

\* The completion queue lists every terminal run of the map once and nothing
\* else, whatever sweeps and late stamps interleave: it cannot grow without
\* bound and the cap never runs out of candidates.
CompletionOrderExact ==
  /\ Elements(completion_order) = TerminalRuns
  /\ \A i, j \in 1 .. Len(completion_order) :
       i # j => completion_order[i] # completion_order[j]

\* The registry's two summaries of its map, the counter that admits runs and the
\* queue that evicts them, agree with it.
RegistryExact == LiveCountExact /\ CompletionOrderExact
=============================================================================
