------------------------------ MODULE RunServer -----------------------------
(***************************************************************************)
(* Requests through handlers/runs.rs: create_run: queue on the session's    *)
(* lock, register the run, hand it to the detached writer; and the sweeper  *)
(* that works on the registry behind their back.  Event delivery is module  *)
(* RunStream.  A run, and a lock, has the name of the request it is for.    *)
(***************************************************************************)
EXTENDS RunRegistry

CONSTANTS Keys,          \* named session keys
          Anonymous,     \* a request without X-Session-Id
          Key,           \* the session key each request names
          None,          \* no lock
          MaxTime        \* bound: clock values

ASSUME ServerAssumption ==
  /\ Anonymous \notin Keys /\ Key \in [Runs -> Keys \union {Anonymous}]
  /\ None \notin Runs /\ MaxTime \in Nat

VARIABLES
  stage,           \* where each request is
  locks, lock,     \* SessionLocks.map, and the lock each request holds an Arc of
  now,             \* the monotonic clock
  read_clock,      \* Instant::now() that TerminalGuard passes to note_terminal
  sweeper,         \* "off", "idle" (router starts it if it can), or "armed": it read the clock
  sweep_clock      \* the Instant::now() the armed sweeper passes to sweep

requestVars == <<stage, locks, lock>>
clockVars == <<now, read_clock, sweeper, sweep_clock>>
vars == <<registryVars, requestVars, clockVars>>

\* Stages in which a request holds its session's lock.
Holding == {"locked", "running", "stamping", "unlocking"}
Stages == Holding \union {"new", "queued", "finished", "dropped"}

TypeOK ==
  /\ RegistryTypeOK
  /\ stage \in [Runs -> Stages]
  /\ locks \in [Keys -> Runs \union {None}] /\ lock \in [Runs -> Runs \union {None}]
  /\ now \in Nat /\ read_clock \in [Runs -> Nat] /\ sweep_clock \in Nat
  /\ sweeper \in {"off", "idle", "armed"}

Init ==
  /\ RegistryInit
  /\ stage = [r \in Runs |-> "new"]
  /\ locks = [k \in Keys |-> None] /\ lock = [r \in Runs |-> None]
  /\ now = 0 /\ read_clock = [r \in Runs |-> 0]
  /\ sweeper \in {"off", "idle"} /\ sweep_clock = 0

-----------------------------------------------------------------------------
(* create_run up to the spawn of the writer.                                *)

\* Requests that keep an Arc of lock l alive.
Sharers(l) == {r \in Runs : l # None /\ lock[r] = l}

\* A prune that drops every lock no run holds, waiters or not.
Pruned_HeldOnly ==
  [k \in Keys |-> IF \E r \in Sharers(locks[k]) : stage[r] \in Holding
                  THEN locks[k] ELSE None]

\* retain: forget the locks that only the map holds.
Pruned == [k \in Keys |-> IF Sharers(locks[k]) # {} THEN locks[k] ELSE None]

\* The request is valid and its session resolved: SessionLocks::lock_for.
LockFor(r) ==
  LET k == Key[r]
      shared == k # Anonymous /\ Pruned[k] # None
  IN  /\ stage[r] = "new"
      /\ stage' = [stage EXCEPT ![r] = "queued"]
      /\ lock' = [lock EXCEPT ![r] = IF shared THEN Pruned[k] ELSE r]
      /\ locks' = IF k = Anonymous THEN locks ELSE [Pruned EXCEPT ![k] = lock'[r]]
      /\ UNCHANGED <<registryVars, clockVars>>

\* lock_owned().await returns; spawn_sweeper starts the sweeper the first time.
Acquire(r) ==
  /\ stage[r] = "queued"
  /\ \A x \in Sharers(lock[r]) : stage[x] \notin Holding
  /\ stage' = [stage EXCEPT ![r] = "locked"]
  /\ sweeper' = IF sweeper = "off" THEN "idle" ELSE sweeper
  /\ UNCHANGED <<registryVars, locks, lock, now,
                 read_clock, sweep_clock>>

\* The context provider fails, or the registry is full: the guard is dropped.
Reject(r) ==
  /\ stage[r] = "locked"
  /\ stage' = [stage EXCEPT ![r] = "dropped"]
  /\ lock' = [lock EXCEPT ![r] = None]
  /\ UNCHANGED <<registryVars, locks, clockVars>>

Admit(r) ==
  /\ stage[r] = "locked"
  /\ Create(r, now)
  /\ stage' = [stage EXCEPT ![r] = "running"]
  /\ UNCHANGED <<locks, lock, clockVars>>

\* The client gives up before the writer is spawned: the handler is dropped.
GiveUp(r) ==
  /\ stage[r] \in {"queued", "locked"}
  /\ stage' = [stage EXCEPT ![r] = "dropped"]
  /\ lock' = [lock EXCEPT ![r] = None]
  /\ UNCHANGED <<registryVars, locks, clockVars>>

-----------------------------------------------------------------------------
(* The writer's end: TerminalGuard::drop, then the session lock.            *)

RunEnds(r) ==
  /\ stage[r] = "running"
  /\ stage' = [stage EXCEPT ![r] = "stamping"]
  /\ read_clock' = [read_clock EXCEPT ![r] = now]
  /\ UNCHANGED <<registryVars, locks, lock, now,
                 sweeper, sweep_clock>>

Stamp(r) ==
  /\ stage[r] = "stamping"
  /\ NoteTerminal(r, read_clock[r])
  /\ stage' = [stage EXCEPT ![r] = "unlocking"]
  /\ read_clock' = [read_clock EXCEPT ![r] = 0]
  /\ UNCHANGED <<locks, lock, now, sweeper, sweep_clock>>

Unlock(r) ==
  /\ stage[r] = "unlocking"
  /\ stage' = [stage EXCEPT ![r] = "finished"]
  /\ lock' = [lock EXCEPT ![r] = None]
  /\ UNCHANGED <<registryVars, locks, clockVars>>

-----------------------------------------------------------------------------
(* spawn_sweeper's task, and time.                                          *)

SweeperReadsClock ==
  /\ sweeper = "idle"
  /\ sweeper' = "armed" /\ sweep_clock' = now
  /\ UNCHANGED <<registryVars, requestVars, now, read_clock>>

SweeperSweeps ==
  /\ sweeper = "armed"
  /\ Sweep(sweep_clock)
  /\ sweeper' = "idle" /\ sweep_clock' = 0
  /\ UNCHANGED <<requestVars, now, read_clock>>

Tick ==
  /\ now < MaxTime /\ now' = now + 1
  /\ UNCHANGED <<registryVars, requestVars, read_clock, sweeper, sweep_clock>>

RequestStep(r) == LockFor(r) \/ Acquire(r) \/ Reject(r) \/ Admit(r)
WriterStep(r) == Stamp(r) \/ Unlock(r) \/ (r \in cancelled /\ RunEnds(r))

Next ==
  \/ \E r \in Runs : RequestStep(r) \/ GiveUp(r) \/ RunEnds(r) \/ WriterStep(r)
  \/ SweeperReadsClock \/ SweeperSweeps \/ Tick

\* Tasks are scheduled, time passes and the interval ticks; a run that is not
\* cancelled may go on for ever.
Spec ==
  /\ Init /\ [][Next]_vars
  /\ WF_vars(\E r \in Runs : RequestStep(r) \/ WriterStep(r))
  /\ WF_vars(Tick) /\ WF_vars(SweeperReadsClock \/ SweeperSweeps)

-----------------------------------------------------------------------------
(* Properties.                                                              *)

\* Two requests that name the same session never run at the same time, though
\* the lock map forgets locks between requests.
OneRunPerSession ==
  \A r, q \in Runs :
    r # q /\ stage[r] \in Holding /\ stage[q] \in Holding => Key[r] # Key[q] \/ Key[r] = Anonymous

\* The in-flight cap bounds the runs that really run: those whose writer has
\* not ended and that the sweeper has not told to stop.
RunningBounded ==
  Cardinality({r \in Runs : stage[r] = "running" /\ r \notin cancelled}) <= MaxInFlight

\* What a sweep may do and must do, for the clock value it was given: a run
\* leaves the map only when terminal; the count cap evicts the oldest
\* completions; afterwards nothing expired or overdue is left and at most
\* max_runs terminal runs are.
SweepIsOrderly ==
  [][/\ \A r \in runs \ runs' : Stamped(r) \/ r \in Overdue(sweep_clock)
     /\ \A i, j \in 1 .. Len(completion_order) :
          LET early == completion_order[i]  late == completion_order[j]
          IN  i < j /\ early \in runs' /\ late \notin runs' =>
                terminal_at[late] + Ttl <= sweep_clock
     /\ sweeper = "armed" /\ sweeper' = "idle" =>
          /\ \A r \in runs' :
               IF terminal_at'[r] = NoTime
                 THEN created_at[r] + MaxRunDuration > sweep_clock
                 ELSE terminal_at'[r] + Ttl > sweep_clock
          /\ Cardinality({r \in runs' : terminal_at'[r] # NoTime}) <= MaxRuns]_vars

\* A run that never ends by itself gives its slot and its session lock back
\* once the sweeper finds it overdue (if the bounded clock gets that far), so
\* the in-flight cap cannot shut the server for good.
SlotsReclaimed ==
  \A r \in Runs :
    (stage[r] = "running" /\ created_at[r] + MaxRunDuration <= MaxTime)
      ~> (stage[r] = "finished" /\ r \notin LiveRuns)
=============================================================================
