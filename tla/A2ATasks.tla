------------------------------ MODULE A2ATasks ------------------------------
(***************************************************************************)
(* The A2A task protocol of runtime-agentcore: the in-memory task store     *)
(* (a2a/store.rs), the cancel registry (a2a/cancel.rs) and the JSON-RPC      *)
(* methods over them (a2a/rpc.rs): message/send and message/stream, which   *)
(* both start a detached driver, tasks/cancel, and the subscriptions behind *)
(* message/stream and tasks/resubscribe.  Every store operation takes the   *)
(* store's lock once, and notifies before it releases it: one step each.    *)
(***************************************************************************)
EXTENDS Integers, Sequences, FiniteSets

CONSTANTS Tasks,       \* ids that task creation may mint
          Messages,    \* message/send or message/stream requests
          Cancels,     \* tasks/cancel requests
          Subs,        \* streams of message/stream or tasks/resubscribe
          None,
          MaxTasks,    \* InMemoryTaskStore.max_tasks (raised to one by new)
          MaxLog,      \* MAX_EVENTS_PER_TASK
          MaxArtifacts \* bound: artifact frames per run

ASSUME A2AAssumption ==
  /\ None \notin Tasks \union Messages /\ Messages \intersect Cancels = {}
  /\ MaxTasks \in Nat \ {0} /\ MaxLog \in Nat \ {0} /\ MaxArtifacts \in Nat

VARIABLES
  order,       \* Inner.order: the stored tasks, oldest first
  state,       \* Task.status.state
  artifacts,   \* Task.artifacts is not empty
  log, first,  \* Record.events and Record.first_seq
  tokens,      \* CancelRegistry: the message whose token is registered per task
  fired,       \* messages whose token was fired
  at,          \* where each message's handler and driver are
  target,      \* the task of each message and of each cancel request
  outcome,     \* a driver's local `outcome`, then its `final_state`
  sent,        \* artifact frames each driver appended
  answer,      \* where each cancel request is, or its answer
  sub, cursor, pending, phase, \* subscriptions: task, unfold state, place
  waiters,     \* subscriptions whose Notified is enabled and not notified
  last         \* whether the last frame sent on each was a final one

storeVars == <<order, state, artifacts, log, first>>
cancelVars == <<tokens, fired>>
driveVars == <<at, outcome, sent>>
subVars == <<sub, cursor, pending, phase, waiters, last>>
a2aVars == <<storeVars, cancelVars, driveVars, target, answer, subVars>>

IsTerminal(st) == st \in {"completed", "canceled", "failed"}
\* A frame of the log: the final status update, or an update before it (the
\* `working` status and the artifact updates).
FinalStatus(st) == [state |-> st, final |-> TRUE]
Update == [state |-> "working", final |-> FALSE]

Stored == {order[i] : i \in 1 .. Len(order)}
NextSeq(t) == first[t] + Len(log[t])

TaskInit ==
  /\ order = <<>> /\ state = [t \in Tasks |-> "submitted"]
  /\ artifacts = [t \in Tasks |-> FALSE]
  /\ log = [t \in Tasks |-> <<>>] /\ first = [t \in Tasks |-> 0]
  /\ tokens = [t \in Tasks |-> None] /\ fired = {}
  /\ at = [m \in Messages |-> "new"]
  /\ target = [x \in Messages \union Cancels |-> None]
  /\ outcome = [m \in Messages |-> "completed"] /\ sent = [m \in Messages |-> 0]
  /\ answer = [c \in Cancels |-> "new"]
  /\ sub = [s \in Subs |-> None] /\ cursor = [s \in Subs |-> 0]
  /\ pending = [s \in Subs |-> <<>>] /\ phase = [s \in Subs |-> "new"]
  /\ waiters = {} /\ last = [s \in Subs |-> FALSE]

-----------------------------------------------------------------------------
(* The store.                                                               *)

\* notify_waiters on the record of t.
Notify(t) == waiters' = {s \in waiters : sub[s] # t}

\* update_state: a swap on a task that is gone, or in another state, changes
\* nothing; Swaps says whether it happened.
Swaps(t, expected) == t \in Stored /\ state[t] = expected

UpdateState(t, expected, next) ==
  IF Swaps(t, expected)
    THEN /\ state' = [state EXCEPT ![t] = next] /\ Notify(t)
         /\ UNCHANGED <<order, artifacts, log, first>>
    ELSE UNCHANGED <<storeVars, waiters>>

\* append_event on a bounded log.
AppendEvent(t, frame) ==
  IF t \in Stored
    THEN /\ IF Len(log[t]) = MaxLog
              THEN /\ log' = [log EXCEPT ![t] = Append(Tail(@), frame)]
                   /\ first' = [first EXCEPT ![t] = @ + 1]
              ELSE /\ log' = [log EXCEPT ![t] = Append(@, frame)]
                   /\ UNCHANGED first
         /\ Notify(t)
         /\ UNCHANGED <<order, state, artifacts>>
    ELSE UNCHANGED <<storeVars, waiters>>

\* create: the oldest task makes room: its subscribers are woken and its
\* record is dropped.  A minted id is fresh.
CreateTask(t) ==
  LET queue == Append(order, t)
      oldest == Head(queue)
  IN  /\ t = CHOOSE x \in Tasks : x \notin {target[m] : m \in Messages}
      /\ t \notin {target[m] : m \in Messages}
      /\ IF Len(order) < MaxTasks
           THEN order' = queue /\ UNCHANGED <<state, artifacts, log, first, waiters>>
           ELSE /\ order' = Tail(queue)
                /\ Notify(oldest)
                /\ state' = [state EXCEPT ![oldest] = "submitted"]
                /\ artifacts' = [artifacts EXCEPT ![oldest] = FALSE]
                /\ log' = [log EXCEPT ![oldest] = <<>>]
                /\ first' = [first EXCEPT ![oldest] = 0]

-----------------------------------------------------------------------------
(* message/send and message/stream: resolve_task, start_run, drive.         *)

Goto(m, next) == at' = [at EXCEPT ![m] = next]

ResolveNew(m, t) ==
  /\ at[m] = "new"
  /\ CreateTask(t)
  /\ target' = [target EXCEPT ![m] = t] /\ Goto(m, "resolved")
  /\ UNCHANGED <<cancelVars, outcome, sent, answer, sub, cursor, pending, phase, last>>

\* A known task that is not terminal is continued.
ResolveExisting(m, t) ==
  /\ at[m] = "new"
  /\ t \in Stored /\ ~IsTerminal(state[t])
  /\ target' = [target EXCEPT ![m] = t] /\ Goto(m, "resolved")
  /\ UNCHANGED <<storeVars, cancelVars, outcome, sent, answer, subVars>>

\* start_run: the session or the context provider fails; nothing was spawned.
StartFails(m) ==
  /\ at[m] = "resolved" /\ Goto(m, "done")
  /\ UNCHANGED <<storeVars, cancelVars, outcome, sent, target, answer, subVars>>

\* start_run: register the token, then spawn the driver.
StartRun(m) ==
  /\ at[m] = "resolved" /\ Goto(m, "spawned")
  /\ tokens' = [tokens EXCEPT ![target[m]] = m]
  /\ UNCHANGED <<storeVars, fired, outcome, sent, target, answer, subVars>>

DriveWorking(m) ==
  /\ at[m] = "spawned" /\ Goto(m, "announce")
  /\ UpdateState(target[m], "submitted", "working")
  /\ UNCHANGED <<cancelVars, outcome, sent, target, answer, sub, cursor, pending, phase, last>>

DriveAnnounces(m) ==
  /\ at[m] = "announce" /\ Goto(m, "run")
  /\ AppendEvent(target[m], Update)
  /\ UNCHANGED <<cancelVars, outcome, sent, target, answer, sub, cursor, pending, phase, last>>

\* The runner's stream yields text.
DriveArtifact(m) ==
  /\ at[m] = "run" /\ sent[m] < MaxArtifacts
  /\ sent' = [sent EXCEPT ![m] = @ + 1]
  /\ AppendEvent(target[m], Update)
  /\ UNCHANGED <<cancelVars, at, outcome, target, answer, sub, cursor, pending, phase, last>>

\* The stream ends, after a RunFailed or not.
DriveStreamEnds(m) ==
  /\ at[m] = "run" /\ Goto(m, "store")
  /\ \E result \in {"completed", "failed"} : outcome' = [outcome EXCEPT ![m] = result]
  /\ UNCHANGED <<storeVars, cancelVars, sent, target, answer, subVars>>

DrivePanics(m) ==
  /\ at[m] = "run" /\ Goto(m, "panicked")
  /\ UNCHANGED <<storeVars, cancelVars, outcome, sent, target, answer, subVars>>

\* set_artifacts, if the run produced text.
DriveStores(m) ==
  /\ at[m] = "store" /\ Goto(m, "swap")
  /\ artifacts' = IF sent[m] > 0 /\ target[m] \in Stored
                  THEN [artifacts EXCEPT ![target[m]] = TRUE] ELSE artifacts
  /\ UNCHANGED <<order, state, log, first, cancelVars, outcome, sent, target, answer, subVars>>

DriveSwaps(m) ==
  /\ at[m] = "swap" /\ Goto(m, "report")
  /\ UpdateState(target[m], "working", outcome[m])
  /\ UNCHANGED <<cancelVars, outcome, sent, target, answer, sub, cursor, pending, phase, last>>

\* A driver that reports its own outcome whatever state won.
DriveReads_OwnOutcome(m) ==
  /\ at[m] = "report" /\ Goto(m, "append")
  /\ UNCHANGED <<storeVars, cancelVars, outcome, sent, target, answer, subVars>>

\* The state that won, or the run's own outcome if the task is gone.
DriveReads(m) ==
  /\ at[m] = "report" /\ Goto(m, "append")
  /\ outcome' = IF target[m] \in Stored
                THEN [outcome EXCEPT ![m] = state[target[m]]] ELSE outcome
  /\ UNCHANGED <<storeVars, cancelVars, sent, target, answer, subVars>>

DriveFinal(m) ==
  /\ at[m] = "append" /\ Goto(m, "remove")
  /\ AppendEvent(target[m], FinalStatus(outcome[m]))
  /\ UNCHANGED <<cancelVars, outcome, sent, target, answer, sub, cursor, pending, phase, last>>

DriveRemoves(m) ==
  /\ at[m] = "remove" /\ Goto(m, "done")
  /\ tokens' = [tokens EXCEPT ![target[m]] = None]
  /\ outcome' = [outcome EXCEPT ![m] = "completed"] /\ sent' = [sent EXCEPT ![m] = 0]
  /\ UNCHANGED <<storeVars, fired, target, answer, subVars>>

DriveStep(m) ==
  \/ DriveWorking(m) \/ DriveAnnounces(m) \/ DriveArtifact(m) \/ DriveStreamEnds(m)
  \/ DriveStores(m) \/ DriveSwaps(m) \/ DriveReads(m) \/ DriveFinal(m) \/ DriveRemoves(m)

-----------------------------------------------------------------------------
(* tasks/cancel.                                                            *)

Answer(c, next) == answer' = [answer EXCEPT ![c] = next]

CancelLooks(c, t) ==
  /\ answer[c] = "new"
  /\ target' = [target EXCEPT ![c] = t]
  /\ Answer(c, CASE t \notin Stored -> "not_found"
                 [] t \in Stored /\ IsTerminal(state[t]) -> "terminal"
                 [] OTHER -> "fire")
  /\ UNCHANGED <<storeVars, cancelVars, driveVars, subVars>>

\* CancelRegistry::cancel: take the token out and fire it.
CancelFires(c) ==
  LET m == tokens[target[c]]
  IN  /\ answer[c] = "fire"
      /\ IF m = None
           THEN Answer(c, "no_run") /\ UNCHANGED cancelVars
           ELSE /\ Answer(c, "swap_submitted")
                /\ fired' = fired \union {m}
                /\ tokens' = [tokens EXCEPT ![target[c]] = None]
      /\ UNCHANGED <<storeVars, driveVars, target, subVars>>

\* One update_state of the walk over NON_TERMINAL: a success answers, a store
\* error answers, a refusal moves on.
CancelSwaps(c, expected, otherwise) ==
  LET t == target[c]
  IN  /\ UpdateState(t, expected, "canceled")
      /\ Answer(c, CASE t \notin Stored -> "internal"
                     [] Swaps(t, expected) -> "canceled"
                     [] OTHER -> otherwise)
      /\ UNCHANGED <<cancelVars, driveVars, target, sub, cursor, pending, phase, last>>

\* A cancel that tries `working` only.
CancelWalks_WorkingOnly(c) ==
  \/ answer[c] = "swap_submitted" /\ CancelSwaps(c, "working", "beaten")
  \/ answer[c] = "swap_working" /\ CancelSwaps(c, "working", "beaten")

\* Nothing sets input_required, the third state of the walk.
CancelWalks(c) ==
  \/ answer[c] = "swap_submitted" /\ CancelSwaps(c, "submitted", "swap_working")
  \/ answer[c] = "swap_working" /\ CancelSwaps(c, "working", "beaten")

-----------------------------------------------------------------------------
(* InMemoryTaskStore::subscribe behind an SSE response.                     *)

Subscribe(s, t) ==
  /\ phase[s] = "new" /\ t \in Stored
  /\ sub' = [sub EXCEPT ![s] = t] /\ phase' = [phase EXCEPT ![s] = "idle"]
  /\ UNCHANGED <<storeVars, cancelVars, driveVars, target, answer, cursor, pending, waiters, last>>

Deliver(s) ==
  /\ phase[s] = "idle" /\ pending[s] # <<>>
  /\ last' = [last EXCEPT ![s] = Head(pending[s]).final]
  /\ pending' = [pending EXCEPT ![s] = Tail(@)]
  /\ UNCHANGED <<storeVars, cancelVars, driveVars, target, answer, sub, cursor, phase, waiters>>

Register(s) ==
  /\ phase[s] = "idle" /\ pending[s] = <<>>
  /\ waiters' = waiters \union {s} /\ phase' = [phase EXCEPT ![s] = "registered"]
  /\ UNCHANGED <<storeVars, cancelVars, driveVars, target, answer, sub, cursor, pending, last>>

Backlog(t, c) == SubSeq(log[t], (IF c < first[t] THEN 0 ELSE c - first[t]) + 1, Len(log[t]))

\* A read that takes a terminal task for the end of its log.
Read_TerminalFirst(s) ==
  LET t == sub[s]
      batch == Backlog(t, cursor[s])
      next == CASE t \notin Stored -> "evicted"
                [] t \in Stored /\ IsTerminal(state[t]) -> "ended"
                [] t \in Stored /\ ~IsTerminal(state[t]) /\ batch # <<>> -> "idle"
                [] OTHER -> "parking"
  IN  /\ phase[s] = "registered"
      /\ phase' = [phase EXCEPT ![s] = next]
      /\ IF next = "idle"
           THEN /\ pending' = [pending EXCEPT ![s] = batch]
                /\ cursor' = [cursor EXCEPT ![s] = NextSeq(t)]
           ELSE UNCHANGED <<pending, cursor>>
      /\ waiters' = IF next = "parking" THEN waiters ELSE waiters \ {s}
      /\ UNCHANGED <<storeVars, cancelVars, driveVars, target, answer, sub, last>>

\* The locked read, and what the stream does with it.
Read(s) ==
  LET t == sub[s]
      batch == Backlog(t, cursor[s])
      next == CASE t \notin Stored -> "evicted"
                [] t \in Stored /\ batch # <<>> -> "idle"
                [] t \in Stored /\ batch = <<>> /\ IsTerminal(state[t]) -> "ended"
                [] OTHER -> "parking"
  IN  /\ phase[s] = "registered"
      /\ phase' = [phase EXCEPT ![s] = next]
      /\ IF next = "idle"
           THEN /\ pending' = [pending EXCEPT ![s] = batch]
                /\ cursor' = [cursor EXCEPT ![s] = NextSeq(t)]
           ELSE UNCHANGED <<pending, cursor>>
      /\ waiters' = IF next = "parking" THEN waiters ELSE waiters \ {s}
      /\ UNCHANGED <<storeVars, cancelVars, driveVars, target, answer, sub, last>>

\* An await on a future created only now.
Park_FreshFuture(s) ==
  /\ phase[s] = "parking"
  /\ phase' = [phase EXCEPT ![s] = "waiting"] /\ waiters' = waiters \union {s}
  /\ UNCHANGED <<storeVars, cancelVars, driveVars, target, answer, sub, cursor, pending, last>>

\* Await the future enabled before the read.
Park(s) ==
  /\ phase[s] = "parking"
  /\ phase' = [phase EXCEPT ![s] = "waiting"]
  /\ UNCHANGED <<storeVars, cancelVars, driveVars, target, answer, sub, cursor, pending, waiters, last>>

Wake(s) ==
  /\ phase[s] = "waiting" /\ s \notin waiters
  /\ phase' = [phase EXCEPT ![s] = "idle"]
  /\ UNCHANGED <<storeVars, cancelVars, driveVars, target, answer, sub, cursor, pending, waiters, last>>

SubStep(s) == Deliver(s) \/ Register(s) \/ Read(s) \/ Park(s) \/ Wake(s)

-----------------------------------------------------------------------------
TaskNext ==
  \/ \E m \in Messages :
       \/ \E t \in Tasks : ResolveNew(m, t) \/ ResolveExisting(m, t)
       \/ StartFails(m) \/ StartRun(m) \/ DriveStep(m) \/ DrivePanics(m)
  \/ \E c \in Cancels :
       (\E t \in Tasks : CancelLooks(c, t)) \/ CancelFires(c) \/ CancelWalks(c)
  \/ \E s \in Subs : (\E t \in Tasks : Subscribe(s, t)) \/ SubStep(s)

TaskSpec == TaskInit /\ [][TaskNext]_a2aVars

-----------------------------------------------------------------------------
(* Properties.                                                              *)

\* tasks/cancel tells the truth: `canceled` is the stored state when it says
\* so, and it answers "reached a terminal state" only if the task did.
CancelIsTruthful ==
  \A c \in Cancels :
    target[c] \in Stored =>
      /\ answer[c] = "canceled" => state[target[c]] = "canceled" /\ fired # {}
      /\ answer[c] = "beaten" => IsTerminal(state[target[c]])

\* The last word on a task: a driver's final frame carries the state that is
\* stored, and no final frame is written for a task that is still going.
FinalFrameIsStoredState ==
  \A t \in Stored : \A i \in 1 .. Len(log[t]) :
    log[t][i].final => log[t][i].state = state[t] /\ IsTerminal(state[t])

\* A stream ends by itself only when its task is terminal and it delivered
\* everything the log then held.
StreamsDrain ==
  [][\A s \in Subs : phase'[s] = "ended" /\ phase[s] # "ended" =>
       /\ IsTerminal(state[sub[s]]) /\ cursor[s] = NextSeq(sub[s])]_a2aVars

\* No wakeup is lost: a stream that sleeps with nothing to wake it has nothing
\* to read, and its task is still there and still going.
SleepersMissNothing ==
  \A s \in Subs : phase[s] = "waiting" /\ s \in waiters =>
    /\ sub[s] \in Stored /\ ~IsTerminal(state[sub[s]])
    /\ cursor[s] = NextSeq(sub[s])

\* What the SSE tests read off every stream (a2a/rpc.rs:1049, :1070): the last
\* frame of a stream that ended is the final status update.
LastFrameIsFinal == \A s \in Subs : phase[s] = "ended" => last[s]
=============================================================================
