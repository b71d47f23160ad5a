-------------------------------- MODULE Exec --------------------------------
(***************************************************************************)
(* One shell command under spawn_capped (tools/src/exec/mod.rs, unix): the *)
(* shell and a process it starts, the two pipes with their reader tasks,   *)
(* the timeout, the kill of the process group and the bounded wait for     *)
(* what is left.  Time moves in ticks; a deadline is not overslept and     *)
(* runnable tasks run before the clock moves on.                           *)
(*                                                                         *)
(* The output is counted in bytes, and a pipe holds PipeSize unread ones:  *)
(* a process that writes on is blocked until its reader catches up.        *)
(*                                                                         *)
(* Assumed of the kernel: both signals to the group succeed.  The code     *)
(* accepts that one may fail, and only logs it (ExecOutput::timed_out).    *)
(***************************************************************************)
EXTENDS Naturals, FiniteSets

CONSTANTS NoCode,      \* a missing exit code
          Timeout,     \* cfg.timeout
          Grace,       \* GRACE
          OutputCap,   \* cfg.max_output_bytes
          MaxBytes,    \* bytes the command writes to one pipe
          PipeSize     \* bytes a pipe holds

ASSUME ExecAssumption ==
    /\ Timeout \in Nat /\ Grace \in Nat /\ OutputCap \in Nat
    /\ MaxBytes \in Nat /\ PipeSize \in Nat

Procs == {"sh", "child"}

Pipes == {"stdout", "stderr"}

VARIABLES
    clock,
    step,      \* where spawn_capped is
    until,     \* deadline of the wait it is in
    proc,      \* unborn, running, stray (left the group), killed, gone
    status,    \* exit code of the shell
    holders,   \* processes with the write ends open
    pipe,      \* bytes written and read, and the reader's state
    report     \* the ExecOutput

execVars == <<clock, step, until, proc, status, holders, pipe, report>>

EmptyPipe == [written |-> 0, read |-> 0, reader |-> "open"]

ExecStart(s) ==
    /\ clock = 0 /\ step = s /\ until = 0 /\ proc = [p \in Procs |-> "unborn"]
    /\ status = NoCode /\ holders = {} /\ pipe = [f \in Pipes |-> EmptyPipe]
    /\ report = [exit_code |-> NoCode, timed_out |-> FALSE,
                 kept |-> [f \in Pipes |-> 0], truncated |-> FALSE]

ExecIdle == ExecStart("idle")

ExecInit == ExecStart("spawn")

Live(p) == proc[p] \in {"running", "stray"}

(* ----------------------------- spawn_capped ---------------------------- *)
SpawnFails ==
    /\ step = "spawn" /\ step' = "failed"
    /\ UNCHANGED <<clock, until, proc, status, holders, pipe, report>>

Spawn ==
    /\ step = "spawn" /\ step' = "waiting" /\ until' = clock + Timeout
    /\ proc' = [proc EXCEPT !["sh"] = "running"] /\ holders' = {"sh"}
    /\ UNCHANGED <<clock, status, pipe, report>>

(* read_capped takes at most one byte more than the cap, and so knows that *)
(* there was more.                                                         *)
MayRead(f) ==
    /\ pipe[f].reader = "open"
    /\ pipe[f].read < pipe[f].written /\ pipe[f].read < OutputCap + 1

MayEnd(f) ==
    /\ pipe[f].reader = "open"
    /\ \/ pipe[f].read = OutputCap + 1
       \/ pipe[f].read = pipe[f].written /\ holders = {}

ReadCapped(f) ==
    /\ \/ MayRead(f) /\ pipe' = [pipe EXCEPT ![f].read = @ + 1]
       \/ MayEnd(f) /\ pipe' = [pipe EXCEPT ![f].reader = "ended"]
    /\ UNCHANGED <<clock, step, until, proc, status, holders, report>>

(* The shell exited in time; its status is the exit code.                  *)
WaitReturns ==
    /\ step = "waiting" /\ proc["sh"] = "gone"
    /\ step' = "joining" /\ until' = clock + Grace
    /\ report' = [report EXCEPT !.exit_code = status]
    /\ UNCHANGED <<clock, proc, status, holders, pipe>>

(* The wait itself fails: the caller gets the error, nobody kills the      *)
(* group, and the detached readers go on.                                  *)
WaitFails ==
    /\ step = "waiting" /\ step' = "failed"
    /\ UNCHANGED <<clock, until, proc, status, holders, pipe, report>>

\* Mistake: the signal goes to the shell and not to its process group.
KillProcessGroup_ShellOnly ==
    proc' = [proc EXCEPT !["sh"] = IF @ = "running" THEN "killed" ELSE @]

(* SIGSTOP and SIGKILL to the group, with nothing between them.            *)
KillProcessGroup ==
    proc' = [p \in Procs |-> IF proc[p] = "running" THEN "killed" ELSE proc[p]]

(* The timer fires.  The shell may have exited a moment before and not     *)
(* have been seen to; the group is killed all the same.                    *)
WaitTimesOut ==
    /\ step = "waiting" /\ clock = until
    /\ KillProcessGroup
    /\ report' = [report EXCEPT !.timed_out = TRUE]
    /\ step' = "reaping" /\ until' = clock + Grace
    /\ UNCHANGED <<clock, status, holders, pipe>>

(* The killed shell is reaped, or not in time, or the wait fails; what     *)
(* came of it is ignored.                                                  *)
ReapEnds ==
    /\ step = "reaping"
    /\ step' = "joining" /\ until' = clock + Grace
    /\ UNCHANGED <<clock, proc, status, holders, pipe, report>>

(* Both readers at once, each for at most Grace: one that has not ended by *)
(* then is aborted, and what it had read is dropped.                       *)
JoinReaders ==
    /\ step = "joining"
    /\ clock = until \/ \A f \in Pipes : pipe[f].reader = "ended"
    /\ pipe' = [f \in Pipes |->
                   IF pipe[f].reader = "ended" THEN pipe[f]
                   ELSE [pipe[f] EXCEPT !.reader = "aborted"]]
    /\ report' = [report EXCEPT
         !.kept = [f \in Pipes |->
                     CASE pipe[f].reader # "ended" -> 0
                       [] pipe[f].reader = "ended" /\ pipe[f].read <= OutputCap -> pipe[f].read
                       [] pipe[f].reader = "ended" /\ pipe[f].read > OutputCap -> OutputCap],
         !.truncated = \E f \in Pipes : pipe[f].reader = "ended" /\ pipe[f].read > OutputCap]
    /\ step' = "done"
    /\ UNCHANGED <<clock, until, proc, status, holders>>

(* The run is cancelled and drops the future: nobody waits or kills any    *)
(* more, and the detached readers go on.                                   *)
ExecDropped ==
    /\ step \in {"waiting", "reaping", "joining"} /\ step' = "dropped"
    /\ UNCHANGED <<clock, until, proc, status, holders, pipe, report>>

(* -------------------- the processes and the kernel --------------------- *)
Starts ==
    /\ proc["sh"] = "running" /\ proc["child"] = "unborn"
    /\ proc' = [proc EXCEPT !["child"] = "running"]
    /\ holders' = IF "sh" \in holders THEN Procs ELSE {}
    /\ UNCHANGED <<clock, step, until, status, pipe, report>>

(* A daemon makes a session of its own, or closes the pipes it inherited.  *)
Detaches ==
    /\ \/ /\ proc["child"] = "running"
          /\ proc' = [proc EXCEPT !["child"] = "stray"] /\ UNCHANGED holders
       \/ /\ \E p \in holders : Live(p) /\ holders' = holders \ {p}
          /\ UNCHANGED proc
    /\ UNCHANGED <<clock, step, until, status, pipe, report>>

Writes(p, f) ==
    /\ Live(p) /\ p \in holders /\ pipe[f].reader = "open"
    /\ pipe[f].written < MaxBytes /\ pipe[f].written - pipe[f].read < PipeSize
    /\ pipe' = [pipe EXCEPT ![f].written = @ + 1]
    /\ UNCHANGED <<clock, step, until, proc, status, holders, report>>

(* A process ends by itself (the shell with a code, or by a signal without *)
(* one) or dies of the kill, which may take its time.                      *)
Exits(p) ==
    /\ Live(p) \/ proc[p] = "killed"
    /\ proc' = [proc EXCEPT ![p] = "gone"] /\ holders' = holders \ {p}
    /\ IF p = "sh" /\ Live(p) THEN status' \in {0, NoCode} ELSE UNCHANGED status
    /\ UNCHANGED <<clock, step, until, pipe, report>>

Waits == step \in {"waiting", "reaping", "joining"}

Tick ==
    /\ Waits /\ clock < until
    /\ \A f \in Pipes : ~ MayRead(f) /\ ~ MayEnd(f)
    /\ clock' = clock + 1
    /\ UNCHANGED <<step, until, proc, status, holders, pipe, report>>

ExecNext ==
    \/ SpawnFails \/ Spawn \/ WaitReturns \/ WaitFails \/ WaitTimesOut \/ ReapEnds \/ JoinReaders
    \/ ExecDropped \/ Starts \/ Detaches \/ Tick
    \/ \E f \in Pipes : ReadCapped(f) \/ \E p \in Procs : Writes(p, f)
    \/ \E p \in Procs : Exits(p)

ExecSpec == ExecInit /\ [][ExecNext]_execVars

(* ------------------------------ properties ----------------------------- *)
(* What the caller of spawn_capped can rely on.  The call is over by       *)
(* Timeout + 2 * Grace, even when a process that left the group keeps the  *)
(* pipes open.  A report that says timed_out has no exit code, and no      *)
(* process of the group runs on; one that does not say so is that of a     *)
(* shell that ended.  What was kept of a pipe is all that was written, or  *)
(* its first OutputCap bytes and the report says truncated; or nothing,    *)
(* and then only after a wait of Grace for a pipe that was kept open.      *)
ExecContract ==
    /\ Waits => clock <= Timeout + 2 * Grace
    /\ step = "done" =>
         /\ IF report.timed_out
            THEN report.exit_code = NoCode /\ \A p \in Procs : proc[p] # "running"
            ELSE proc["sh"] = "gone" /\ report.exit_code = status
         /\ \A f \in Pipes :
              \/ report.kept[f] = pipe[f].written
              \/ report.kept[f] = OutputCap /\ report.truncated
              \/ report.kept[f] = 0 /\ pipe[f].reader = "aborted" /\ clock = until
         /\ report.truncated => \E f \in Pipes : pipe[f].written > OutputCap
=============================================================================
