------------------------------ MODULE Sandboxes ------------------------------
(***************************************************************************)
(* The microVM backend (tools/src/exec/forkd.rs): runs that fork a         *)
(* sandbox, execute in it and destroy it, through a controller that may    *)
(* lose any reply, and the age-based reconcile sweep that an operator      *)
(* calls to reap what such losses and dropped runs leave behind.  The      *)
(* clock of the controller is that of the backend.                         *)
(***************************************************************************)
EXTENDS Naturals, FiniteSets

CONSTANTS NoBox,         \* no sandbox id
          NoDate,        \* a creation date the LIST does not carry
          Runs,          \* concurrent runs of the backend
          Boxes,         \* ids of the sandboxes of this backend's tag
          ForeignBox,    \* a sandbox of another snapshot tag
          RunTimeout,    \* self.timeout, for fork and for exec
          ControlTimeout,\* CONTROL_TIMEOUT
          ReapAge,       \* self.reap_age
          MaxClock       \* bound on the clock

(* The operator's invariant on reap_age: longer than a run keeps its       *)
(* sandbox, which is the wait for the fork's reply and that for the exec.  *)
ASSUME ReapAgeAssumption == ReapAge >= 2 * RunTimeout

ASSUME SandboxAssumption ==
    /\ RunTimeout \in Nat /\ ControlTimeout \in Nat /\ ReapAge \in Nat /\ MaxClock \in Nat
    /\ ForeignBox \notin Boxes /\ NoDate \notin Nat

VARIABLES
    time,
    boxes,     \* the sandboxes that exist
    born,      \* the date of each sandbox made
    job,       \* run -> where it is, its sandbox, its deadline, its outcome
    sweep      \* the reconcile pass

vmVars == <<time, boxes, born, job, sweep>>

SweepIdle ==
    [at |-> "idle", list |-> {}, now |-> 0, todo |-> {}, reaped |-> {}, failed |-> {}]

VmStart(s) ==
    /\ time = 0 /\ boxes = {ForeignBox} /\ born = [b \in {ForeignBox} |-> 0]
    /\ job = [r \in Runs |-> [at |-> s, box |-> NoBox, due |-> 0, outcome |-> "none"]]
    /\ sweep = SweepIdle

VmIdle == VmStart("idle")

VmInit == VmStart("new")

Goes(r, at, box, due, outcome) ==
    job' = [job EXCEPT ![r] = [at |-> at, box |-> box, due |-> due, outcome |-> outcome]]

(* --------------------------------- fork -------------------------------- *)
ForkSent(r) ==
    /\ job[r].at = "new" /\ Goes(r, "forking", NoBox, time + RunTimeout, "none")
    /\ UNCHANGED <<time, boxes, born, sweep>>

(* The controller makes a sandbox with a fresh id and may stamp it with    *)
(* the date that its LIST will carry.                                      *)
ForkCommits(r) ==
    /\ job[r].at = "forking" /\ ~(Boxes \subseteq DOMAIN born)
    /\ LET b == CHOOSE x \in Boxes : x \notin DOMAIN born
       IN  /\ boxes' = boxes \union {b}
           /\ \E date \in {time, NoDate} :
                born' = [x \in DOMAIN born \union {b} |-> IF x = b THEN date ELSE born[x]]
           /\ Goes(r, "forked", b, job[r].due, "none")
    /\ UNCHANGED <<time, sweep>>

(* The reply carries the id; the exec is sent with a deadline of its own.  *)
ForkReplies(r) ==
    /\ job[r].at = "forked" /\ Goes(r, "exec", job[r].box, time + RunTimeout, "none")
    /\ UNCHANGED <<time, boxes, born, sweep>>

(* An error, a reply that cannot be decoded, or none in time: the run ends *)
(* without the id of a sandbox that may exist.                             *)
ForkFails(r) ==
    /\ job[r].at \in {"forking", "forked"} /\ Goes(r, "done", NoBox, 0, "error")
    /\ UNCHANGED <<time, boxes, born, sweep>>

(* --------------------------------- exec -------------------------------- *)
(* The sandbox answers, if it is there; the request fails; or it takes too *)
(* long.  In every case the sandbox is destroyed next.                     *)
Executes(r) ==
    /\ job[r].at = "exec"
    /\ \/ job[r].box \in boxes /\ Goes(r, "destroy", job[r].box, time + ControlTimeout, "output")
       \/ Goes(r, "destroy", job[r].box, time + ControlTimeout, "error")
       \/ time = job[r].due /\ Goes(r, "destroy", job[r].box, time + ControlTimeout, "timed_out")
    /\ UNCHANGED <<time, boxes, born, sweep>>

(* The DELETE is done, is done and its reply is lost, or is not done; the  *)
(* outcome of the run is that of the exec.                                 *)
Destroys(r) ==
    /\ job[r].at = "destroy" /\ Goes(r, "done", NoBox, 0, job[r].outcome)
    /\ boxes' \in {boxes, boxes \ {job[r].box}}
    /\ UNCHANGED <<time, born, sweep>>

(* The run is cancelled: its future is dropped, and no destroy is sent.    *)
RunDropped(r) ==
    /\ job[r].at \in {"forking", "forked", "exec", "destroy"}
    /\ Goes(r, "dropped", NoBox, 0, "none")
    /\ UNCHANGED <<time, boxes, born, sweep>>

(* ------------------------------- reconcile ----------------------------- *)
(* The controller answers the LIST with what exists.                       *)
SweepLists ==
    /\ sweep.at = "idle"
    /\ sweep' = [SweepIdle EXCEPT !.at = "listed",
                                  !.list = {[id |-> b, created |-> born[b]] : b \in boxes}]
    /\ UNCHANGED <<time, boxes, born, job>>

\* Mistake: a sandbox exactly as old as reap_age counts as an orphan.
Reapable_AtAge(entry, now) ==
    entry.id # ForeignBox /\ entry.created # NoDate /\ now - entry.created >= ReapAge

Reapable(entry, now) ==
    entry.id # ForeignBox /\ entry.created # NoDate /\ now - entry.created > ReapAge

(* The clock is read after the reply to the LIST.                          *)
SweepAges ==
    /\ sweep.at = "listed"
    /\ sweep' = [sweep EXCEPT !.at = "deleting", !.now = time,
                              !.todo = {e.id : e \in {x \in sweep.list : Reapable(x, time)}}]
    /\ UNCHANGED <<time, boxes, born, job>>

(* One DELETE: done or already gone (404), or failed, or done with the     *)
(* reply lost, which counts as failed.                                     *)
SweepDeletes(b) ==
    /\ sweep.at = "deleting" /\ b \in sweep.todo
    /\ \/ /\ boxes' = boxes \ {b}
          /\ sweep' = [sweep EXCEPT !.todo = @ \ {b}, !.reaped = @ \union {b}]
       \/ /\ boxes' \in {boxes, boxes \ {b}}
          /\ sweep' = [sweep EXCEPT !.todo = @ \ {b}, !.failed = @ \union {b}]
    /\ UNCHANGED <<time, born, job>>

SweepEnds ==
    /\ sweep.at = "deleting" /\ sweep.todo = {}
    /\ sweep' = [sweep EXCEPT !.at = "reported"]
    /\ UNCHANGED <<time, boxes, born, job>>

(* The operator's scheduler calls reconcile again.                         *)
SweepAgain ==
    /\ sweep.at = "reported" /\ sweep' = SweepIdle
    /\ UNCHANGED <<time, boxes, born, job>>

VmTick ==
    /\ time < MaxClock
    /\ \A r \in Runs : job[r].at \in {"forking", "forked", "exec", "destroy"} => time < job[r].due
    /\ time' = time + 1
    /\ UNCHANGED <<boxes, born, job, sweep>>

VmNext ==
    \/ \E r \in Runs : \/ ForkSent(r) \/ ForkCommits(r) \/ ForkReplies(r) \/ ForkFails(r)
                       \/ Executes(r) \/ Destroys(r) \/ RunDropped(r)
    \/ SweepLists \/ SweepAges \/ (\E b \in Boxes : SweepDeletes(b)) \/ SweepEnds \/ SweepAgain
    \/ VmTick

VmSpec == VmInit /\ [][VmNext]_vmVars

(* ------------------------------ properties ----------------------------- *)
(* The sweep reaps orphans and nothing else: the sandbox of a run that is  *)
(* executing exists, one of another tag is left alone, what a report calls *)
(* reaped is gone, and when a pass is over every dated sandbox of its LIST *)
(* that was older than reap_age is gone or reported as failed.             *)
SandboxesSafe ==
    /\ \A r \in Runs : job[r].at = "exec" => job[r].box \in boxes
    /\ ForeignBox \in boxes
    /\ sweep.reaped \intersect boxes = {}
    /\ sweep.at = "reported" =>
         \A e \in sweep.list :
            /\ e.id \in Boxes /\ e.created # NoDate /\ sweep.now - e.created > ReapAge
            /\ e.id \in boxes
            => e.id \in sweep.failed
=============================================================================
