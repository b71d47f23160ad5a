---------------------------- MODULE WorkflowProofs ---------------------------
(***************************************************************************)
(* Proofs about the workflow agents, for any number of sub-agents, any       *)
(* limits and any graph: each keeps the contract of an agent, which is what  *)
(* lets workflows nest; the outcome of a sequential, parallel, loop or swarm *)
(* agent is explained by its sub-agents' outcomes; and a node of a graph     *)
(* never runs before its predecessors have completed.                       *)
(***************************************************************************)
EXTENDS Workflow, TLAPS

-----------------------------------------------------------------------------
(* Types.                                                                    *)

ChildStates == {"idle", "running", "completed", "failed", "ended", "dropped", "refused"}
Child == [state : ChildStates, slot : BOOLEAN, escalated : BOOLEAN, left : Int]

WorkflowTypes ==
  /\ kind \in Kinds /\ too_deep \in BOOLEAN
  /\ pc \in {"new", "launching", "draining", "completing", "failing", "over"}
  /\ status \in {"fresh", "streaming", "completed", "failed", "ended", "dropped"}
  /\ failure \in BOOLEAN
  /\ child \in [Agents -> Child]
  /\ cur \in 1 .. AgentsOf[kind] + 1
  /\ cur \in Agents \/ (kind = "parallel" /\ pc \notin {"new", "launching"})
  /\ iteration \in Nat \ {0} /\ total \in Nat /\ hops \in Nat
  /\ ready \subseteq Agents

\* The agents' number is positive.
LEMMA SomeAgents ==
  WorkflowTypes => AgentsOf[kind] \in Nat \ {0} /\ MaxEvents[kind] \in Nat
BY WorkflowAssumption, Zenon DEF WorkflowTypes

\* What a step does to the sub-agents: to one of them, and what it becomes.
Only(i) == \A j \in Agents \ {i} : child'[j] = child[j]

\* The stream of sub-agent i yields an event.
LEMMA SaysEffect ==
  ASSUME WorkflowTypes, NEW i \in Agents, NEW ev, Says(i, ev)
  PROVE  /\ pc = "draining" /\ child[i].state = "running"
         /\ child' \in [Agents -> Child] /\ Only(i) /\ child'[i].state = "running"
         /\ child'[i].slot = child[i].slot /\ child'[i].escalated = child[i].escalated
BY DEF WorkflowTypes, Says, Polled, Child, ChildStates, Only

\* It completes.
LEMMA CompletesEffect ==
  ASSUME WorkflowTypes, NEW i \in Agents, Completes(i)
  PROVE  /\ pc = "draining" /\ child[i].state = "running"
         /\ child' \in [Agents -> Child] /\ Only(i) /\ child'[i].state = "completed"
         /\ child'[i].slot = child[i].slot /\ child'[i].escalated = child[i].escalated
BY Zenon DEF WorkflowTypes, Completes, Polled, Child, ChildStates, Only

\* A sub-agent gets a state and a slot at once.
LEMMA MarkEffect ==
  ASSUME WorkflowTypes, NEW i \in Agents, NEW st \in ChildStates, NEW slot \in BOOLEAN,
         child' = [child EXCEPT ![i].state = st, ![i].slot = slot]
  PROVE  /\ child' \in [Agents -> Child] /\ Only(i) /\ child'[i].state = st
         /\ child'[i].slot = slot /\ child'[i].escalated = child[i].escalated
<1> DEFINE mid == [child EXCEPT ![i].state = st]
<1>1. /\ mid \in [Agents -> Child] /\ mid[i].state = st
      /\ mid[i].escalated = child[i].escalated /\ \A j \in Agents \ {i} : mid[j] = child[j]
  BY Zenon DEF WorkflowTypes, Child
<1>2. child' = [mid EXCEPT ![i].slot = slot]
  BY Zenon DEF WorkflowTypes
<1> HIDE DEF mid
<1> DEFINE new == [mid[i] EXCEPT !.slot = slot]
<1>3. mid[i] \in Child
  BY <1>1, Zenon
<1>4. new \in Child /\ new.slot = slot
  BY <1>3, Zenon DEF Child
<1>5. new.state = mid[i].state /\ new.escalated = mid[i].escalated
  BY <1>3, Zenon DEF Child
<1>6. child' = [mid EXCEPT ![i] = new]
  BY <1>2, Zenon
<1> HIDE DEF new
<1> QED
  BY <1>1, <1>4, <1>5, <1>6, ZenonT(40) DEF Only

\* It fails, with the error in its slot already or not yet.
LEMMA FailsEffect ==
  ASSUME WorkflowTypes, NEW i \in Agents, Fails(i)
  PROVE  /\ pc = "draining" /\ child[i].state = "running"
         /\ child' \in [Agents -> Child] /\ Only(i) /\ child'[i].state = "failed"
         /\ child'[i].escalated = child[i].escalated
<1>1. PICK slot \in BOOLEAN : child' = [child EXCEPT ![i].state = "failed", ![i].slot = slot]
  BY Zenon DEF Fails
<1>2. "failed" \in ChildStates
  BY Zenon DEF ChildStates
<1> QED
  BY <1>1, <1>2, MarkEffect, Zenon DEF Fails, Polled

\* Its stream ends, and its slot tells the verdict.
LEMMA EndsEffect ==
  ASSUME WorkflowTypes, NEW i \in Agents, Ends(i)
  PROVE  /\ pc = "draining" /\ child[i].state \in {"completed", "failed"}
         /\ child' \in [Agents -> Child] /\ Only(i) /\ child'[i].state = "ended"
         /\ child'[i].slot <=> child[i].state = "failed"
         /\ child'[i].escalated = child[i].escalated
BY ZenonT(40) DEF WorkflowTypes, Ends, Child, ChildStates, Only

\* Its tool raises the ActionsHandle of a loop.
LEMMA EscalatesEffect ==
  ASSUME WorkflowTypes, NEW i \in Agents, Escalates(i)
  PROVE  /\ pc = "draining" /\ child[i].state = "running"
         /\ child' \in [Agents -> Child] /\ Only(i) /\ child'[i].state = "running"
         /\ child'[i].slot = child[i].slot
BY Zenon DEF WorkflowTypes, Escalates, Polled, Child, ChildStates, Only

\* It is started.
LEMMA LaunchEffect ==
  ASSUME WorkflowTypes, NEW i \in Agents, child' = Launched(i)
  PROVE  /\ child' \in [Agents -> Child] /\ Only(i)
         /\ child'[i].state = "running" /\ ~ child'[i].slot /\ ~ child'[i].escalated
<1> DEFINE new == [state |-> "running", slot |-> FALSE, escalated |-> FALSE,
                   left |-> MaxEvents[kind]]
<1>1. new \in Child /\ new.state = "running" /\ ~ new.slot /\ ~ new.escalated
  BY SomeAgents DEF Child, ChildStates
<1> HIDE DEF new
<1>2. child' = [child EXCEPT ![i] = new]
  BY Zenon DEF Launched, new
<1> QED
  BY <1>1, <1>2, Zenon DEF WorkflowTypes, Only

\* A node of a graph fails to start.
LEMMA RefuseEffect ==
  ASSUME WorkflowTypes, NEW i \in Agents,
         child' = [child EXCEPT ![i].state = "refused", ![i].slot = TRUE]
  PROVE  /\ child' \in [Agents -> Child] /\ Only(i)
         /\ child'[i].state = "refused" /\ child'[i].slot = TRUE
<1>1. "refused" \in ChildStates /\ TRUE \in BOOLEAN
  BY Zenon DEF ChildStates
<1> QED
  BY <1>1, MarkEffect, Zenon

\* The streams that run are dropped.
LEMMA DropEffect ==
  ASSUME WorkflowTypes, child' = Dropped
  PROVE  child' \in [Agents -> Child]
BY ZenonT(40) DEF WorkflowTypes, Dropped, Running, Child, ChildStates

-----------------------------------------------------------------------------
(* The workflow's own stream.                                                *)

Active(i) == child[i].state \in {"running", "completed", "failed"}
Solo == kind \notin {"parallel", "graph"}

\* One sub-agent at a time, the one at cur; its failure is the workflow's at once, and
\* so is the completion of a swarm's entry.
SoloRight ==
  /\ pc \in {"new", "launching", "completing", "failing"} =>
       failed = {} /\ \A i \in Agents : ~ Active(i)
  /\ pc = "draining" =>
       /\ \A i \in Agents : Active(i) <=> i = cur
       /\ child[cur].state = "failed" => status = "failed" /\ failed = {cur}
       /\ child[cur].state # "failed" => failed = {}
       /\ child[cur].state = "running" => status = "streaming"
       /\ child[cur].state = "completed" =>
            status = IF kind = "swarm" THEN "completed" ELSE "streaming"

StatusRight ==
  /\ pc = "new" => status = "fresh"
  /\ pc \in {"launching", "completing", "failing"} => status = "streaming"
  /\ pc = "draining" /\ ~ Solo => status = "streaming"
  /\ pc # "over" => ~ failure
  /\ pc = "over" =>
       /\ status \in {"completed", "failed", "ended", "dropped"}
       /\ status = "completed" => ~ failure
       /\ status = "failed" => failure

StreamInv == WorkflowTypes /\ StatusRight /\ (Solo => SoloRight)

\* The steps of one sub-agent.
RunStepOf(i) ==
  \/ Escalates(i)
  \/ SerialSays(i) \/ SerialCompletes(i) \/ SerialFails(i) \/ SerialEndsFailed(i)
  \/ SerialEnds(i)
  \/ MergeSays(i) \/ ParallelCompletes(i) \/ ParallelFails(i) \/ MergeEnds(i)
  \/ GraphCompletes(i) \/ GraphFails(i)
  \/ SwarmSays(i) \/ SwarmOverLimit(i) \/ SwarmCompletes(i) \/ SwarmFails(i)
  \/ SwarmEnds(i)

\* What a step does to the workflow's own stream, its position and the sub-agent that
\* takes part in it, by cases.
Begins ==
  /\ pc = "new" /\ status' = "streaming"
  /\ UNCHANGED <<failure, child, failed, cur, iteration, total>>
  /\ \/ pc' = "launching" /\ ~ too_deep /\ (kind = "loop" => MaxIterations # 0)
     \/ pc' = "failing" /\ (too_deep \/ (kind = "loop" /\ MaxIterations = 0))

GivesUp ==
  /\ pc \in {"failing", "launching"} \/ (pc = "draining" /\ Solo /\ child[cur].state = "running")
  /\ pc' = "over" /\ status' = "failed" /\ failure' = TRUE
  /\ \/ pc = "failing" /\ UNCHANGED <<cur, child, failed, hops, total>>
     \/ failed' # {}
     \/ kind = "parallel" /\ DuplicateKey(cur) /\ UNCHANGED cur
     \/ kind = "swarm" /\ hops' > MaxHandoffs

Closes ==
  /\ pc' = "over" /\ UNCHANGED failure
  /\ \/ status \notin {"ended", "dropped"} /\ status' = "dropped"
     \/ /\ UNCHANGED <<cur, iteration, child, failed, hops, total>>
        /\ \/ pc = "completing" /\ status' = "completed"
           \/ pc = "over" /\ status \in {"completed", "failed"} /\ status' = "ended"

SoloStarts ==
  /\ Solo /\ pc = "launching" /\ pc' = "draining" /\ Only(cur)
  /\ child'[cur].state = "running" /\ ~ child'[cur].escalated
  /\ UNCHANGED <<status, failure, failed, cur, iteration, total>>

SoloSteps(i) ==
  /\ Solo /\ pc = "draining" /\ child[i].state = "running" /\ Only(i)
  /\ UNCHANGED <<pc, failure, cur, iteration>>
  /\ \/ child'[i].state = "running" /\ UNCHANGED <<status, failed, total>>
     \/ /\ child'[i].state = "completed" /\ total' = total + 1 /\ UNCHANGED failed
        /\ status' = IF kind = "swarm" THEN "completed" ELSE status
     \/ /\ child'[i].state = "failed" /\ status' = "failed" /\ failed' = failed \cup {i}
        /\ UNCHANGED total

SoloEnds(i) ==
  /\ Solo /\ pc = "draining" /\ child[i].state \in {"completed", "failed"} /\ Only(i)
  /\ child'[i].state = "ended" /\ (child'[i].slot <=> child[i].state = "failed")
  /\ child'[i].escalated = child[i].escalated /\ UNCHANGED <<failed, total>>
  /\ \/ /\ kind = "swarm" \/ i \in failed
        /\ (failure' <=> child[i].state = "failed") /\ status' = "ended" /\ pc' = "over"
     \/ /\ kind \in {"sequential", "loop"} /\ i \notin failed /\ UNCHANGED <<status, failure>>
        /\ LET escalated == kind = "loop" /\ child[i].escalated
               last == i = AgentsOf[kind]
           IN /\ pc' = AfterStep(escalated, last)
              /\ cur' = IF last THEN 1 ELSE i + 1
              /\ iteration' = IF last /\ ~ escalated THEN iteration + 1 ELSE iteration

ParallelStep(i) ==
  \/ /\ child[i].state = "running" /\ child'[i].state = "running"
     /\ child'[i].slot = child[i].slot /\ UNCHANGED <<failed, total>>
  \/ /\ child[i].state = "running" /\ child'[i].state = "completed"
     /\ child'[i].slot = child[i].slot /\ UNCHANGED failed /\ total' = total + 1
  \/ /\ child[i].state = "running" /\ child'[i].state = "failed"
     /\ failed' = failed \cup {i} /\ UNCHANGED total
  \/ /\ child[i].state \in {"completed", "failed"} /\ child'[i].state = "ended"
     /\ (child'[i].slot <=> child[i].state = "failed") /\ UNCHANGED <<failed, total>>

ParallelMove ==
  \/ /\ pc = "launching" /\ Only(cur) /\ child'[cur].state = "running" /\ ~ child'[cur].slot
     /\ pc' = IF cur = AgentsOf[kind] THEN "draining" ELSE "launching"
     /\ cur' = cur + 1 /\ UNCHANGED <<failed, total>>
  \/ /\ pc = "draining" /\ UNCHANGED pc /\ \E i \in Agents : Only(i) /\ ParallelStep(i)
  \/ /\ pc = "draining" /\ \A i \in Agents : ~ Active(i)
     /\ pc' = IF failed = {} THEN "completing" ELSE "failing"
     /\ UNCHANGED <<child, failed, total>>

Merges ==
  /\ ~ Solo /\ pc \in {"launching", "draining"}
  /\ pc' \in {"launching", "draining", "completing", "failing"} /\ UNCHANGED <<status, failure>>
  /\ kind = "parallel" => ParallelMove

StreamMove ==
  /\ kind' = kind /\ Agents' = Agents /\ too_deep' = too_deep /\ keys' = keys
  /\ \/ Begins \/ GivesUp \/ Closes \/ SoloStarts \/ Merges
     \/ \E i \in Agents : SoloSteps(i) \/ SoloEnds(i)

\* A step of the contract, or one that leaves it alone.
Contract == [Agent!Next]_(Agent!contractVars)

\* Each kind of move keeps what is known of the stream, and is a step of the contract.
LEMMA MoveKeepsStream ==
  StreamInv /\ WorkflowTypes' /\ StreamMove =>
    StatusRight' /\ (Solo' => SoloRight') /\ Contract
<1> SUFFICES ASSUME StreamInv, WorkflowTypes', StreamMove
             PROVE  StatusRight' /\ (Solo' => SoloRight') /\ Contract
  BY Zenon
<1> USE DEF Agent!Next, Agent!Progress, Agent!contractVars, Agent!Start, Agent!Complete,
            Agent!Fail, Agent!Record, Agent!End, Agent!Drop, Contract
<1>1. kind' = kind /\ Agents' = Agents /\ (Solo' <=> Solo)
  BY Zenon DEF StreamMove, Solo
<1>2. StatusRight /\ (Solo => SoloRight) /\ failure \in BOOLEAN /\ failure' \in BOOLEAN
      /\ (Solo => cur \in Agents)
  BY Zenon DEF StreamInv, WorkflowTypes, Solo
<1>3. CASE Begins
  <2>1. Contract
    BY <1>3, <1>2, Zenon DEF Begins, StatusRight, SoloRight
  <2>2. StatusRight'
    BY <1>3, <1>1, <1>2, Zenon DEF Begins, StatusRight
  <2>3. Solo' => SoloRight'
    BY <1>3, <1>1, <1>2, Zenon DEF Begins, SoloRight, Active, Only, Solo
  <2> QED
    BY <2>1, <2>2, <2>3, Zenon
<1>4. CASE GivesUp
  <2>1. Contract
    BY <1>4, <1>2, Zenon DEF GivesUp, StatusRight, SoloRight
  <2>2. StatusRight'
    BY <1>4, <1>1, <1>2, Zenon DEF GivesUp, StatusRight
  <2>3. Solo' => SoloRight'
    BY <1>4, <1>1, <1>2, Zenon DEF GivesUp, SoloRight, Active, Only, Solo
  <2> QED
    BY <2>1, <2>2, <2>3, Zenon
<1>5. CASE Closes
  <2>1. Contract
    BY <1>5, <1>2, Zenon DEF Closes, StatusRight, SoloRight
  <2>2. StatusRight'
    BY <1>5, <1>1, <1>2, Zenon DEF Closes, StatusRight
  <2>3. Solo' => SoloRight'
    BY <1>5, <1>1, <1>2, Zenon DEF Closes, SoloRight, Active, Only, Solo
  <2> QED
    BY <2>1, <2>2, <2>3, Zenon
<1>6. CASE SoloStarts
  <2>1. Contract
    BY <1>6, <1>2, Zenon DEF SoloStarts, StatusRight, SoloRight
  <2>2. StatusRight'
    BY <1>6, <1>1, <1>2, Zenon DEF SoloStarts, StatusRight
  <2>3. Solo' => SoloRight'
    BY <1>6, <1>1, <1>2, Zenon DEF SoloStarts, SoloRight, StatusRight, Active, Only, Solo
  <2> QED
    BY <2>1, <2>2, <2>3, Zenon
<1>7. CASE Merges
  <2>1. Contract
    BY <1>7, <1>2, Zenon DEF Merges, StatusRight, SoloRight
  <2>2. StatusRight'
    BY <1>7, <1>1, <1>2, Zenon DEF Merges, StatusRight
  <2>3. Solo' => SoloRight'
    BY <1>7, <1>1, <1>2, Zenon DEF Merges, SoloRight, Active, Only, Solo
  <2> QED
    BY <2>1, <2>2, <2>3, Zenon
<1>8. ASSUME NEW i \in Agents, SoloSteps(i) \/ SoloEnds(i)
     PROVE  StatusRight' /\ (Solo' => SoloRight') /\ Contract
  <2>1. Solo /\ i = cur /\ pc = "draining"
    BY <1>8, <1>2, Zenon DEF SoloSteps, SoloEnds, SoloRight, Active
  <2>2. CASE SoloSteps(i)
    <3>1. Contract
      BY <2>1, <2>2, <1>2, Zenon DEF SoloSteps, StatusRight, SoloRight
    <3>2. StatusRight'
      BY <2>1, <2>2, <1>1, <1>2, Zenon DEF SoloSteps, StatusRight
    <3>3. SoloRight'
      BY <2>1, <2>2, <1>1, <1>2, Zenon DEF SoloSteps, SoloRight, Active, Only
    <3> QED
      BY <3>1, <3>2, <3>3, Zenon
  <2>3. CASE SoloEnds(i)
    <3>0. /\ child[i].state \in {"completed", "failed"} /\ Only(i) /\ child'[i].state = "ended"
          /\ failed' = failed
          /\ \/ /\ kind = "swarm" \/ i \in failed
                /\ (failure' <=> child[i].state = "failed") /\ status' = "ended" /\ pc' = "over"
             \/ /\ kind # "swarm" /\ i \notin failed /\ UNCHANGED <<status, failure>>
                /\ pc' \in {"launching", "completing", "failing"}
      BY <2>3, Zenon DEF SoloEnds, AfterStep
    <3>1. Contract
      BY <2>1, <3>0, <1>2, Zenon DEF StatusRight, SoloRight
    <3>2. StatusRight'
      BY <2>1, <3>0, <1>1, <1>2, Zenon DEF StatusRight, SoloRight
    <3>3. SoloRight'
      BY <2>1, <3>0, <1>1, <1>2, Zenon DEF SoloRight, Active, Only
    <3> QED
      BY <3>1, <3>2, <3>3, Zenon
  <2> QED
    BY <1>8, <2>2, <2>3, Zenon
<1> QED
  BY <1>3, <1>4, <1>5, <1>6, <1>7, <1>8, Zenon DEF StreamMove

\* A step of a sub-agent keeps the types and is one of the moves.
LEMMA SubAgentStep ==
  ASSUME StreamInv, NEW i \in Agents, RunStepOf(i)
  PROVE  WorkflowTypes' /\ StreamMove
<1>1. /\ WorkflowTypes /\ AgentsOf[kind] \in Nat \ {0} /\ Agents = 1 .. AgentsOf[kind]
      /\ \A j : Succs(j) \subseteq Agents
  BY SomeAgents, Zenon DEF Agents, StreamInv, Succs, Successors, Graph
<1>2. ASSUME UNCHANGED configVars
     PROVE  kind' = kind /\ Agents' = Agents /\ too_deep' = too_deep /\ keys' = keys
  BY <1>2, Zenon DEF configVars, Agents
<1>3. CASE Escalates(i)
  <2>1. /\ pc = "draining" /\ child[i].state = "running"
       /\ child' \in [Agents -> Child] /\ Only(i) /\ child'[i].state = "running"
    BY <1>1, <1>3, EscalatesEffect, Zenon DEF Escalates
  <2>2. kind' = kind /\ Agents' = Agents /\ too_deep' = too_deep /\ keys' = keys
    BY <1>2, <1>3, Zenon DEF Escalates
  <2>3. WorkflowTypes'
    BY <1>1, <1>3, <2>1, <2>2, Zenon DEF Escalates, graphVars, WorkflowTypes
  <2>4. SoloSteps(i)
    BY <1>1, <1>3, <2>1, Zenon DEF Escalates, SoloSteps, Solo, Serial, Merging
  <2> QED
    BY <2>2, <2>3, <2>4, Zenon DEF StreamMove
<1>4. CASE SerialSays(i)
  <2>1. /\ pc = "draining" /\ child[i].state = "running"
       /\ child' \in [Agents -> Child] /\ Only(i) /\ child'[i].state = "running"
       /\ child'[i].slot = child[i].slot
    BY <1>1, <1>4, SaysEffect, Zenon DEF SerialSays
  <2>2. kind' = kind /\ Agents' = Agents /\ too_deep' = too_deep /\ keys' = keys
    BY <1>2, <1>4, Zenon DEF SerialSays
  <2>3. WorkflowTypes'
    BY <1>1, <1>4, <2>1, <2>2, Zenon DEF SerialSays, graphVars, WorkflowTypes
  <2>4. SoloSteps(i)
    BY <1>1, <1>4, <2>1, Zenon DEF SerialSays, SoloSteps, Solo, Serial, Merging
  <2> QED
    BY <2>2, <2>3, <2>4, Zenon DEF StreamMove
<1>5. CASE MergeSays(i)
  <2>1. /\ pc = "draining" /\ child[i].state = "running"
       /\ child' \in [Agents -> Child] /\ Only(i) /\ child'[i].state = "running"
       /\ child'[i].slot = child[i].slot
    BY <1>1, <1>5, SaysEffect, Zenon DEF MergeSays
  <2>2. kind' = kind /\ Agents' = Agents /\ too_deep' = too_deep /\ keys' = keys
    BY <1>2, <1>5, Zenon DEF MergeSays
  <2>3. WorkflowTypes'
    BY <1>1, <1>5, <2>1, <2>2, Zenon DEF MergeSays, graphVars, WorkflowTypes
  <2>4. Merges
    BY <1>1, <1>5, <2>1, Zenon DEF MergeSays, Merges, ParallelMove, ParallelStep, Active, Running, Solo, Serial, Merging
  <2> QED
    BY <2>2, <2>3, <2>4, Zenon DEF StreamMove
<1>6. CASE SwarmSays(i)
  <2>1. /\ pc = "draining" /\ child[i].state = "running"
       /\ child' \in [Agents -> Child] /\ Only(i) /\ child'[i].state = "running"
       /\ child'[i].slot = child[i].slot
    BY <1>1, <1>6, SaysEffect, Zenon DEF SwarmSays
  <2>2. kind' = kind /\ Agents' = Agents /\ too_deep' = too_deep /\ keys' = keys
    BY <1>2, <1>6, Zenon DEF SwarmSays
  <2>3. WorkflowTypes'
    BY <1>1, <1>6, <2>1, <2>2 DEF SwarmSays, graphVars, WorkflowTypes
  <2>4. SoloSteps(i)
    BY <1>1, <1>6, <2>1, Zenon DEF SwarmSays, SoloSteps, Solo, Serial, Merging
  <2> QED
    BY <2>2, <2>3, <2>4, Zenon DEF StreamMove
<1>7. CASE SerialCompletes(i)
  <2>1. /\ pc = "draining" /\ child[i].state = "running"
       /\ child' \in [Agents -> Child] /\ Only(i) /\ child'[i].state = "completed"
       /\ child'[i].slot = child[i].slot
    BY <1>1, <1>7, CompletesEffect, Zenon DEF SerialCompletes
  <2>2. kind' = kind /\ Agents' = Agents /\ too_deep' = too_deep /\ keys' = keys
    BY <1>2, <1>7, Zenon DEF SerialCompletes
  <2>3. WorkflowTypes'
    BY <1>1, <1>7, <2>1, <2>2 DEF SerialCompletes, graphVars, WorkflowTypes
  <2>4. SoloSteps(i)
    BY <1>1, <1>7, <2>1, Zenon DEF SerialCompletes, SoloSteps, Solo, Serial, Merging
  <2> QED
    BY <2>2, <2>3, <2>4, Zenon DEF StreamMove
<1>8. CASE ParallelCompletes(i)
  <2>1. /\ pc = "draining" /\ child[i].state = "running"
       /\ child' \in [Agents -> Child] /\ Only(i) /\ child'[i].state = "completed"
       /\ child'[i].slot = child[i].slot
    BY <1>1, <1>8, CompletesEffect, Zenon DEF ParallelCompletes
  <2>2. kind' = kind /\ Agents' = Agents /\ too_deep' = too_deep /\ keys' = keys
    BY <1>2, <1>8, Zenon DEF ParallelCompletes
  <2>3. WorkflowTypes'
    BY <1>1, <1>8, <2>1, <2>2 DEF ParallelCompletes, graphVars, WorkflowTypes
  <2>4. Merges
    BY <1>1, <1>8, <2>1, Zenon DEF ParallelCompletes, Merges, ParallelMove, ParallelStep, Active, Running, Solo, Serial, Merging
  <2> QED
    BY <2>2, <2>3, <2>4, Zenon DEF StreamMove
<1>9. CASE GraphCompletes(i)
  <2>1. /\ pc = "draining" /\ child[i].state = "running"
       /\ child' \in [Agents -> Child] /\ Only(i) /\ child'[i].state = "completed"
       /\ child'[i].slot = child[i].slot
    BY <1>1, <1>9, CompletesEffect, Zenon DEF GraphCompletes
  <2>2. kind' = kind /\ Agents' = Agents /\ too_deep' = too_deep /\ keys' = keys
    BY <1>2, <1>9, Zenon DEF GraphCompletes
  <2>3. WorkflowTypes'
    BY <1>1, <1>9, <2>1, <2>2 DEF GraphCompletes, graphVars, WorkflowTypes
  <2>4. Merges
    BY <1>1, <1>9, <2>1, Zenon DEF GraphCompletes, Merges, ParallelMove, ParallelStep, Active, Running, Solo, Serial, Merging
  <2> QED
    BY <2>2, <2>3, <2>4, Zenon DEF StreamMove
<1>10. CASE SwarmCompletes(i)
  <2>1. /\ pc = "draining" /\ child[i].state = "running"
       /\ child' \in [Agents -> Child] /\ Only(i) /\ child'[i].state = "completed"
       /\ child'[i].slot = child[i].slot
    BY <1>1, <1>10, CompletesEffect, Zenon DEF SwarmCompletes
  <2>2. kind' = kind /\ Agents' = Agents /\ too_deep' = too_deep /\ keys' = keys
    BY <1>2, <1>10, Zenon DEF SwarmCompletes
  <2>3. WorkflowTypes'
    BY <1>1, <1>10, <2>1, <2>2 DEF SwarmCompletes, graphVars, WorkflowTypes
  <2>4. SoloSteps(i)
    BY <1>1, <1>10, <2>1, Zenon DEF SwarmCompletes, SoloSteps, Solo, Serial, Merging
  <2> QED
    BY <2>2, <2>3, <2>4, Zenon DEF StreamMove
<1>11. CASE SerialFails(i)
  <2>1. /\ pc = "draining" /\ child[i].state = "running"
       /\ child' \in [Agents -> Child] /\ Only(i) /\ child'[i].state = "failed"
    BY <1>1, <1>11, FailsEffect, Zenon DEF SerialFails
  <2>2. kind' = kind /\ Agents' = Agents /\ too_deep' = too_deep /\ keys' = keys
    BY <1>2, <1>11, Zenon DEF SerialFails
  <2>3. WorkflowTypes'
    BY <1>1, <1>11, <2>1, <2>2, Zenon DEF SerialFails, graphVars, WorkflowTypes
  <2>4. SoloSteps(i)
    BY <1>1, <1>11, <2>1, Zenon DEF SerialFails, SoloSteps, Solo, Serial, Merging
  <2> QED
    BY <2>2, <2>3, <2>4, Zenon DEF StreamMove
<1>12. CASE ParallelFails(i)
  <2>1. /\ pc = "draining" /\ child[i].state = "running"
       /\ child' \in [Agents -> Child] /\ Only(i) /\ child'[i].state = "failed"
    BY <1>1, <1>12, FailsEffect, Zenon DEF ParallelFails
  <2>2. kind' = kind /\ Agents' = Agents /\ too_deep' = too_deep /\ keys' = keys
    BY <1>2, <1>12, Zenon DEF ParallelFails
  <2>3. WorkflowTypes'
    BY <1>1, <1>12, <2>1, <2>2, Zenon DEF ParallelFails, graphVars, WorkflowTypes
  <2>4. Merges
    BY <1>1, <1>12, <2>1, Zenon DEF ParallelFails, Merges, ParallelMove, ParallelStep, Active, Running, Solo, Serial, Merging
  <2> QED
    BY <2>2, <2>3, <2>4, Zenon DEF StreamMove
<1>13. CASE GraphFails(i)
  <2>1. /\ pc = "draining" /\ child[i].state = "running"
       /\ child' \in [Agents -> Child] /\ Only(i) /\ child'[i].state = "failed"
    BY <1>1, <1>13, FailsEffect, Zenon DEF GraphFails
  <2>2. kind' = kind /\ Agents' = Agents /\ too_deep' = too_deep /\ keys' = keys
    BY <1>2, <1>13, Zenon DEF GraphFails
  <2>3. WorkflowTypes'
    BY <1>1, <1>13, <2>1, <2>2, Zenon DEF GraphFails, graphVars, WorkflowTypes
  <2>4. Merges
    BY <1>1, <1>13, <2>1, Zenon DEF GraphFails, Merges, ParallelMove, ParallelStep, Active, Running, Solo, Serial, Merging
  <2> QED
    BY <2>2, <2>3, <2>4, Zenon DEF StreamMove
<1>14. CASE SwarmFails(i)
  <2>1. /\ pc = "draining" /\ child[i].state = "running"
       /\ child' \in [Agents -> Child] /\ Only(i) /\ child'[i].state = "failed"
    BY <1>1, <1>14, FailsEffect, Zenon DEF SwarmFails
  <2>2. kind' = kind /\ Agents' = Agents /\ too_deep' = too_deep /\ keys' = keys
    BY <1>2, <1>14, Zenon DEF SwarmFails
  <2>3. WorkflowTypes'
    BY <1>1, <1>14, <2>1, <2>2, Zenon DEF SwarmFails, graphVars, WorkflowTypes
  <2>4. SoloSteps(i)
    BY <1>1, <1>14, <2>1, Zenon DEF SwarmFails, SoloSteps, Solo, Serial, Merging
  <2> QED
    BY <2>2, <2>3, <2>4, Zenon DEF StreamMove
<1>15. CASE SerialEndsFailed(i)
  <2>1. /\ pc = "draining" /\ child[i].state \in {"completed", "failed"}
       /\ child' \in [Agents -> Child] /\ Only(i) /\ child'[i].state = "ended"
       /\ (child'[i].slot <=> child[i].state = "failed")
       /\ child'[i].escalated = child[i].escalated
    BY <1>1, <1>15, EndsEffect, Zenon DEF SerialEndsFailed
  <2>2. kind' = kind /\ Agents' = Agents /\ too_deep' = too_deep /\ keys' = keys
    BY <1>2, <1>15, Zenon DEF SerialEndsFailed
  <2>3. child'[i].slot \in BOOLEAN
    BY <2>1, Zenon DEF Child
  <2>4. WorkflowTypes'
    BY <1>1, <1>15, <2>1, <2>2, <2>3, Zenon DEF SerialEndsFailed, graphVars, WorkflowTypes
  <2>5. SoloEnds(i)
    BY <1>1, <1>15, <2>1, Zenon DEF SerialEndsFailed, SoloEnds, Solo, Serial, Merging
  <2> QED
    BY <2>2, <2>4, <2>5, Zenon DEF StreamMove
<1>16. CASE SerialEnds(i)
  <2>1. /\ pc = "draining" /\ child[i].state \in {"completed", "failed"}
       /\ child' \in [Agents -> Child] /\ Only(i) /\ child'[i].state = "ended"
       /\ (child'[i].slot <=> child[i].state = "failed")
       /\ child'[i].escalated = child[i].escalated
    BY <1>1, <1>16, EndsEffect, Zenon DEF SerialEnds
  <2>2. kind' = kind /\ Agents' = Agents /\ too_deep' = too_deep /\ keys' = keys
    BY <1>2, <1>16, Zenon DEF SerialEnds
  <2>3. WorkflowTypes'
    BY <1>1, <1>16, <2>1, <2>2 DEF SerialEnds, graphVars, WorkflowTypes, AfterStep
  <2>4. SoloEnds(i)
    BY <1>1, <1>16, <2>1, Zenon DEF SerialEnds, SoloEnds, Solo, Serial, Merging, AfterStep
  <2> QED
    BY <2>2, <2>3, <2>4, Zenon DEF StreamMove
<1>17. CASE MergeEnds(i)
  <2>1. /\ pc = "draining" /\ child[i].state \in {"completed", "failed"}
       /\ child' \in [Agents -> Child] /\ Only(i) /\ child'[i].state = "ended"
       /\ (child'[i].slot <=> child[i].state = "failed")
       /\ child'[i].escalated = child[i].escalated
    BY <1>1, <1>17, EndsEffect, Zenon DEF MergeEnds
  <2>2. kind' = kind /\ Agents' = Agents /\ too_deep' = too_deep /\ keys' = keys
    BY <1>2, <1>17, Zenon DEF MergeEnds
  <2>3. WorkflowTypes'
    BY <1>1, <1>17, <2>1, <2>2, Zenon DEF MergeEnds, graphVars, WorkflowTypes
  <2>4. Merges
    BY <1>1, <1>17, <2>1, Zenon DEF MergeEnds, Merges, ParallelMove, ParallelStep, Active, Running, Solo, Serial, Merging
  <2> QED
    BY <2>2, <2>3, <2>4, Zenon DEF StreamMove
<1>18. CASE SwarmEnds(i)
  <2>1. /\ pc = "draining" /\ child[i].state \in {"completed", "failed"}
       /\ child' \in [Agents -> Child] /\ Only(i) /\ child'[i].state = "ended"
       /\ (child'[i].slot <=> child[i].state = "failed")
       /\ child'[i].escalated = child[i].escalated
    BY <1>1, <1>18, EndsEffect, Zenon DEF SwarmEnds
  <2>2. kind' = kind /\ Agents' = Agents /\ too_deep' = too_deep /\ keys' = keys
    BY <1>2, <1>18, Zenon DEF SwarmEnds
  <2>3. child'[i].slot \in BOOLEAN
    BY <2>1, Zenon DEF Child
  <2>4. WorkflowTypes'
    BY <1>1, <1>18, <2>1, <2>2, <2>3, Zenon DEF SwarmEnds, graphVars, WorkflowTypes
  <2>5. SoloEnds(i)
    BY <1>1, <1>18, <2>1, Zenon DEF SwarmEnds, SoloEnds, Solo, Serial, Merging
  <2> QED
    BY <2>2, <2>4, <2>5, Zenon DEF StreamMove
<1>19. CASE SwarmOverLimit(i)
  <2>1. child' \in [Agents -> Child]
    BY <1>1, <1>19, DropEffect, Zenon DEF SwarmOverLimit
  <2>2. kind' = kind /\ Agents' = Agents /\ too_deep' = too_deep /\ keys' = keys
    BY <1>2, <1>19, Zenon DEF SwarmOverLimit
  <2>3. i = cur
    BY <1>19, Zenon DEF SwarmOverLimit, Polled, StreamInv, SoloRight, Solo, Active
  <2>4. WorkflowTypes'
    BY <1>1, <1>19, <2>1, <2>2 DEF SwarmOverLimit, GiveUp, graphVars, WorkflowTypes
  <2>5. GivesUp
    BY <1>19, <2>3, WorkflowAssumption DEF SwarmOverLimit, Polled, GiveUp, GivesUp, Solo
  <2> QED
    BY <2>2, <2>4, <2>5, Zenon DEF StreamMove
<1> QED
  BY <1>3, <1>4, <1>5, <1>6, <1>7, <1>8, <1>9, <1>10, <1>11, <1>12, <1>13, <1>14, <1>15, <1>16, <1>17, <1>18, <1>19, Zenon DEF RunStepOf

\* So is every other step.
LEMMA StepIsMove == StreamInv /\ Next => WorkflowTypes' /\ (StreamMove \/ UNCHANGED vars)
<1> SUFFICES ASSUME StreamInv, Next PROVE WorkflowTypes' /\ (StreamMove \/ UNCHANGED vars)
  BY Zenon
<1>1. /\ WorkflowTypes /\ AgentsOf[kind] \in Nat \ {0} /\ Agents = 1 .. AgentsOf[kind]
      /\ \A j : Preds(j) \subseteq Agents
  BY SomeAgents, Zenon DEF Agents, StreamInv, Preds, Predecessors, Graph
<1>2. ASSUME UNCHANGED configVars
     PROVE  kind' = kind /\ Agents' = Agents /\ too_deep' = too_deep /\ keys' = keys
  BY <1>2, Zenon DEF configVars, Agents
<1>3. CASE Begin
  <2>1. kind' = kind /\ Agents' = Agents /\ too_deep' = too_deep /\ keys' = keys
    BY <1>2, <1>3, Zenon DEF Begin
  <2>2. WorkflowTypes'
    BY <1>1, <1>3, <2>1, Zenon DEF Begin, graphVars, WorkflowTypes
  <2>3. Begins
    BY <1>1, <1>3, Zenon DEF Begin, Begins, Solo, Serial, Merging
  <2> QED
    BY <2>1, <2>2, <2>3, Zenon DEF StreamMove
<1>4. CASE FailRun
  <2>1. kind' = kind /\ Agents' = Agents /\ too_deep' = too_deep /\ keys' = keys
    BY <1>2, <1>4, Zenon DEF FailRun
  <2>2. WorkflowTypes'
    BY <1>1, <1>4, <2>1, Zenon DEF FailRun, graphVars, WorkflowTypes, GiveUp
  <2>3. GivesUp
    BY <1>1, <1>4, Zenon DEF FailRun, GivesUp, Solo, Serial, Merging, GiveUp
  <2> QED
    BY <2>1, <2>2, <2>3, Zenon DEF StreamMove
<1>5. CASE CompleteRun
  <2>1. kind' = kind /\ Agents' = Agents /\ too_deep' = too_deep /\ keys' = keys
    BY <1>2, <1>5, Zenon DEF CompleteRun
  <2>2. WorkflowTypes'
    BY <1>1, <1>5, <2>1, Zenon DEF CompleteRun, graphVars, WorkflowTypes
  <2>3. Closes
    BY <1>1, <1>5, Zenon DEF CompleteRun, Closes, Solo, Serial, Merging
  <2> QED
    BY <2>1, <2>2, <2>3, Zenon DEF StreamMove
<1>6. CASE EndRun
  <2>1. kind' = kind /\ Agents' = Agents /\ too_deep' = too_deep /\ keys' = keys
    BY <1>2, <1>6, Zenon DEF EndRun
  <2>2. WorkflowTypes'
    BY <1>1, <1>6, <2>1, Zenon DEF EndRun, graphVars, WorkflowTypes
  <2>3. Closes
    BY <1>1, <1>6, Zenon DEF EndRun, Closes, Solo, Serial, Merging
  <2> QED
    BY <2>1, <2>2, <2>3, Zenon DEF StreamMove
<1>7. CASE LaunchFails
  <2>1. kind' = kind /\ Agents' = Agents /\ too_deep' = too_deep /\ keys' = keys
    BY <1>2, <1>7, Zenon DEF LaunchFails
  <2>2. WorkflowTypes'
    BY <1>1, <1>7, <2>1, Zenon DEF LaunchFails, graphVars, WorkflowTypes, GiveUp
  <2>3. GivesUp
    BY <1>1, <1>7, Zenon DEF LaunchFails, GivesUp, Solo, Serial, Merging, GiveUp
  <2> QED
    BY <2>1, <2>2, <2>3, Zenon DEF StreamMove
<1>8. CASE Merged
  <2>1. kind' = kind /\ Agents' = Agents /\ too_deep' = too_deep /\ keys' = keys
    BY <1>2, <1>8, Zenon DEF Merged
  <2>2. WorkflowTypes'
    BY <1>1, <1>8, <2>1, Zenon DEF Merged, graphVars, WorkflowTypes
  <2>3. Merges
    BY <1>1, <1>8, Zenon DEF Merged, Merges, ParallelMove, ParallelStep, Active, Running, Solo, Serial, Merging
  <2> QED
    BY <2>1, <2>2, <2>3, Zenon DEF StreamMove
<1>9. CASE SerialLaunch
  <2>1. child' \in [Agents -> Child] /\ Only(cur) /\ child'[cur].state = "running"
        /\ ~ child'[cur].slot /\ ~ child'[cur].escalated
    BY <1>1, <1>9, LaunchEffect, Zenon DEF SerialLaunch, WorkflowTypes
  <2>2. kind' = kind /\ Agents' = Agents /\ too_deep' = too_deep /\ keys' = keys
    BY <1>2, <1>9, Zenon DEF SerialLaunch
  <2>3. WorkflowTypes'
    BY <1>1, <1>9, <2>1, <2>2, Zenon DEF SerialLaunch, graphVars, WorkflowTypes
  <2>4. SoloStarts
    BY <1>1, <1>9, <2>1, Zenon DEF SerialLaunch, SoloStarts, Solo, Serial, Merging
  <2> QED
    BY <2>2, <2>3, <2>4, Zenon DEF StreamMove
<1>10. CASE SwarmLaunch
  <2>1. child' \in [Agents -> Child] /\ Only(cur) /\ child'[cur].state = "running"
        /\ ~ child'[cur].slot /\ ~ child'[cur].escalated
    BY <1>1, <1>10, LaunchEffect, Zenon DEF SwarmLaunch, WorkflowTypes
  <2>2. kind' = kind /\ Agents' = Agents /\ too_deep' = too_deep /\ keys' = keys
    BY <1>2, <1>10, Zenon DEF SwarmLaunch
  <2>3. WorkflowTypes'
    BY <1>1, <1>10, <2>1, <2>2, Zenon DEF SwarmLaunch, graphVars, WorkflowTypes
  <2>4. SoloStarts
    BY <1>1, <1>10, <2>1, Zenon DEF SwarmLaunch, SoloStarts, Solo, Serial, Merging
  <2> QED
    BY <2>2, <2>3, <2>4, Zenon DEF StreamMove
<1>11. CASE ParallelLaunch
  <2>1. child' \in [Agents -> Child] /\ Only(cur) /\ child'[cur].state = "running"
        /\ ~ child'[cur].slot /\ ~ child'[cur].escalated
    BY <1>1, <1>11, LaunchEffect, Zenon DEF ParallelLaunch, WorkflowTypes
  <2>2. kind' = kind /\ Agents' = Agents /\ too_deep' = too_deep /\ keys' = keys
    BY <1>2, <1>11, Zenon DEF ParallelLaunch
  <2>3. WorkflowTypes'
    BY <1>1, <1>11, <2>1, <2>2 DEF ParallelLaunch, graphVars, WorkflowTypes
  <2>4. Merges
    BY <1>1, <1>11, <2>1, Zenon DEF ParallelLaunch, Merges, ParallelMove, ParallelStep, Active, Running, Solo, Serial, Merging
  <2> QED
    BY <2>2, <2>3, <2>4, Zenon DEF StreamMove
<1>12. CASE ParallelRefused
  <2>1. child' \in [Agents -> Child]
    BY <1>1, <1>12, DropEffect, Zenon DEF ParallelRefused
  <2>2. kind' = kind /\ Agents' = Agents /\ too_deep' = too_deep /\ keys' = keys
    BY <1>2, <1>12, Zenon DEF ParallelRefused
  <2>3. WorkflowTypes'
    BY <1>1, <1>12, <2>1, <2>2, Zenon DEF ParallelRefused, graphVars, WorkflowTypes, GiveUp
  <2>4. GivesUp
    BY <1>1, <1>12, <2>1, Zenon DEF ParallelRefused, GivesUp, Solo, Serial, Merging, GiveUp
  <2> QED
    BY <2>2, <2>3, <2>4, Zenon DEF StreamMove
<1>13. CASE DriverDies
  <2>1. child' \in [Agents -> Child]
    BY <1>1, <1>13, DropEffect, Zenon DEF DriverDies
  <2>2. kind' = kind /\ Agents' = Agents /\ too_deep' = too_deep /\ keys' = keys
    BY <1>2, <1>13, Zenon DEF DriverDies
  <2>3. WorkflowTypes'
    BY <1>1, <1>13, <2>1, <2>2, Zenon DEF DriverDies, graphVars, WorkflowTypes
  <2>4. Closes
    BY <1>1, <1>13, <2>1, Zenon DEF DriverDies, Closes, Solo, Serial, Merging
  <2> QED
    BY <2>2, <2>3, <2>4, Zenon DEF StreamMove
<1>14. CASE GraphLaunch
  <2>1. child' \in [Agents -> Child] /\ ready' \subseteq Agents
    <3>1. PICK i \in ready :
            /\ ready' = ready \ {i}
            /\ \/ child' = Launched(i)
               \/ child' = [child EXCEPT ![i].state = "refused", ![i].slot = TRUE]
      BY <1>14, Zenon DEF GraphLaunch
    <3>2. i \in Agents
      BY <1>1, Zenon DEF WorkflowTypes
    <3> QED
      BY <1>1, <3>1, <3>2, LaunchEffect, RefuseEffect, Zenon DEF WorkflowTypes
  <2>2. kind' = kind /\ Agents' = Agents /\ too_deep' = too_deep /\ keys' = keys
    BY <1>2, <1>14, Zenon DEF GraphLaunch
  <2>3. WorkflowTypes'
    BY <1>1, <1>14, <2>1, <2>2, Zenon DEF GraphLaunch, graphVars, WorkflowTypes
  <2>4. Merges
    BY <1>1, <1>14, <2>1, Zenon DEF GraphLaunch, Merges, ParallelMove, ParallelStep, Active, Running, Solo, Serial, Merging
  <2> QED
    BY <2>2, <2>3, <2>4, Zenon DEF StreamMove
<1>15. CASE Over
  BY <1>1, <1>15, Zenon DEF Over, vars, configVars, graphVars, WorkflowTypes, Agents
<1>16. ASSUME NEW i \in Agents, RunStepOf(i) PROVE WorkflowTypes' /\ StreamMove
  BY <1>16, SubAgentStep, Zenon
<1> QED
  BY <1>3, <1>4, <1>5, <1>6, <1>7, <1>8, <1>9, <1>10, <1>11, <1>12, <1>13, <1>14, <1>15, <1>16, Zenon DEF Next, RunStep, RunStepOf

\* StreamInv is an invariant, and the workflow implements the contract.
THEOREM StreamInvariant == Spec => []StreamInv
<1>1. Init => StreamInv
  <2> SUFFICES ASSUME Init PROVE StreamInv
    BY Zenon
  <2>1. AgentsOf[kind] \in Nat \ {0} /\ Agents = 1 .. AgentsOf[kind]
    BY WorkflowAssumption, Zenon DEF Init, Agents
  <2>2. Idle \in Child /\ Idle.state = "idle"
    BY DEF Idle, Child, ChildStates
  <2>3. /\ kind \in Kinds /\ too_deep \in BOOLEAN /\ pc = "new" /\ cur = 1 /\ iteration = 1
        /\ ready = {} /\ hops = 0 /\ total = 0 /\ status = "fresh"
    BY Zenon DEF Init
  <2>4. failure \in BOOLEAN
    BY Zenon DEF Init
  <2>5. child \in [Agents -> Child]
    BY <2>2, Zenon DEF Init
  <2>6. cur \in 1 .. AgentsOf[kind] + 1 /\ cur \in Agents
    BY <2>1, <2>3
  <2>7. WorkflowTypes
    BY <2>3, <2>5, <2>6, <2>4 DEF WorkflowTypes
  <2>8. SoloRight
    BY <2>2, Zenon DEF Init, SoloRight, Active
  <2> QED
    BY <2>7, <2>8, Zenon DEF Init, StreamInv, StatusRight
<1>2. StreamInv /\ [Next]_vars => StreamInv'
  <2>1. StreamInv /\ Next => StreamInv' \/ UNCHANGED vars
    BY StepIsMove, MoveKeepsStream, Zenon DEF StreamInv
  <2>2. StreamInv /\ UNCHANGED vars => StreamInv'
    BY DEF vars, configVars, graphVars, StreamInv, WorkflowTypes, StatusRight, SoloRight, Solo,
           Active, Agents
  <2> QED
    BY <2>1, <2>2, Zenon
<1> QED
  BY <1>1, <1>2, PTL DEF Spec

\* A workflow agent of any kind keeps the contract that it relies on for its sub-agents
\* (workflow.rs, graph.rs, swarm.rs), so workflows nest.
THEOREM WorkflowsAreAgents == Spec => ImplementsAgent
<1>1. Init => Agent!Init
  BY Zenon DEF Init, Agent!Init
<1>2. StreamInv /\ [Next]_vars => [Agent!Next]_(Agent!contractVars)
  <2>1. UNCHANGED vars => UNCHANGED Agent!contractVars
    BY Zenon DEF vars, Agent!contractVars
  <2> QED
    BY <2>1, StepIsMove, MoveKeepsStream, Zenon DEF Contract
<1> QED
  BY <1>1, <1>2, StreamInvariant, PTL DEF Spec, ImplementsAgent, Agent!Safety

-----------------------------------------------------------------------------
(* Outcomes.                                                                 *)

Underway == pc \in {"new", "launching", "draining"}
JustDone == IF pc = "draining" /\ child[cur].state = "completed" THEN 1 ELSE 0

\* What is known of the outcome once it is decided.
VerdictRight ==
  /\ pc \in {"launching", "draining", "completing"} => ~ too_deep
  /\ pc = "completing" => CompletionExplained
  /\ pc = "failing" => FailureExplained
  /\ pc = "over" /\ status # "dropped" =>
       IF failure THEN FailureExplained ELSE CompletionExplained

\* A sequence, or a swarm with its one entry: all before cur have succeeded.
SequenceRight ==
  Underway =>
    (\A i \in 1 .. cur - 1 : Succeeded(i)) /\ total = cur - 1 + JustDone

\* A loop: whole iterations and the part of one; only the one at cur can have escalated.
LoopRight ==
  Underway =>
    /\ total = (iteration - 1) * AgentsOf[kind] + (cur - 1) + JustDone
    /\ \A i \in Agents : child[i].escalated => pc = "draining" /\ i = cur
    /\ pc = "new" => iteration = 1 /\ cur = 1
    /\ pc # "new" => iteration <= MaxIterations

\* Parallel branches: a failure is collected, a completion counted.
Counted == {i \in Agents : child[i].state = "completed" \/ Succeeded(i)}

BranchesRight ==
  /\ pc \in {"new", "launching"} =>
       /\ failed = {} /\ total = 0
       /\ \A i \in Agents : i < cur => child[i].state = "running" /\ ~ child[i].slot
  /\ pc = "new" => cur = 1
  /\ pc = "draining" =>
       /\ total = Cardinality(Counted)
       /\ \A i \in Agents :
            /\ child[i].state \in {"running", "completed", "failed", "ended"}
            /\ child[i].state \in {"running", "completed"} => ~ child[i].slot
            /\ child[i].state = "failed" \/ (child[i].state = "ended" /\ child[i].slot)
                 => i \in failed

OutcomeInv ==
  /\ VerdictRight
  /\ kind \in {"sequential", "swarm"} => SequenceRight
  /\ kind = "loop" => LoopRight
  /\ kind = "parallel" => BranchesRight

\* A step that changes nothing keeps it.
LEMMA OutcomeStutters == OutcomeInv /\ UNCHANGED vars => OutcomeInv'
BY DEF vars, configVars, graphVars, OutcomeInv, VerdictRight, SequenceRight, LoopRight,
   BranchesRight, Underway, JustDone, Counted, Succeeded, FailureExplained,
   CompletionExplained, DuplicateKey, Agents

\* The explanation of an outcome depends on these variables alone.
LEMMA ExplanationsLast ==
  /\ kind' = kind /\ Agents' = Agents /\ too_deep' = too_deep /\ keys' = keys
  /\ UNCHANGED <<cur, child, failed, hops, total>>
  => /\ FailureExplained' <=> FailureExplained
     /\ UNCHANGED iteration => (CompletionExplained' <=> CompletionExplained)
BY DEF FailureExplained, CompletionExplained, DuplicateKey, Succeeded

\* What is known whenever a step is taken.
StepContext ==
  /\ StreamInv /\ WorkflowTypes' /\ OutcomeInv /\ kind # "graph"
  /\ kind' = kind /\ Agents' = Agents /\ too_deep' = too_deep /\ keys' = keys

\* RunStarted and the depth check.
LEMMA BeginsOutcome == StepContext /\ Begins => OutcomeInv'
<1> SUFFICES ASSUME StepContext, Begins PROVE OutcomeInv'
  BY Zenon
<1>1. /\ kind' = kind /\ Agents' = Agents /\ too_deep' = too_deep /\ keys' = keys
      /\ pc = "new" /\ pc' \in {"launching", "failing"} /\ (pc' = "launching" => ~ too_deep)
      /\ pc' = "failing" => too_deep \/ (kind = "loop" /\ MaxIterations = 0)
      /\ kind = "loop" /\ pc' = "launching" => MaxIterations # 0
      /\ UNCHANGED <<child, failed, cur, iteration, total>>
      /\ AgentsOf[kind] \in Nat \ {0} /\ MaxIterations \in Nat /\ OutcomeInv
  BY SomeAgents, WorkflowAssumption, Zenon DEF StepContext, Begins, StreamInv
<1>2. VerdictRight'
  <2>1. ASSUME kind = "loop", MaxIterations = 0 PROVE FailureExplained'
    <3>1. total = 0 /\ \A i \in Agents : ~ child[i].escalated
      BY <1>1, <2>1 DEF OutcomeInv, LoopRight, Underway, JustDone
    <3>2. total' = MaxIterations * AgentsOf[kind] /\ \A i \in Agents' : ~ child'[i].escalated
      BY <1>1, <2>1, <3>1
    <3> QED
      BY <1>1, <2>1, <3>2, Zenon DEF FailureExplained
  <2>2. too_deep => FailureExplained'
    BY <1>1, Zenon DEF FailureExplained
  <2> QED
    BY <1>1, <2>1, <2>2, Zenon DEF VerdictRight
<1>3. kind \in {"sequential", "swarm"} => SequenceRight'
  BY <1>1, Zenon DEF OutcomeInv, SequenceRight, Underway, JustDone, Succeeded
<1>4. kind = "loop" => LoopRight'
  BY <1>1 DEF OutcomeInv, LoopRight, Underway, JustDone
<1>5. kind = "parallel" => BranchesRight'
  BY <1>1, Zenon DEF OutcomeInv, BranchesRight
<1> QED
  BY <1>1, <1>2, <1>3, <1>4, <1>5, Zenon DEF OutcomeInv

\* A run gives up only for a cause.
LEMMA GivesUpOutcome == StepContext /\ GivesUp => OutcomeInv'
<1> SUFFICES ASSUME StepContext, GivesUp PROVE OutcomeInv'
  BY Zenon
<1>1. /\ kind' = kind /\ Agents' = Agents /\ too_deep' = too_deep /\ keys' = keys
      /\ pc' = "over" /\ failure' = TRUE /\ OutcomeInv
  BY Zenon DEF StepContext, GivesUp
<1>2. FailureExplained'
  <2>1. CASE pc = "failing" /\ UNCHANGED <<cur, child, failed, hops, total>>
    BY <1>1, <2>1, ExplanationsLast, Zenon DEF OutcomeInv, VerdictRight
  <2>2. CASE kind = "parallel" /\ DuplicateKey(cur) /\ UNCHANGED cur
    BY <1>1, <2>2, Zenon DEF FailureExplained, DuplicateKey
  <2> QED
    BY <1>1, <2>1, <2>2, Zenon DEF GivesUp, FailureExplained
<1> QED
  BY <1>1, <1>2, Zenon DEF OutcomeInv, VerdictRight, SequenceRight, LoopRight, BranchesRight, Underway

\* The ends of the stream.
LEMMA ClosesOutcome == StepContext /\ Closes => OutcomeInv'
<1> SUFFICES ASSUME StepContext, Closes PROVE OutcomeInv'
  BY Zenon
<1>1. /\ kind' = kind /\ Agents' = Agents /\ too_deep' = too_deep /\ keys' = keys
      /\ pc' = "over" /\ failure' = failure /\ VerdictRight /\ (pc # "over" => ~ failure)
  BY Zenon DEF StepContext, Closes, OutcomeInv, StreamInv, StatusRight
<1>2. VerdictRight'
  <2>1. CASE status' = "dropped"
    BY <1>1, <2>1, Zenon DEF VerdictRight
  <2>2. CASE status' # "dropped"
    <3>1. /\ UNCHANGED <<cur, iteration, child, failed, hops, total>>
          /\ pc = "completing" \/ (pc = "over" /\ status # "dropped")
      BY <2>2, Zenon DEF Closes
    <3>2. /\ FailureExplained' <=> FailureExplained
          /\ CompletionExplained' <=> CompletionExplained
      BY <1>1, <3>1, ExplanationsLast, Zenon
    <3> QED
      BY <1>1, <2>2, <3>1, <3>2, Zenon DEF VerdictRight
  <2> QED
    BY <2>1, <2>2, Zenon
<1> QED
  BY <1>1, <1>2, Zenon DEF OutcomeInv, SequenceRight, LoopRight, BranchesRight, Underway

\* A sub-agent is started, alone.
LEMMA SoloStartsOutcome == StepContext /\ SoloStarts => OutcomeInv'
<1> SUFFICES ASSUME StepContext, SoloStarts PROVE OutcomeInv'
  BY Zenon
<1>1. /\ kind' = kind /\ Agents' = Agents /\ too_deep' = too_deep
      /\ pc = "launching" /\ pc' = "draining" /\ kind # "parallel"
      /\ child'[cur].state = "running" /\ ~ child'[cur].escalated
      /\ UNCHANGED <<cur, iteration, total>> /\ OutcomeInv
      /\ \A i \in Agents : i # cur => child'[i] = child[i]
  BY Zenon DEF StepContext, SoloStarts, Only, Solo
<1>2. cur \in Agents /\ Agents = 1 .. AgentsOf[kind] /\ AgentsOf[kind] \in Nat \ {0}
  BY <1>1, SomeAgents, Zenon DEF StepContext, StreamInv, WorkflowTypes, Agents
<1>3. VerdictRight'
  BY <1>1, Zenon DEF OutcomeInv, VerdictRight
<1>4. kind \in {"sequential", "swarm"} => SequenceRight'
  <2>1. \A i \in 1 .. cur - 1 : i \in Agents /\ i # cur
    BY <1>2
  <2> QED
    BY <1>1, <2>1, Zenon DEF OutcomeInv, SequenceRight, Underway, JustDone, Succeeded
<1>5. kind = "loop" => LoopRight'
  BY <1>1, Zenon DEF OutcomeInv, LoopRight, Underway, JustDone
<1> QED
  BY <1>1, <1>3, <1>4, <1>5, Zenon DEF OutcomeInv

\* The sub-agent at cur speaks, completes or fails.
LEMMA SoloStepsOutcome ==
  ASSUME StepContext, NEW i \in Agents, SoloSteps(i)
  PROVE  OutcomeInv'
<1>1. /\ kind' = kind /\ Agents' = Agents /\ too_deep' = too_deep
      /\ pc = "draining" /\ pc' = "draining" /\ kind # "parallel"
      /\ child[i].state = "running" /\ child'[i].state \in {"running", "completed", "failed"}
      /\ total' = IF child'[i].state = "completed" THEN total + 1 ELSE total
      /\ UNCHANGED <<cur, iteration>> /\ OutcomeInv
      /\ \A j \in Agents : j # i => child'[j] = child[j]
  BY Zenon DEF StepContext, SoloSteps, Only, Solo
<1>2. /\ i = cur /\ Agents = 1 .. AgentsOf[kind] /\ AgentsOf[kind] \in Nat \ {0}
      /\ total \in Nat /\ iteration \in Nat
  BY <1>1, SomeAgents, Zenon
     DEF StepContext, StreamInv, WorkflowTypes, Agents, SoloSteps, SoloRight, Active
<1>3. VerdictRight'
  BY <1>1, Zenon DEF OutcomeInv, VerdictRight
<1>4. kind \in {"sequential", "swarm"} => SequenceRight'
  <2>1. \A j \in 1 .. cur - 1 : j \in Agents /\ j # i
    BY <1>2
  <2> QED
    BY <1>1, <1>2, <2>1 DEF OutcomeInv, SequenceRight, Underway, JustDone, Succeeded
<1>5. kind = "loop" => LoopRight'
  <2> SUFFICES ASSUME kind = "loop" PROVE LoopRight'
    BY Zenon
  <2> DEFINE whole == (iteration - 1) * AgentsOf[kind]
  <2>1. /\ total = whole + (cur - 1) + JustDone /\ whole \in Int /\ JustDone = 0
        /\ iteration <= MaxIterations
        /\ \A j \in Agents : child[j].escalated => j = cur
    BY <1>1, <1>2, SMTT(30) DEF OutcomeInv, LoopRight, Underway, JustDone
  <2>2. whole' = whole /\ JustDone' = IF child'[i].state = "completed" THEN 1 ELSE 0
    BY <1>1, <1>2, Zenon DEF JustDone
  <2> HIDE DEF whole
  <2>3. total' = whole' + (cur' - 1) + JustDone'
    BY <1>1, <1>2, <2>1, <2>2
  <2> QED
    BY <1>1, <1>2, <2>1, <2>3, Zenon DEF LoopRight, Underway, whole
<1> QED
  BY <1>1, <1>3, <1>4, <1>5, Zenon DEF OutcomeInv

\* One iteration more.
LEMMA OneMore == ASSUME NEW k \in Int, NEW n \in Int PROVE (k - 1) * n + n = k * n
OBVIOUS

\* Its stream ends: the next one, the next iteration, or the verdict.
LEMMA SoloEndsOutcome ==
  ASSUME StepContext, NEW i \in Agents, SoloEnds(i)
  PROVE  OutcomeInv'
<1> DEFINE n == AgentsOf[kind]
           whole == (iteration - 1) * n
           escalated == kind = "loop" /\ child[i].escalated
           last == i = n
<1>1. /\ kind' = kind /\ Agents' = Agents /\ too_deep' = too_deep
      /\ pc = "draining" /\ kind # "parallel" /\ child[i].state \in {"completed", "failed"}
      /\ child'[i].state = "ended" /\ (child'[i].slot <=> child[i].state = "failed")
      /\ child'[i].escalated = child[i].escalated /\ UNCHANGED <<failed, total>>
      /\ \A j \in Agents : j # i => child'[j] = child[j]
  BY Zenon DEF StepContext, SoloEnds, Only, Solo
<1>2. /\ i = cur /\ Agents = 1 .. n /\ n \in Nat \ {0}
      /\ total \in Nat /\ iteration \in Nat /\ (kind = "swarm" => n = 1) /\ ~ too_deep
      /\ child[i].state = "failed" => failed = {i}
      /\ child[i].state = "completed" => failed = {}
  BY <1>1, SomeAgents, WorkflowAssumption, Zenon
     DEF StepContext, StreamInv, WorkflowTypes, Agents, SoloEnds, SoloRight, Active, OutcomeInv,
         VerdictRight
<1>3. child[i].state = "completed" => JustDone = 1
  BY <1>1, <1>2, Zenon DEF JustDone
<1>4. CASE status' = "ended" /\ pc' = "over" /\ (failure' <=> child[i].state = "failed")
             /\ (kind = "swarm" \/ i \in failed)
  <2>1. CASE child[i].state = "failed"
    <3>1. FailureExplained'
      BY <1>1, <1>2, <2>1, Zenon DEF FailureExplained
    <3> QED
      BY <1>4, <2>1, <3>1, Zenon DEF OutcomeInv, VerdictRight, SequenceRight, LoopRight, BranchesRight, Underway
  <2>2. CASE child[i].state = "completed"
    <3>1. kind = "swarm" /\ n = 1 /\ i = 1 /\ Agents = {1}
      BY <1>2, <1>4, <2>2
    <3>2. total = 1
      BY <1>1, <1>2, <1>3, <2>2, <3>1 DEF StepContext, OutcomeInv, SequenceRight, Underway
    <3>3. \A j \in Agents' : Succeeded(j)'
      BY <1>1, <2>2, <3>1, Zenon DEF Succeeded
    <3>4. CompletionExplained'
      BY <1>1, <1>2, <2>2, <3>1, <3>2, <3>3, Zenon DEF CompletionExplained
    <3> QED
      BY <1>1, <1>4, <2>2, <3>4, Zenon
         DEF OutcomeInv, VerdictRight, SequenceRight, LoopRight, BranchesRight, Underway
  <2> QED
    BY <1>1, <2>1, <2>2, Zenon
<1>5. CASE /\ kind \in {"sequential", "loop"} /\ i \notin failed
           /\ pc' = AfterStep(escalated, last)
           /\ cur' = IF last THEN 1 ELSE i + 1
           /\ iteration' = IF last /\ ~ escalated THEN iteration + 1 ELSE iteration
  <2>1. child[i].state = "completed" /\ failed = {} /\ JustDone = 1 /\ failed' = {}
    BY <1>1, <1>2, <1>3, <1>5, Zenon
  <2>2. Succeeded(i)' /\ \A j \in Agents : j # i => (Succeeded(j)' <=> Succeeded(j))
    BY <1>1, <2>1, Zenon DEF Succeeded
  <2>3. pc' # "draining" /\ JustDone' = 0
    BY <1>5, Zenon DEF AfterStep, JustDone
  <2>4. CASE kind = "sequential"
    <3>1. /\ total = i /\ \A j \in 1 .. i - 1 : Succeeded(j)
      BY <1>1, <1>2, <2>1, <2>4 DEF StepContext, OutcomeInv, SequenceRight, Underway
    <3>2. \A j \in 1 .. i : Succeeded(j)'
      BY <1>2, <2>2, <3>1
    <3>3. pc' = IF last THEN "completing" ELSE "launching"
      <4>1. ~ escalated
        BY <2>4, Zenon
      <4> HIDE DEF escalated, last
      <4> QED
        BY <1>5, <2>4, <4>1, Zenon DEF AfterStep
    <3>4. last => CompletionExplained'
      BY <1>1, <1>2, <2>1, <2>4, <3>1, <3>2, Zenon DEF CompletionExplained
    <3>5. VerdictRight'
      BY <1>1, <1>2, <3>3, <3>4, Zenon DEF VerdictRight
    <3>6. SequenceRight'
      BY <1>1, <1>2, <1>5, <2>3, <3>1, <3>2, <3>3 DEF SequenceRight, Underway
    <3> QED
      BY <1>1, <2>4, <3>5, <3>6, Zenon DEF OutcomeInv
  <2>5. CASE kind = "loop"
    <3>1. /\ total = whole + i /\ iteration <= MaxIterations /\ whole \in Int
          /\ \A j \in Agents : child[j].escalated => j = i
      <4>1. /\ total = whole + (cur - 1) + JustDone /\ iteration <= MaxIterations
            /\ \A j \in Agents : child[j].escalated => j = cur
        BY <1>1, <2>5, Zenon DEF StepContext, OutcomeInv, LoopRight, Underway
      <4>2. whole \in Int
        BY <1>2
      <4> HIDE DEF whole
      <4> QED
        BY <1>2, <2>1, <4>1, <4>2
    <3>2. CASE child[i].escalated
      <4>1. pc' = "completing" /\ iteration' = iteration
        <5>1. escalated
          BY <2>5, <3>2, Zenon
        <5> HIDE DEF escalated, last
        <5> QED
          BY <1>5, <5>1, Zenon DEF AfterStep
      <4>2. CompletionExplained'
        <5>1. i \in Agents' /\ Succeeded(i)' /\ child'[i].escalated
              /\ total' = (iteration' - 1) * AgentsOf[kind'] + i
          BY <1>1, <2>2, <3>1, <3>2, <4>1, Zenon
        <5> QED
          BY <1>1, <1>2, <2>1, <2>5, <5>1, Zenon DEF CompletionExplained
      <4> QED
        BY <1>1, <1>2, <2>5, <4>1, <4>2, Zenon DEF OutcomeInv, VerdictRight, LoopRight, Underway
    <3>3. CASE ~ child[i].escalated
      <4>1. \A j \in Agents : ~ child'[j].escalated
        BY <1>1, <3>1, <3>3, Zenon
      <4>2. pc' = IF ~ last THEN "launching"
                  ELSE IF iteration < MaxIterations THEN "launching" ELSE "failing"
        BY <1>5, <2>5, <3>3, Zenon DEF AfterStep
      <4>3. CASE ~ last
        <5>1. pc' = "launching" /\ cur' = i + 1 /\ iteration' = iteration
          BY <1>5, <4>2, <4>3, Zenon
        <5>2. total' = (iteration' - 1) * AgentsOf[kind'] + (cur' - 1) + JustDone'
          <6> HIDE DEF whole
          <6>1. total' = whole + (cur' - 1) + JustDone'
            BY <1>1, <1>2, <2>3, <3>1, <5>1
          <6> QED
            BY <1>1, <5>1, <6>1, Zenon DEF whole
        <5> QED
          BY <1>1, <1>2, <2>5, <3>1, <4>1, <5>1, <5>2, Zenon DEF OutcomeInv, VerdictRight, LoopRight, Underway
      <4>4. CASE last
        <5>1. total' = iteration * n
          <6>1. whole + n = iteration * n
            BY <1>2, OneMore
          <6> HIDE DEF whole
          <6> QED
            BY <1>1, <3>1, <4>4, <6>1, Zenon
        <5>2. CASE iteration < MaxIterations
          <6>1. pc' = "launching" /\ cur' = 1 /\ iteration' = iteration + 1
            BY <1>5, <2>5, <3>3, <4>2, <4>4, <5>2, Zenon
          <6>2. iteration' - 1 = iteration /\ cur' - 1 = 0 /\ iteration' <= MaxIterations
            BY <1>2, <5>2, <6>1, WorkflowAssumption
          <6>3. total' = (iteration' - 1) * AgentsOf[kind'] + (cur' - 1) + JustDone'
            BY <1>1, <1>2, <2>3, <5>1, <6>2
          <6> QED
            BY <1>1, <1>2, <2>5, <4>1, <6>1, <6>2, <6>3, Zenon DEF OutcomeInv, VerdictRight, LoopRight, Underway
        <5>3. CASE ~ (iteration < MaxIterations)
          <6>1. pc' = "failing" /\ iteration = MaxIterations
            BY <1>2, <3>1, <4>2, <4>4, <5>3, WorkflowAssumption
          <6>2. FailureExplained'
            BY <1>1, <2>5, <4>1, <5>1, <6>1, Zenon DEF FailureExplained
          <6> QED
            BY <1>1, <2>5, <6>1, <6>2, Zenon DEF OutcomeInv, VerdictRight, LoopRight, Underway
        <5> QED
          BY <5>2, <5>3, Zenon
      <4> QED
        BY <4>3, <4>4, Zenon
    <3> QED
      BY <3>2, <3>3, Zenon
  <2> QED
    BY <1>5, <2>4, <2>5, Zenon
<1> QED
  BY <1>4, <1>5, Zenon DEF SoloEnds

INSTANCE FiniteSetTheorems

\* Branches run side by side: each completion is counted once, each failure collected.
LEMMA MergesOutcome == StepContext /\ Merges => OutcomeInv'
<1> SUFFICES ASSUME StepContext, Merges PROVE OutcomeInv'
  BY Zenon
<1> DEFINE n == AgentsOf[kind]
<1>1. /\ kind = "parallel" /\ kind' = "parallel" /\ Agents' = Agents /\ too_deep' = too_deep
      /\ keys' = keys /\ ParallelMove /\ BranchesRight /\ ~ too_deep
      /\ n \in Nat \ {0} /\ Agents = 1 .. n /\ cur \in Nat /\ total \in Nat
  BY SomeAgents
     DEF StepContext, Merges, Solo, OutcomeInv, VerdictRight, StreamInv, WorkflowTypes, Agents
<1>2. IsFiniteSet(Agents) /\ Cardinality(Agents) = n
  BY <1>1, FS_Interval
<1>3. ASSUME VerdictRight', BranchesRight' PROVE OutcomeInv'
  BY <1>1, <1>3, Zenon DEF OutcomeInv
<1>4. CASE /\ pc = "launching" /\ Only(cur) /\ child'[cur].state = "running" /\ ~ child'[cur].slot
           /\ pc' = IF cur = n THEN "draining" ELSE "launching"
           /\ cur' = cur + 1 /\ UNCHANGED <<failed, total>>
  <2>1. \A i \in Agents : i < cur' => child'[i].state = "running" /\ ~ child'[i].slot
    BY <1>1, <1>4 DEF BranchesRight, Only
  <2>2. failed' = {} /\ total' = 0
    BY <1>1, <1>4, Zenon DEF BranchesRight
  <2>3. CASE cur = n
    <3>1. \A i \in Agents : child'[i].state = "running" /\ ~ child'[i].slot
      BY <1>1, <1>4, <2>1, <2>3
    <3>2. Counted' = {}
      BY <1>1, <3>1, Zenon DEF Counted, Succeeded
    <3>3. BranchesRight'
      BY <1>1, <1>4, <2>2, <2>3, <3>1, <3>2, FS_EmptySet, Zenon DEF BranchesRight
    <3> QED
      BY <1>1, <1>3, <1>4, <2>3, <3>3, Zenon DEF VerdictRight
  <2>4. CASE cur # n
    BY <1>1, <1>3, <1>4, <2>1, <2>2, <2>4, Zenon DEF VerdictRight, BranchesRight
  <2> QED
    BY <2>3, <2>4, Zenon
<1>5. ASSUME pc = "draining", UNCHANGED pc, NEW i \in Agents, Only(i), ParallelStep(i)
      PROVE  OutcomeInv'
  <2>0. /\ total = Cardinality(Counted)
        /\ \A j \in Agents :
             /\ child[j].state \in {"running", "completed", "failed", "ended"}
             /\ child[j].state \in {"running", "completed"} => ~ child[j].slot
             /\ child[j].state = "failed" \/ (child[j].state = "ended" /\ child[j].slot)
                  => j \in failed
    BY <1>1, <1>5, Zenon DEF BranchesRight
  <2>1. \A j \in Agents : j # i => child'[j] = child[j]
    BY <1>5, Zenon DEF Only
  <2>2. \A j \in Agents :
          /\ child'[j].state \in {"running", "completed", "failed", "ended"}
          /\ child'[j].state \in {"running", "completed"} => ~ child'[j].slot
          /\ child'[j].state = "failed" \/ (child'[j].state = "ended" /\ child'[j].slot)
               => j \in failed'
    <3>1. /\ child'[i].state \in {"running", "completed", "failed", "ended"}
          /\ child'[i].state \in {"running", "completed"} => ~ child'[i].slot
          /\ child'[i].state = "failed" \/ (child'[i].state = "ended" /\ child'[i].slot)
               => i \in failed'
          /\ failed \subseteq failed'
      BY <1>5, <2>0, Zenon DEF ParallelStep
    <3> QED
      BY <2>0, <2>1, <3>1, Zenon
  <2>3. total' = Cardinality(Counted')
    <3>1. IsFiniteSet(Counted)
      <4>1. Counted \subseteq Agents
        BY Zenon DEF Counted
      <4> QED
        BY <1>2, <4>1, FS_Subset, Zenon
    <3>2. CASE child[i].state = "running" /\ child'[i].state = "completed" /\ total' = total + 1
      <4>1. Counted' = Counted \cup {i} /\ i \notin Counted
        BY <1>1, <2>1, <3>2, Zenon DEF Counted, Succeeded
      <4> QED
        BY <2>0, <3>1, <3>2, <4>1, FS_AddElement, Zenon
    <3>3. CASE /\ total' = total
               /\ \/ child[i].state = "running" /\ child'[i].state \in {"running", "failed"}
                  \/ /\ child[i].state \in {"completed", "failed"} /\ child'[i].state = "ended"
                     /\ child'[i].slot <=> child[i].state = "failed"
      <4>1. Counted' = Counted
        BY <1>1, <2>1, <3>3, Zenon DEF Counted, Succeeded
      <4> QED
        BY <2>0, <3>3, <4>1, Zenon
    <3> QED
      BY <1>5, <3>2, <3>3, Zenon DEF ParallelStep
  <2>4. BranchesRight'
    BY <1>1, <1>5, <2>2, <2>3, Zenon DEF BranchesRight
  <2> QED
    BY <1>1, <1>3, <1>5, <2>4, Zenon DEF VerdictRight
<1>6. CASE /\ pc = "draining" /\ \A i \in Agents : ~ Active(i)
           /\ pc' = IF failed = {} THEN "completing" ELSE "failing"
           /\ UNCHANGED <<child, failed, total>>
  <2>1. ASSUME failed = {} PROVE CompletionExplained'
    <3>1. \A i \in Agents : Succeeded(i)
      BY <1>1, <1>6, <2>1, Zenon DEF BranchesRight, Active, Succeeded
    <3>2. total = n
      <4>1. Counted = Agents
        BY <3>1, Zenon DEF Counted
      <4> QED
        BY <1>1, <1>2, <1>6, <4>1, Zenon DEF BranchesRight
    <3> QED
      BY <1>1, <1>6, <2>1, <3>1, <3>2, Zenon DEF CompletionExplained, Succeeded
  <2>2. failed # {} => FailureExplained'
    BY <1>6, Zenon DEF FailureExplained
  <2>3. VerdictRight'
    BY <1>1, <1>6, <2>1, <2>2, Zenon DEF VerdictRight
  <2>4. BranchesRight'
    BY <1>6, Zenon DEF BranchesRight
  <2> QED
    BY <1>3, <2>3, <2>4, Zenon
<1> QED
  BY <1>1, <1>4, <1>5, <1>6, Zenon DEF ParallelMove

\* OutcomeInv is an invariant of the workflows other than graphs.
THEOREM OutcomeInvariant == Spec => [](kind # "graph" => OutcomeInv)
<1>1. Init => (kind # "graph" => OutcomeInv)
  <2> SUFFICES ASSUME Init PROVE OutcomeInv
    BY Zenon
  <2>1. /\ pc = "new" /\ cur = 1 /\ iteration = 1 /\ total = 0 /\ failed = {}
        /\ \A i \in Agents : child[i].escalated = FALSE
    BY Zenon DEF Init, Idle
  <2>2. AgentsOf[kind] \in Nat
    BY WorkflowAssumption, Zenon DEF Init
  <2>3. VerdictRight /\ SequenceRight /\ BranchesRight
    BY <2>1 DEF VerdictRight, SequenceRight, BranchesRight, Underway, JustDone, Agents
  <2>4. LoopRight
    BY <2>1, <2>2 DEF LoopRight, Underway, JustDone
  <2> QED
    BY <2>3, <2>4, Zenon DEF OutcomeInv
<1>2. StreamInv /\ (kind # "graph" => OutcomeInv) /\ [Next]_vars => (kind # "graph" => OutcomeInv)'
  <2>1. StreamInv /\ OutcomeInv /\ kind # "graph" /\ WorkflowTypes' /\ StreamMove => OutcomeInv'
    <3> SUFFICES ASSUME StreamInv, OutcomeInv, kind # "graph", WorkflowTypes', StreamMove
                 PROVE  OutcomeInv'
      BY Zenon
    <3>1. StepContext
      BY Zenon DEF StepContext, StreamMove
    <3>2. ASSUME NEW i \in Agents, SoloSteps(i) PROVE OutcomeInv'
      BY <3>1, <3>2, SoloStepsOutcome, Zenon
    <3>3. ASSUME NEW i \in Agents, SoloEnds(i) PROVE OutcomeInv'
      BY <3>1, <3>3, SoloEndsOutcome, Zenon
    <3> QED
      BY <3>1, <3>2, <3>3, BeginsOutcome, GivesUpOutcome, ClosesOutcome, SoloStartsOutcome,
         MergesOutcome, Zenon DEF StreamMove
  <2>2. kind' = kind \/ ~ StreamMove
    BY Zenon DEF StreamMove
  <2>3. OutcomeInv /\ UNCHANGED vars => OutcomeInv' /\ kind' = kind
    BY OutcomeStutters, Zenon DEF vars, configVars
  <2>4. UNCHANGED vars => kind' = kind
    BY Zenon DEF vars, configVars
  <2> QED
    BY <2>1, <2>2, <2>3, <2>4, StepIsMove, Zenon
<1> QED
  BY <1>1, <1>2, StreamInvariant, PTL DEF Spec

\* A sequential, parallel, loop or swarm agent that completes has run all it had to, to
\* the end, and reports the usage of all of it; one that fails has a cause
\* (workflow.rs, swarm.rs).  For graphs, see NodesWait.
THEOREM OutcomesAreExplained == Spec => [](kind # "graph" => AgentsAccounted)
<1>1. StreamInv /\ (kind # "graph" => OutcomeInv) => (kind # "graph" => AgentsAccounted)
  <2> SUFFICES ASSUME StreamInv, OutcomeInv, kind # "graph" PROVE AgentsAccounted
    BY Zenon
  <2>1. status = "ended" => pc = "over"
    <3>1. pc # "draining" => (status = "ended" => pc = "over")
      BY Zenon DEF StreamInv, WorkflowTypes, StatusRight
    <3>2. pc = "draining" => status # "ended"
      BY Zenon DEF StreamInv, WorkflowTypes, StatusRight, SoloRight, Solo, Active, ChildStates
    <3> QED
      BY <3>1, <3>2, Zenon
  <2> QED
    BY <2>1, Zenon DEF OutcomeInv, VerdictRight, AgentsAccounted, OutcomeExplained, AfterPredecessors,
                SkippedReported
<1> QED
  BY <1>1, StreamInvariant, OutcomeInvariant, PTL

-----------------------------------------------------------------------------
(* Graphs.                                                                   *)

Settled(j) == child[j].state \in {"completed", "ended"} /\ ~ child[j].slot
Waiting(i) == {j \in Preds(i) : ~ Settled(j)}

\* The in-degree left of a node counts the predecessors it still waits for; a node that
\* was started, or is about to be, waits for none.
GraphInv ==
  /\ \A i \in Agents : child[i].state \in {"idle", "running", "completed"} => ~ child[i].slot
  /\ pc = "new" => \A i \in Agents : child[i].state = "idle"
  /\ pc # "new" =>
       \A i \in Agents : /\ indegree[i] = Cardinality(Waiting(i))
                         /\ child[i].state # "idle" \/ i \in ready => Waiting(i) = {}
                         /\ i \in ready => child[i].state = "idle"

GraphSafe == kind = "graph" /\ status # "dropped" => GraphInv

Freed(i) == {j \in Succs(i) : indegree'[j] = 0 /\ j \notin skipped}

\* What a step does to one node.
NodeMove(i) ==
  /\ Only(i)
  /\ \/ /\ i \in ready /\ ready' = ready \ {i} /\ indegree' = indegree
        /\ \/ child'[i].state = "running" /\ ~ child'[i].slot
           \/ child'[i].state = "refused"
     \/ /\ child[i].state = "running" /\ child'[i].state = "running"
        /\ child'[i].slot = child[i].slot /\ UNCHANGED <<ready, indegree>>
     \/ /\ child[i].state = "running" /\ child'[i].state = "failed"
        /\ UNCHANGED <<ready, indegree>>
     \/ /\ child[i].state \in {"completed", "failed"} /\ child'[i].state = "ended"
        /\ child'[i].slot <=> child[i].state = "failed"
        /\ UNCHANGED <<ready, indegree>>

NodeCompletes(i) ==
  /\ Only(i) /\ child[i].state = "running" /\ child'[i].state = "completed"
  /\ child'[i].slot = child[i].slot
  /\ indegree' = Settle(indegree, i, Graph) /\ ready' = Freed(i)

GraphMove ==
  /\ kind' = kind /\ edges' = edges
  /\ \/ status' = "dropped"
     \/ /\ status # "dropped" /\ pc = "new" /\ pc' # "new" /\ UNCHANGED child
        /\ indegree' = [i \in Agents |-> Cardinality(Preds(i))]
        /\ ready' = {i \in Agents : Preds(i) = {}}
     \/ /\ status # "dropped" /\ pc # "new" /\ pc' # "new"
        /\ \/ UNCHANGED <<child, ready, indegree>>
           \/ \E i \in Agents : NodeMove(i) \/ NodeCompletes(i)

\* Every step of a graph is one of these.
LEMMA StepIsGraphMove ==
  ASSUME StreamInv, kind = "graph", Next
  PROVE  GraphMove \/ UNCHANGED vars
<1>0. /\ WorkflowTypes /\ ~ Solo
      /\ pc \in {"new", "launching", "draining", "completing", "failing"} => status # "dropped"
  BY Zenon DEF StreamInv, StatusRight, Solo
<1>1. (kind' = kind /\ edges' = edges) \/ UNCHANGED vars
  BY ZenonT(40) DEF Next, RunStep, Begin, FailRun, CompleteRun, EndRun, SerialLaunch, LaunchFails, ParallelLaunch,
         ParallelRefused, Merged, GraphLaunch, SwarmLaunch, Escalates, SerialSays, SerialCompletes,
         SerialFails, SerialEndsFailed, SerialEnds, MergeSays, ParallelCompletes, ParallelFails,
         MergeEnds, GraphCompletes, GraphFails, SwarmSays, SwarmOverLimit, SwarmCompletes, SwarmFails,
         SwarmEnds, DriverDies, Over, configVars
<1>2. CASE Begin
  BY <1>0, <1>1, <1>2, Zenon DEF Begin, GraphMove, configVars
<1>3. CASE FailRun \/ CompleteRun \/ EndRun \/ Merged
  BY <1>0, <1>3, Zenon DEF FailRun, GiveUp, CompleteRun, EndRun, Merged, GraphMove, configVars, graphVars
<1>4. CASE GraphLaunch
  <2>1. PICK i \in ready :
          /\ ready' = ready \ {i}
          /\ \/ child' = Launched(i)
             \/ child' = [child EXCEPT ![i].state = "refused", ![i].slot = TRUE]
          /\ pc' = IF ready' = {} THEN "draining" ELSE "launching"
    BY <1>4, Zenon DEF GraphLaunch
  <2>2. i \in Agents /\ pc = "launching" /\ indegree' = indegree
    BY <1>0, <1>4, Zenon DEF GraphLaunch, WorkflowTypes
  <2>3. NodeMove(i)
    <3>1. CASE child' = Launched(i)
      BY <1>0, <2>1, <2>2, <3>1, LaunchEffect, Zenon DEF NodeMove
    <3>2. CASE child' = [child EXCEPT ![i].state = "refused", ![i].slot = TRUE]
      BY <1>0, <2>1, <2>2, <3>2, RefuseEffect, Zenon DEF NodeMove
    <3> QED
      BY <2>1, <3>1, <3>2, Zenon
  <2> QED
    BY <1>0, <1>1, <1>4, <2>1, <2>2, <2>3, Zenon DEF GraphMove, GraphLaunch, configVars
<1>5. ASSUME NEW i \in Agents, RunStepOf(i) PROVE GraphMove
  <2>1. CASE MergeSays(i)
    <3>1. PICK ev \in Body(i) : Says(i, ev)
      BY <2>1, Zenon DEF MergeSays
    <3>2. NodeMove(i)
      BY <1>0, <2>1, <3>1, SaysEffect, Zenon DEF NodeMove, MergeSays, graphVars
    <3> QED
      BY <1>0, <2>1, <3>1, <3>2, SaysEffect, Zenon DEF GraphMove, MergeSays, configVars
  <2>2. CASE MergeEnds(i)
    <3>1. NodeMove(i)
      BY <1>0, <2>2, EndsEffect, Zenon DEF NodeMove, MergeEnds, graphVars
    <3> QED
      BY <1>0, <2>2, <3>1, EndsEffect, Zenon DEF GraphMove, MergeEnds, configVars
  <2>3. CASE GraphFails(i)
    <3>1. NodeMove(i)
      BY <1>0, <2>3, FailsEffect, Zenon DEF NodeMove, GraphFails
    <3> QED
      BY <1>0, <2>3, <3>1, FailsEffect, Zenon DEF GraphMove, GraphFails, configVars
  <2>4. CASE GraphCompletes(i)
    <3>1. /\ Completes(i) /\ indegree' = Settle(indegree, i, Graph) /\ ready' = Freed(i)
          /\ pc' \in {"draining", "launching"} /\ UNCHANGED configVars
      BY <2>4, Zenon DEF GraphCompletes, Freed
    <3>2. NodeCompletes(i)
      BY <1>0, <3>1, CompletesEffect DEF NodeCompletes
    <3> QED
      BY <1>0, <3>1, <3>2, CompletesEffect, Zenon DEF GraphMove, configVars
  <2> QED
    BY <1>5, <2>1, <2>2, <2>3, <2>4, Zenon
       DEF RunStepOf, Escalates, SerialSays, SerialCompletes, SerialFails, SerialEndsFailed, SerialEnds,
           Serial, ParallelCompletes, ParallelFails, SwarmSays, SwarmOverLimit, SwarmCompletes,
           SwarmFails, SwarmEnds
<1>6. CASE DriverDies
  BY <1>6 DEF DriverDies, GraphMove, configVars
<1>7. CASE Over
  BY <1>7 DEF Over
<1> QED
  BY <1>2, <1>3, <1>4, <1>5, <1>6, <1>7, Zenon
     DEF Next, RunStep, RunStepOf, SerialLaunch, LaunchFails, Serial, ParallelLaunch, ParallelRefused,
         SwarmLaunch

\* The nodes a node waits for are finitely many.
LEMMA WaitingFinite ==
  ASSUME WorkflowTypes, NEW i \in Agents
  PROVE  IsFiniteSet(Waiting(i))
<1>1. IsFiniteSet(Agents)
  BY SomeAgents, FS_Interval, SMTT(30) DEF Agents
<1>2. Waiting(i) \subseteq Agents
  BY DEF Waiting, Preds, Predecessors, Graph
<1> QED
  BY <1>1, <1>2, FS_Subset

\* A move that finishes no node and starts only a ready one.
LEMMA NodeMoveKeeps ==
  ASSUME WorkflowTypes, GraphInv, pc # "new", pc' # "new", NEW i \in Agents, NodeMove(i),
         kind' = kind, edges' = edges
  PROVE  GraphInv'
<1>0. /\ Agents' = Agents /\ \A j \in Agents : Preds(j)' = Preds(j) /\ Preds(j) \subseteq Agents
      /\ \A j \in Agents : j # i => child'[j] = child[j]
  BY DEF Agents, Preds, Predecessors, Graph, NodeMove, Only
<1>1. Settled(i)' <=> Settled(i)
  <2>1. child[i].state \in {"idle", "running", "completed"} => ~ child[i].slot
    BY DEF GraphInv
  <2>2. i \in ready => child[i].state = "idle"
    BY DEF GraphInv
  <2> QED
    BY <2>1, <2>2 DEF NodeMove, Settled
<1>2. \A j \in Agents : Settled(j)' <=> Settled(j)
  BY <1>0, <1>1 DEF Settled
<1>3. \A j \in Agents : Waiting(j)' = Waiting(j)
  BY <1>0, <1>2 DEF Waiting
<1>4. indegree' = indegree /\ ready' \subseteq ready
  BY DEF NodeMove
<1>5. /\ Waiting(i) = {} /\ i \notin ready'
      /\ child'[i].state \in {"idle", "running", "completed"} => ~ child'[i].slot
  <2>1. i \in ready \/ child[i].state # "idle"
    BY DEF NodeMove
  <2>2. Waiting(i) = {} /\ (i \in ready => child[i].state = "idle")
    BY <2>1 DEF GraphInv
  <2>3. child[i].state = "running" => ~ child[i].slot
    BY DEF GraphInv
  <2> QED
    BY <2>2, <2>3 DEF NodeMove
<1>6. ASSUME NEW j \in Agents
      PROVE  /\ child'[j].state \in {"idle", "running", "completed"} => ~ child'[j].slot
             /\ indegree'[j] = Cardinality(Waiting(j)')
             /\ child'[j].state # "idle" \/ j \in ready' => Waiting(j)' = {}
             /\ j \in ready' => child'[j].state = "idle"
  <2>1. CASE j = i
    BY <1>3, <1>4, <1>5, <2>1 DEF GraphInv
  <2>2. CASE j # i
    BY <1>0, <1>3, <1>4, <2>2 DEF GraphInv
  <2> QED
    BY <2>1, <2>2
<1> QED
  BY <1>0, <1>6 DEF GraphInv

\* A completion: each successor waits for one node less, and is freed by the last.
LEMMA NodeCompletesKeeps ==
  ASSUME WorkflowTypes, GraphInv, pc # "new", pc' # "new", NEW i \in Agents, NodeCompletes(i),
         kind' = kind, edges' = edges
  PROVE  GraphInv'
<1>0. /\ Agents' = Agents /\ \A j \in Agents : Preds(j)' = Preds(j) /\ Preds(j) \subseteq Agents
      /\ \A j \in Agents : j # i => child'[j] = child[j]
      /\ \A j \in Agents : i \in Preds(j) <=> j \in Succs(i)
      /\ Succs(i) \subseteq Agents
  BY DEF Agents, Preds, Predecessors, Succs, Successors, Graph, NodeCompletes, Only
<1>1. /\ child[i].state = "running" /\ child'[i].state = "completed" /\ ~ child'[i].slot
      /\ Waiting(i) = {} /\ ~ Settled(i) /\ Settled(i)'
  BY DEF GraphInv, NodeCompletes, Settled
<1>2. \A j \in Agents : j # i => (Settled(j)' <=> Settled(j))
  BY <1>0 DEF Settled
<1>3. \A j \in Agents : Waiting(j)' = Waiting(j) \ {i}
  BY <1>0, <1>1, <1>2 DEF Waiting
<1>4. \A j \in Agents : i \in Waiting(j) <=> j \in Succs(i)
  BY <1>0, <1>1 DEF Waiting
<1>5. ASSUME NEW j \in Agents PROVE indegree'[j] = Cardinality(Waiting(j)')
  <2>1. indegree'[j] = IF j \in Succs(i) THEN indegree[j] - 1 ELSE indegree[j]
    BY DEF NodeCompletes, Settle, Succs, Graph
  <2>2. indegree[j] = Cardinality(Waiting(j)) /\ IsFiniteSet(Waiting(j))
    BY WaitingFinite DEF GraphInv
  <2>3. Cardinality(Waiting(j) \ {i}) =
          IF i \in Waiting(j) THEN Cardinality(Waiting(j)) - 1 ELSE Cardinality(Waiting(j))
    BY <2>2, FS_RemoveElement
  <2> QED
    BY <1>3, <1>4, <2>1, <2>2, <2>3, SMTT(30)
<1>6. ASSUME NEW j \in Agents, j \in ready' PROVE child'[j].state = "idle" /\ Waiting(j)' = {}
  <2>1. j \in Succs(i) /\ indegree'[j] = 0
    BY <1>6 DEF NodeCompletes, Freed
  <2>2. i \in Waiting(j)
    BY <1>4, <2>1
  <2>3. j # i /\ child[j].state = "idle"
    BY <1>1, <2>2 DEF GraphInv
  <2>4. IsFiniteSet(Waiting(j)')
    <3>1. IsFiniteSet(Waiting(j)) /\ Waiting(j)' \subseteq Waiting(j)
      BY <1>3, WaitingFinite
    <3> QED
      BY <3>1, FS_Subset
  <2>5. Waiting(j)' = {}
    BY <1>5, <2>1, <2>4, FS_EmptySet, SMTT(30)
  <2> QED
    BY <1>0, <2>3, <2>5
<1>7. ASSUME NEW j \in Agents, child'[j].state # "idle" PROVE Waiting(j)' = {}
  BY <1>0, <1>1, <1>3, <1>7, SMTT(30) DEF GraphInv
<1>8. \A j \in Agents :
        child'[j].state \in {"idle", "running", "completed"} => ~ child'[j].slot
  BY <1>0, <1>1 DEF GraphInv
<1> QED
  BY <1>0, <1>5, <1>6, <1>7, <1>8 DEF GraphInv

\* In a graph a node is started only after all of its predecessors have completed: the
\* in-degree that is counted down on every completion (graph.rs 239-319) is exact.
THEOREM NodesWait == Spec => []AfterPredecessors
<1>1. Init => GraphSafe
  <2> SUFFICES ASSUME Init PROVE GraphInv
    BY DEF GraphSafe
  <2>1. \A i \in Agents : child[i] = Idle
    BY DEF Init
  <2> QED
    BY <2>1 DEF Init, GraphInv, Idle
<1>2. StreamInv /\ GraphSafe /\ [Next]_vars => GraphSafe'
  <2> SUFFICES ASSUME StreamInv, GraphSafe, [Next]_vars, (kind = "graph")', (status # "dropped")'
               PROVE  GraphInv'
    BY DEF GraphSafe
  <2>1. CASE UNCHANGED vars
    BY <2>1 DEF vars, configVars, graphVars, GraphSafe, GraphInv, Waiting, Settled, Preds, Predecessors,
                Graph, Agents
  <2>2. CASE Next /\ kind = "graph" /\ ~ UNCHANGED vars
    <3>1. GraphMove /\ WorkflowTypes
      BY <2>2, StepIsGraphMove DEF StreamInv
    <3>2. kind' = kind /\ edges' = edges /\ status # "dropped" /\ GraphInv
      BY <2>2, <3>1 DEF GraphMove, GraphSafe
    <3>3. CASE /\ pc = "new" /\ pc' # "new" /\ UNCHANGED child
               /\ indegree' = [i \in Agents |-> Cardinality(Preds(i))]
               /\ ready' = {i \in Agents : Preds(i) = {}}
      <4>1. Agents' = Agents /\ \A j \in Agents : Preds(j)' = Preds(j) /\ Preds(j) \subseteq Agents
        BY <3>2 DEF Agents, Preds, Predecessors, Graph
      <4>2. \A j \in Agents : child'[j].state = "idle" /\ ~ child'[j].slot
        BY <3>2, <3>3 DEF GraphInv
      <4>3. \A j \in Agents : Waiting(j)' = Preds(j)
        BY <4>1, <4>2 DEF Waiting, Settled
      <4> QED
        BY <3>3, <4>1, <4>2, <4>3 DEF GraphInv
    <3>4. CASE pc # "new" /\ pc' # "new" /\ UNCHANGED <<child, ready, indegree>>
      <4>1. Agents' = Agents /\ \A j \in Agents : Preds(j)' = Preds(j)
        BY <3>2 DEF Agents, Preds, Predecessors, Graph
      <4>2. \A j \in Agents : Waiting(j)' = Waiting(j)
        BY <3>4, <4>1 DEF Waiting, Settled
      <4> QED
        BY <3>2, <3>4, <4>1, <4>2 DEF GraphInv
    <3>5. ASSUME pc # "new", pc' # "new", NEW i \in Agents, NodeMove(i) PROVE GraphInv'
      BY <3>1, <3>2, <3>5, NodeMoveKeeps
    <3>6. ASSUME pc # "new", pc' # "new", NEW i \in Agents, NodeCompletes(i) PROVE GraphInv'
      BY <3>1, <3>2, <3>6, NodeCompletesKeeps
    <3> QED
      BY <3>1, <3>3, <3>4, <3>5, <3>6 DEF GraphMove
  <2>3. kind' = kind \/ UNCHANGED vars
    BY StepIsMove DEF StreamMove, StreamInv
  <2> QED
    BY <2>1, <2>2, <2>3
<1>3. GraphSafe /\ StreamInv => AfterPredecessors
  <2> SUFFICES ASSUME GraphSafe, StreamInv, kind = "graph", status # "dropped",
                      NEW i \in Agents, child[i].state # "idle", NEW j \in Preds(i)
               PROVE  child[j].state \in {"completed", "ended"} /\ ~ child[j].slot
    BY DEF AfterPredecessors
  <2>1. GraphInv /\ pc # "new"
    BY DEF GraphSafe, GraphInv
  <2>2. Waiting(i) = {}
    BY <2>1 DEF GraphInv
  <2> QED
    BY <2>2 DEF Waiting, Settled
<1> QED
  BY <1>1, <1>2, <1>3, StreamInvariant, PTL DEF Spec

=============================================================================
