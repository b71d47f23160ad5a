--------------------------- MODULE LoopStateProofs ---------------------------
(***************************************************************************)
(* The state machine of the agent loop, for every turn limit, plan and       *)
(* input: every step ends the run or asks for work within the bounds, and    *)
(* announces exactly the calls and outputs of its input; the log a recorder  *)
(* leaves of an orderly stream answers each call once; with the facts on     *)
(* lists this rests on.                                                      *)
(***************************************************************************)
EXTENDS SessionRecorder, TLAPS

-----------------------------------------------------------------------------
(* Sequences of events, whatever the events carry.                           *)

IsSeq(s) == Len(s) \in Nat /\ s = [i \in 1 .. Len(s) |-> s[i]]

NoTerminal(s) == \A i \in 1 .. Len(s) : ~ IsTerminal(s[i])

\* A terminal event, and only at the end.
OnlyLast(s) ==
  /\ s # <<>> /\ Len(s) >= 1 /\ IsTerminal(s[Len(s)])
  /\ \A i \in 1 .. Len(s) - 1 : ~ IsTerminal(s[i])

\* A sequence is a sequence over its own elements.
LEMMA OwnElements ==
  ASSUME NEW s, IsSeq(s)
  PROVE  s \in Seq({s[i] : i \in 1 .. Len(s)})
<1> DEFINE S == {s[i] : i \in 1 .. Len(s)}
<1>1. s \in [1 .. Len(s) -> S] /\ Len(s) \in Nat
  BY Zenon DEF IsSeq
<1> HIDE DEF S
<1>2. s \in Seq(S)
  BY <1>1 DEF IsSeq
<1> QED
  BY <1>2, Zenon DEF S

\* A sequence over a set is one of them.
LEMMA SeqIsSeq ==
  ASSUME NEW S, NEW s \in Seq(S)
  PROVE  IsSeq(s)
  BY DEF IsSeq

\* What Append does to a sequence of events.
LEMMA AppendIsSeq ==
  ASSUME NEW s, IsSeq(s), NEW e
  PROVE  /\ IsSeq(Append(s, e)) /\ Len(Append(s, e)) = Len(s) + 1 /\ Append(s, e) # <<>>
         /\ Append(s, e)[Len(s) + 1] = e /\ \A i \in 1 .. Len(s) : Append(s, e)[i] = s[i]
<1> DEFINE S == {s[i] : i \in 1 .. Len(s)} \union {e}
<1>1. s \in Seq(S)
  <2> DEFINE T == {s[i] : i \in 1 .. Len(s)}
  <2>1. s \in Seq(T) /\ T \subseteq S
    BY OwnElements, Zenon
  <2> HIDE DEF T, S
  <2> QED
    BY <2>1
<1>2. e \in S
  BY Zenon
<1> HIDE DEF S
<1>3. Append(s, e) \in Seq(S)
  BY <1>1, <1>2
<1>4. /\ Len(Append(s, e)) = Len(s) + 1 /\ Append(s, e)[Len(s) + 1] = e
      /\ \A i \in 1 .. Len(s) : Append(s, e)[i] = s[i]
  BY <1>1, <1>2
<1>5. IsSeq(Append(s, e))
  BY <1>3, SeqIsSeq, Zenon
<1> QED
  BY <1>1, <1>4, <1>5 DEF IsSeq

\* What concatenation does.
LEMMA ConcatIsSeq ==
  ASSUME NEW s, NEW t, IsSeq(s), IsSeq(t)
  PROVE  /\ IsSeq(s \o t) /\ Len(s \o t) = Len(s) + Len(t)
         /\ \A i \in 1 .. Len(s) + Len(t) :
              (s \o t)[i] = IF i <= Len(s) THEN s[i] ELSE t[i - Len(s)]
<1> DEFINE S == {s[i] : i \in 1 .. Len(s)} \union {t[i] : i \in 1 .. Len(t)}
<1>1. s \in Seq(S) /\ t \in Seq(S)
  <2> DEFINE T == {s[i] : i \in 1 .. Len(s)}
             U == {t[i] : i \in 1 .. Len(t)}
  <2>1. s \in Seq(T) /\ T \subseteq S /\ t \in Seq(U) /\ U \subseteq S
    BY OwnElements, Zenon
  <2> HIDE DEF T, U, S
  <2> QED
    BY <2>1
<1> HIDE DEF S
<1>2. s \o t \in Seq(S)
  BY <1>1
<1>3. IsSeq(s \o t)
  BY <1>2, SeqIsSeq, Zenon
<1> QED
  BY <1>1, <1>3

\* What Tail does to a sequence with a head.
LEMMA TailIsSeq ==
  ASSUME NEW s, IsSeq(s), s # <<>>
  PROVE  /\ Len(s) >= 1 /\ IsSeq(Tail(s)) /\ Len(Tail(s)) = Len(s) - 1 /\ Head(s) = s[1]
         /\ \A i \in 1 .. Len(s) - 1 : Tail(s)[i] = s[i + 1]
         /\ Tail(s) = <<>> <=> Len(s) = 1
<1> DEFINE S == {s[i] : i \in 1 .. Len(s)}
<1>1. s \in Seq(S)
  BY OwnElements, Zenon
<1> HIDE DEF S
<1>2. /\ Tail(s) \in Seq(S) /\ Len(Tail(s)) = Len(s) - 1 /\ Head(s) = s[1] /\ Len(s) # 0
      /\ \A i \in 1 .. Len(s) - 1 : Tail(s)[i] = s[i + 1]
  BY <1>1
<1>3. IsSeq(Tail(s))
  BY <1>2, SeqIsSeq, Zenon
<1>4. Tail(s) = <<>> <=> Len(s) = 1
  BY <1>1, <1>2
<1> QED
  BY <1>1, <1>2, <1>3, <1>4 DEF IsSeq

\* A function on 1 .. n is such a sequence.
LEMMA ListIsSeq ==
  ASSUME NEW n \in Nat, NEW s, s = [i \in 1 .. n |-> s[i]]
  PROVE  IsSeq(s) /\ Len(s) = n
<1> DEFINE S == {s[i] : i \in 1 .. n}
<1>1. s \in [1 .. n -> S]
  BY Zenon
<1> HIDE DEF S
<1>2. s \in Seq(S)
  BY <1>1
<1> QED
  BY <1>1, <1>2 DEF IsSeq

\* Events before a terminal one, and the terminal one.
LEMMA ClosedBy ==
  ASSUME NEW s, IsSeq(s), NoTerminal(s), NEW e, IsTerminal(e)
  PROVE  OnlyLast(Append(s, e)) /\ Append(s, e)[Len(Append(s, e))] = e
  BY AppendIsSeq DEF OnlyLast, NoTerminal, IsSeq

\* Two stretches without a terminal event.
LEMMA JoinOpen ==
  ASSUME NEW s, NEW t, IsSeq(s), IsSeq(t), NoTerminal(s), NoTerminal(t)
  PROVE  IsSeq(s \o t) /\ NoTerminal(s \o t)
  BY ConcatIsSeq DEF NoTerminal, IsSeq

\* Another event that is not terminal.
LEMMA StaysOpen ==
  ASSUME NEW s, IsSeq(s), NoTerminal(s), NEW e, ~ IsTerminal(e)
  PROVE  NoTerminal(Append(s, e))
  BY AppendIsSeq DEF NoTerminal, IsSeq

-----------------------------------------------------------------------------
(* The state machine.                                                        *)

\* Inputs the driver may hand the machine in a state.
Expects(s, in) ==
  /\ s.turn \in Nat /\ s.usage \in Nat /\ in.usage \in Nat /\ IsSeq(in.calls)
  /\ \/ s.kind = "calling" /\ in.kind = "start" /\ s.turn = 0 /\ in.usage = 0
     \/ s.kind = "calling" /\ in.kind = "response" /\ s.turn < MaxTurns
     \/ s.kind = "executing" /\ in.kind = "results" /\ s.turn < MaxTurns /\ in.usage = 0
     \/ s.kind \in {"finalizing", "repairing"} /\ in.kind = "response" /\ s.turn <= MaxTurns

\* One model call more than the turn number allows while an answer is repaired.
Spare(s) == IF s.kind = "repairing" THEN 1 ELSE 0

\* The model calls made when the machine gets an input.
Made(s, in, n) ==
  /\ in.kind = "start" => n = 0
  /\ in.kind # "start" => n <= s.turn + 1 + Spare(s)

\* What a step of the machine asks the driver to do, given n model calls so far.
Asks(o, n) ==
  \/ /\ o.action = "call_model" /\ o.state.kind \in {"calling", "finalizing", "repairing"}
     /\ o.state.turn <= MaxTurns /\ n <= o.state.turn + Spare(o.state)
     /\ o.state.kind = "calling" => o.state.turn < MaxTurns
  \/ /\ o.action = "execute_tools" /\ o.state.kind = "executing"
     /\ o.state.turn < MaxTurns /\ n <= o.state.turn + 1
  \/ o.action = "handoff" /\ o.state.kind = "handoff"

\* What the end of a step of the machine looks like.
Ends(o, total) ==
  /\ o.action = "terminate" /\ OnlyLast(o.events)
  /\ \/ /\ o.state.kind = "done" /\ o.state.usage = total
        /\ o.events[Len(o.events)] = Ev("completed", total)
     \/ /\ o.state.kind = "failed" /\ o.state.error # None
        /\ o.events[Len(o.events)].kind = "failed"

Steps(o, total, n) ==
  /\ o.state.turn \in Nat /\ o.state.usage \in Nat /\ IsSeq(o.events)
  /\ Ends(o, total) \/ (Asks(o, n) /\ NoTerminal(o.events) /\ o.state.usage = total)

\* What a failing step yields.
LEMMA FailsEnds ==
  ASSUME NEW s, s.turn \in Nat, s.usage \in Nat, NEW error, error # None, NEW events,
         IsSeq(events), NoTerminal(events), NEW total, NEW n
  PROVE  Steps(Fails(s, error, events), total, n)
<1> DEFINE e == Ev("failed", error)
<1>1. IsTerminal(e) /\ e.kind = "failed"
  BY Zenon DEF IsTerminal, Ev
<1>2. IsSeq(Append(events, e)) /\ OnlyLast(Append(events, e))
      /\ Append(events, e)[Len(Append(events, e))] = e
  BY <1>1, AppendIsSeq, ClosedBy, Zenon
<1> HIDE DEF e
<1>3. Fails(s, error, events) = [state |-> [kind |-> "failed", turn |-> s.turn, usage |-> s.usage,
                                            error |-> error],
                                 events |-> Append(events, e), action |-> "terminate"]
  BY Zenon DEF Fails, Outcome, State, e
<1> QED
  BY <1>1, <1>2, <1>3 DEF Steps, Ends

\* What a completing step yields.
LEMMA CompletesEnds ==
  ASSUME NEW s, s.turn \in Nat, NEW total \in Nat, NEW events, IsSeq(events), NoTerminal(events),
         NEW n
  PROVE  Steps(Completes(s, total, events), total, n)
<1> DEFINE e == Ev("completed", total)
<1>1. IsTerminal(e) /\ e.kind = "completed"
  BY Zenon DEF IsTerminal, Ev
<1>2. IsSeq(Append(events, e)) /\ OnlyLast(Append(events, e))
      /\ Append(events, e)[Len(Append(events, e))] = e
  BY <1>1, AppendIsSeq, ClosedBy, Zenon
<1> HIDE DEF e
<1>3. Completes(s, total, events) = [state |-> [kind |-> "done", turn |-> s.turn, usage |-> total,
                                                error |-> None],
                                     events |-> Append(events, e), action |-> "terminate"]
  BY Zenon DEF Completes, Outcome, State, e
<1> QED
  BY <1>2, <1>3 DEF Steps, Ends, e

\* The messages and calls a step announces are no terminal events.
LEMMA Announced ==
  ASSUME NEW plan, NEW in
  PROVE  /\ IsSeq(MessageOutput(in)) /\ NoTerminal(MessageOutput(in))
         /\ \A calls : Len(calls) \in Nat =>
              IsSeq(CallEvents(plan, calls)) /\ NoTerminal(CallEvents(plan, calls))
<1>1. IsSeq(MessageOutput(in)) /\ NoTerminal(MessageOutput(in))
  BY DEF MessageOutput, IsSeq, NoTerminal, IsTerminal, Ev
<1>2. ASSUME NEW calls, Len(calls) \in Nat
      PROVE  IsSeq(CallEvents(plan, calls)) /\ NoTerminal(CallEvents(plan, calls))
  <2> DEFINE ev(i) == Ev(IF IsTransfer(plan, calls[i]) THEN "transfer" ELSE "call", calls[i].id)
             evs == CallEvents(plan, calls)
  <2>1. evs = [i \in 1 .. Len(calls) |-> ev(i)]
    BY Zenon DEF CallEvents
  <2>2. \A i \in 1 .. Len(calls) : ~ IsTerminal(ev(i))
    BY Zenon DEF IsTerminal, Ev
  <2> HIDE DEF ev, evs
  <2>3. evs = [i \in 1 .. Len(calls) |-> evs[i]] /\ \A i \in 1 .. Len(calls) : evs[i] = ev(i)
    BY <2>1, Zenon
  <2>4. IsSeq(evs) /\ Len(evs) = Len(calls)
    BY <1>2, <2>3, ListIsSeq, Zenon
  <2>5. IsSeq(evs) /\ NoTerminal(evs)
    BY <2>2, <2>3, <2>4, Zenon DEF NoTerminal
  <2> QED
    BY <2>5, Zenon DEF evs
<1> QED
  BY <1>1, <1>2, Zenon

\* What a step that asks the model yields.
LEMMA AsksSteps ==
  ASSUME NEW kind \in {"calling", "finalizing", "repairing"}, NEW turn \in Nat, turn <= MaxTurns,
         kind = "calling" => turn < MaxTurns, NEW total \in Nat,
         NEW events, IsSeq(events), NoTerminal(events),
         NEW n \in Nat, n <= turn + (IF kind = "repairing" THEN 1 ELSE 0)
  PROVE  Steps(AsksModel(kind, turn, total, events), total, n)
<1> DEFINE state == [kind |-> kind, turn |-> turn, usage |-> total, error |-> None]
<1>1. AsksModel(kind, turn, total, events) = [state |-> state, events |-> events, action |-> "call_model"]
  BY Zenon DEF AsksModel, Outcome, State
<1>2. Spare(state) = (IF kind = "repairing" THEN 1 ELSE 0) /\ state.turn = turn
      /\ state.usage = total /\ state.kind = kind
  BY Zenon DEF Spare
<1> HIDE DEF state
<1> QED
  BY <1>1, <1>2 DEF Steps, Asks

\* What a step that runs tools, or hands off, yields.
LEMMA ActsSteps ==
  ASSUME NEW s, s.turn \in Nat, s.turn < MaxTurns, NEW total \in Nat,
         NEW events, IsSeq(events), NoTerminal(events), NEW n \in Nat, n <= s.turn + 1
  PROVE  /\ Steps(Outcome(State("executing", s.turn, total, None), events, "execute_tools"), total, n)
         /\ Steps(Outcome(State("handoff", s.turn, total, None), events, "handoff"), total, n)
  BY Zenon DEF Steps, Asks, Outcome, State

-----------------------------------------------------------------------------
(* Picking elements out of a list.                                           *)

INSTANCE WellFoundedInduction

\* A set of naturals that is not empty has a least element: what holds up to it and is
\* carried one step further holds throughout.
LEMMA Least ==
  ASSUME NEW T \in SUBSET Nat, T # {}
  PROVE  \E m \in T : \A k \in T : m <= k
<1>1. IsWellFoundedOn(OpToRel(<, Nat), Nat)
  BY NatLessThanWellFounded, Zenon
<1>2. PICK m \in T : \A y \in T : ~(<<y, m>> \in OpToRel(<, Nat))
  BY <1>1, WFMin, Zenon
<1>3. \A y \in T : ~(y < m)
  BY <1>2 DEF OpToRel
<1> QED
  BY <1>3

\* What a function has to satisfy to pick from s up to its n-th element.
Counts(f, s, P, n) ==
  f = [i \in 0 .. n |-> IF i = 0 THEN <<>> ELSE Grown(f[i - 1], s, P, i)]

\* There is one, so the recursion of Kept defines it.
LEMMA KeptCounts ==
  ASSUME NEW s, NEW P, Len(s) \in Nat
  PROVE  Counts(Kept(s, P), s, P, Len(s))
<1> DEFINE T == {n \in Nat : ~ \E f : Counts(f, s, P, n)}
<1>1. ASSUME T # {} PROVE FALSE
  <2>1. PICK m \in T : \A n \in T : m <= n
    BY <1>1, Least
  <2>2. CASE m = 0
    <3>1. Counts([i \in {0} |-> <<>>], s, P, 0)
      BY DEF Counts
    <3> QED
      BY <3>1, <2>2
  <2>3. CASE m # 0
    <3>1. m - 1 \in Nat /\ m - 1 \notin T
      BY <2>1, <2>3
    <3>2. PICK f : Counts(f, s, P, m - 1)
      BY <3>1
    <3> DEFINE g == [i \in 0 .. m |-> IF i < m THEN f[i] ELSE Grown(f[m - 1], s, P, m)]
    <3>3. Counts(g, s, P, m)
      BY <3>1, <3>2 DEF Counts
    <3> QED
      BY <3>3
  <2> QED
    BY <2>2, <2>3
<1>2. \E f : Counts(f, s, P, Len(s))
  BY <1>1
<1> QED
  BY <1>2 DEF Kept, Counts

\* One step of such a function.
LEMMA CountsAt ==
  ASSUME NEW f, NEW s, NEW P, NEW n \in Nat, Counts(f, s, P, n)
  PROVE  f[0] = <<>> /\ \A i \in 1 .. n : f[i] = Grown(f[i - 1], s, P, i)
BY DEF Counts

\* One step of Kept.
LEMMA KeptGrows ==
  ASSUME NEW s, NEW P, Len(s) \in Nat
  PROVE  /\ Kept(s, P)[0] = <<>>
         /\ \A i \in 1 .. Len(s) : Kept(s, P)[i] = Grown(Kept(s, P)[i - 1], s, P, i)
BY KeptCounts, CountsAt

\* What is picked is a list.
LEMMA KeptIsSeq ==
  ASSUME NEW s, NEW P, Len(s) \in Nat, NEW n \in 0 .. Len(s)
  PROVE  IsSeq(Kept(s, P)[n])
<1> DEFINE T == {i \in 0 .. Len(s) : ~ IsSeq(Kept(s, P)[i])}
<1>1. ASSUME T # {} PROVE FALSE
  <2>1. PICK m \in T : \A i \in T : m <= i
    <3>1. T \in SUBSET Nat
      OBVIOUS
    <3> QED
      BY <1>1, <3>1, Least
  <2>2. m # 0
    BY <2>1, KeptGrows DEF IsSeq
  <2>3. m - 1 \in 0 .. Len(s) /\ m - 1 \notin T /\ m \in 1 .. Len(s)
    BY <2>1, <2>2
  <2>4. IsSeq(Kept(s, P)[m - 1])
    BY <2>3, Zenon
  <2>5. Kept(s, P)[m] = Grown(Kept(s, P)[m - 1], s, P, m)
    BY <2>3, KeptGrows, Zenon
  <2>6. IsSeq(Kept(s, P)[m])
    BY <2>4, <2>5, AppendIsSeq, Zenon DEF Grown
  <2> QED
    BY <2>1, <2>6, Zenon
<1> QED
  BY <1>1, Zenon

\* So is what is picked from all of it.
LEMMA PickedIsSeq ==
  ASSUME NEW s, NEW P, IsSeq(s)
  PROVE  IsSeq(ElementsAt(s, P))
<1>1. Len(s) \in Nat /\ Len(s) \in 0 .. Len(s)
  BY DEF IsSeq
<1> QED
  BY <1>1, KeptIsSeq, Zenon DEF ElementsAt

-----------------------------------------------------------------------------
(* What a step of the machine yields.                                         *)

\* Whatever the driver hands the machine where it expects it, the step ends the run with
\* one terminal event, the last, or asks for work within the bounds and keeps the total.
LEMMA TransitionRight ==
  ASSUME NEW plan, NEW s, NEW in, Expects(s, in), NEW n \in Nat, Made(s, in, n)
  PROVE  Steps(Transition(plan, s, in), s.usage + in.usage, n)
<1>0. /\ s.turn \in Nat /\ s.usage \in Nat /\ in.usage \in Nat /\ IsSeq(in.calls)
      /\ MaxTurns \in Nat /\ s.usage + in.usage \in Nat
      /\ IsSeq(<<>>) /\ NoTerminal(<<>>) /\ IsSeq(MessageOutput(in)) /\ NoTerminal(MessageOutput(in))
      /\ in.kind # "start" => n <= s.turn + 1 + Spare(s)
  <2>1. IsSeq(<<>>) /\ NoTerminal(<<>>)
    BY DEF IsSeq, NoTerminal
  <2>2. /\ s.turn \in Nat /\ s.usage \in Nat /\ in.usage \in Nat /\ IsSeq(in.calls)
        /\ in.kind # "start" => n <= s.turn + 1 + Spare(s)
    BY Zenon DEF Expects, Made
  <2>3. s.usage + in.usage \in Nat
    BY <2>2
  <2> QED
    BY <2>1, <2>2, <2>3, MaxTurnsAssumption, Announced, Zenon
<1> DEFINE total == s.usage + in.usage
<1>1. \A e : ~ IsTerminal(e) => /\ IsSeq(Append(MessageOutput(in), e))
                                /\ NoTerminal(Append(MessageOutput(in), e))
  BY <1>0, AppendIsSeq, StaysOpen, Zenon
<1>2. \A t : /\ ~ IsTerminal(Ev("turn_started", t)) /\ ~ IsTerminal(Ev("repair_started", t))
             /\ ~ IsTerminal(Ev("structured_output_failed", t))
  BY Zenon DEF IsTerminal, Ev
<1>3. CASE s.kind = "calling" /\ s.turn >= MaxTurns
  <2>1. Transition(plan, s, in) = Fails(s, "max_turns", <<>>)
    BY <1>0, <1>3, SMTT(30) DEF Transition
  <2> QED
    BY <1>0, <2>1, FailsEnds, Zenon DEF None
<1>4. CASE s.kind = "calling" /\ s.turn < MaxTurns /\ in.kind = "start"
  <2>1. Transition(plan, s, in) = OnStart(plan, s)
    BY <1>0, <1>4 DEF Transition
  <2>2. IsSeq(<<Ev("turn_started", s.turn)>>) /\ NoTerminal(<<Ev("turn_started", s.turn)>>)
    BY <1>2 DEF IsSeq, NoTerminal
  <2>3. n = 0 /\ total = s.usage /\ s.turn + 0 \in Nat
    BY <1>0, <1>4 DEF Expects, Made
  <2> QED
    BY <1>0, <1>4, <2>1, <2>2, <2>3, AsksSteps DEF OnStart
<1>5. CASE s.kind = "calling" /\ s.turn < MaxTurns /\ in.kind = "response"
  <2>1. Transition(plan, s, in) = IF in.calls # <<>> THEN OnToolCalls(plan, s, in)
                                  ELSE OnAnswer(plan, s, in)
    BY <1>0, <1>5 DEF Transition
  <2>2. n <= s.turn + 1
    BY <1>0, <1>5 DEF Spare
  <2>3. CASE in.calls # <<>>
    <3> DEFINE transfers == {i \in DOMAIN in.calls : IsTransfer(plan, in.calls[i])}
               named == ElementsAt(in.calls, transfers)
    <3>1. Len(named) \in Nat /\ Len(in.calls) \in Nat
      BY <1>0, PickedIsSeq, Zenon DEF IsSeq
    <3>2. /\ IsSeq(CallEvents(plan, named)) /\ NoTerminal(CallEvents(plan, named))
          /\ IsSeq(CallEvents(plan, in.calls)) /\ NoTerminal(CallEvents(plan, in.calls))
      BY <3>1, Announced, Zenon
    <3>3. /\ IsSeq(MessageOutput(in) \o CallEvents(plan, named))
          /\ NoTerminal(MessageOutput(in) \o CallEvents(plan, named))
          /\ IsSeq(MessageOutput(in) \o CallEvents(plan, in.calls))
          /\ NoTerminal(MessageOutput(in) \o CallEvents(plan, in.calls))
      BY <1>0, <3>2, JoinOpen, Zenon
    <3>4. OnToolCalls(plan, s, in) =
            IF transfers # {}
              THEN Outcome(State("handoff", s.turn, total, None),
                           MessageOutput(in) \o CallEvents(plan, named), "handoff")
              ELSE Outcome(State("executing", s.turn, total, None),
                           MessageOutput(in) \o CallEvents(plan, in.calls), "execute_tools")
      BY Zenon DEF OnToolCalls
    <3> HIDE DEF transfers, named
    <3> QED
      BY <1>0, <1>5, <2>2, <2>1, <2>3, <3>3, <3>4, ActsSteps, Zenon
  <2>4. CASE in.calls = <<>>
    <3>1. CASE plan.output
      <4>1. OnAnswer(plan, s, in) = AsksModel("finalizing", s.turn + 1, total,
                                      Append(MessageOutput(in), Ev("turn_started", s.turn + 1)))
        BY <3>1, Zenon DEF OnAnswer
      <4>2. s.turn + 1 \in Nat /\ s.turn + 1 <= MaxTurns /\ n <= s.turn + 1 + 0
        BY <1>0, <1>5, <2>2
      <4> HIDE DEF total
      <4> QED
        BY <1>0, <1>1, <1>2, <2>1, <2>4, <4>1, <4>2, AsksSteps, Zenon DEF total
    <3>2. CASE ~ plan.output
      BY <1>0, <2>1, <2>4, <3>2, CompletesEnds, Zenon DEF OnAnswer
    <3> QED
      BY <3>1, <3>2, Zenon
  <2> QED
    BY <2>3, <2>4, Zenon
<1>6. CASE s.kind = "executing" /\ in.kind = "results"
  <2>1. Transition(plan, s, in) = OnToolResults(s, in)
    BY <1>0, <1>6, Zenon DEF Transition
  <2> DEFINE outputs == [i \in 1 .. Len(in.calls) |-> Ev("output", in.calls[i].id)]
  <2>2. IsSeq(outputs) /\ NoTerminal(outputs)
    <3>1. Len(in.calls) \in Nat /\ outputs = [i \in 1 .. Len(in.calls) |-> outputs[i]]
      BY <1>0, Zenon DEF IsSeq
    <3>2. \A i \in 1 .. Len(in.calls) : ~ IsTerminal(outputs[i])
      BY Zenon DEF IsTerminal, Ev
    <3> HIDE DEF outputs
    <3> QED
      BY <3>1, <3>2, ListIsSeq, Zenon DEF NoTerminal
  <2>3. OnToolResults(s, in) =
          IF s.turn + 1 >= MaxTurns THEN Fails(s, "max_turns", outputs)
          ELSE AsksModel("calling", s.turn + 1, s.usage, Append(outputs, Ev("turn_started", s.turn + 1)))
    BY Zenon DEF OnToolResults
  <2> HIDE DEF outputs
  <2>4. CASE s.turn + 1 >= MaxTurns
    BY <1>0, <2>1, <2>2, <2>3, <2>4, FailsEnds, Zenon DEF None
  <2>5. CASE ~ (s.turn + 1 >= MaxTurns)
    <3>1. /\ IsSeq(Append(outputs, Ev("turn_started", s.turn + 1)))
          /\ NoTerminal(Append(outputs, Ev("turn_started", s.turn + 1)))
      BY <1>2, <2>2, AppendIsSeq, StaysOpen, ZenonT(40)
    <3>2. /\ s.turn + 1 \in Nat /\ s.turn + 1 <= MaxTurns /\ s.turn + 1 < MaxTurns
          /\ n <= s.turn + 1 + 0 /\ total = s.usage
      BY <1>0, <1>6, <2>5 DEF Spare, Expects
    <3> HIDE DEF total
    <3> QED
      BY <1>0, <2>1, <2>3, <2>5, <3>1, <3>2, AsksSteps, Zenon DEF total
  <2> QED
    BY <2>4, <2>5, Zenon
<1>7. CASE s.kind = "finalizing" /\ in.kind = "response"
  <2>1. Transition(plan, s, in) = OnFinalAnswer(s, in)
    BY <1>0, <1>7, Zenon DEF Transition
  <2>2. CASE Validates(in)
    BY <1>0, <2>1, <2>2, CompletesEnds, Zenon DEF OnFinalAnswer
  <2>3. CASE ~ Validates(in)
    <3>1. OnFinalAnswer(s, in) = AsksModel("repairing", s.turn, total,
                                           Append(MessageOutput(in), Ev("repair_started", 1)))
      BY <2>3, Zenon DEF OnFinalAnswer
    <3>2. s.turn <= MaxTurns /\ n <= s.turn + 1
      BY <1>0, <1>7 DEF Spare, Expects
    <3> HIDE DEF total
    <3> QED
      BY <1>0, <1>1, <1>2, <2>1, <3>1, <3>2, AsksSteps, Zenon DEF total
  <2> QED
    BY <2>2, <2>3, Zenon
<1>8. CASE s.kind = "repairing" /\ in.kind = "response"
  <2>1. Transition(plan, s, in) = OnRepair(s, in)
    BY <1>0, <1>8, Zenon DEF Transition
  <2>2. CASE Validates(in)
    BY <1>0, <2>1, <2>2, CompletesEnds, Zenon DEF OnRepair
  <2>3. CASE ~ Validates(in)
    <3>1. OnRepair(s, in) = Fails(s, "structured_output",
                                  Append(MessageOutput(in), Ev("structured_output_failed", 0)))
      BY <2>3, Zenon DEF OnRepair
    <3> QED
      BY <1>0, <1>1, <1>2, <2>1, <3>1, FailsEnds, Zenon DEF None
  <2> QED
    BY <2>2, <2>3, Zenon
<1> QED
  BY <1>0, <1>3, <1>4, <1>5, <1>6, <1>7, <1>8, SMTT(30) DEF Expects

-----------------------------------------------------------------------------
(* Lists, whatever they hold.                                                *)

\* Two lists with the same elements are the same.
LEMMA SameList ==
  ASSUME NEW s, NEW t, IsSeq(s), IsSeq(t), Len(s) = Len(t), \A i \in 1 .. Len(s) : s[i] = t[i]
  PROVE  s = t
<1>1. s = [i \in 1 .. Len(s) |-> s[i]] /\ t = [i \in 1 .. Len(s) |-> t[i]]
  BY Zenon DEF IsSeq
<1>2. [i \in 1 .. Len(s) |-> s[i]] = [i \in 1 .. Len(s) |-> t[i]]
  BY Zenon
<1> QED
  BY <1>1, <1>2, Zenon

\* The lists of no and of one element.
LEMMA ShortLists == IsSeq(<<>>) /\ Len(<<>>) = 0 /\ \A e : IsSeq(<<e>>) /\ Len(<<e>>) = 1 /\ <<e>>[1] = e
  BY DEF IsSeq

\* A list without elements is the empty one.
LEMMA EmptyList == ASSUME NEW s, IsSeq(s), Len(s) = 0 PROVE s = <<>>
<1>1. \A i \in 1 .. Len(s) : s[i] = <<>>[i]
  OBVIOUS
<1> QED
  BY <1>1, ShortLists, SameList, Zenon

\* Concatenation under a name of its own: the provers would replace it by its definition.
Joined(s, t) == s \o t

\* It gives lists.
LEMMA JoinedIsSeq == ASSUME NEW s, NEW t, IsSeq(s), IsSeq(t) PROVE IsSeq(Joined(s, t))
  BY ConcatIsSeq, Zenon DEF Joined

\* The empty list is its unit.
LEMMA Unit ==
  ASSUME NEW s, IsSeq(s) PROVE Joined(s, <<>>) = s /\ Joined(<<>>, s) = s
<1>0. Len(s) \in Nat /\ IsSeq(<<>>) /\ Len(<<>>) = 0
  BY ShortLists, Zenon DEF IsSeq
<1>1. s \o <<>> = s
  <2> DEFINE l == s \o <<>>
  <2>1. /\ IsSeq(l) /\ Len(l) = Len(s) + Len(<<>>)
        /\ \A i \in 1 .. Len(s) + Len(<<>>) : l[i] = IF i <= Len(s) THEN s[i] ELSE <<>>[i - Len(s)]
    BY <1>0, ConcatIsSeq, Zenon
  <2> HIDE DEF l
  <2>2. Len(l) = Len(s) /\ \A i \in 1 .. Len(l) : l[i] = s[i]
    BY <1>0, <2>1
  <2>3. l = s
    BY <2>1, <2>2, SameList, Zenon
  <2> QED
    BY <2>3, Zenon DEF l
<1>2. <<>> \o s = s
  <2> DEFINE l == <<>> \o s
  <2>1. /\ IsSeq(l) /\ Len(l) = Len(<<>>) + Len(s)
        /\ \A i \in 1 .. Len(<<>>) + Len(s) : l[i] = IF i <= Len(<<>>) THEN <<>>[i] ELSE s[i - Len(<<>>)]
    BY <1>0, ConcatIsSeq, Zenon
  <2> HIDE DEF l
  <2>2. Len(l) = Len(s) /\ \A i \in 1 .. Len(l) : l[i] = s[i]
    BY <1>0, <2>1
  <2>3. l = s
    BY <2>1, <2>2, SameList, Zenon
  <2> QED
    BY <2>3, Zenon DEF l
<1> QED
  BY <1>1, <1>2, Zenon DEF Joined

\* Concatenation associates.
LEMMA Associates ==
  ASSUME NEW s, NEW t, NEW u, IsSeq(s), IsSeq(t), IsSeq(u)
  PROVE  Joined(Joined(s, t), u) = Joined(s, Joined(t, u))
<1> DEFINE st == s \o t
           tu == t \o u
           l == st \o u
           r == s \o tu
<1>0. Len(s) \in Nat /\ Len(t) \in Nat /\ Len(u) \in Nat
  BY Zenon DEF IsSeq
<1>1. /\ IsSeq(st) /\ Len(st) = Len(s) + Len(t)
      /\ \A i \in 1 .. Len(s) + Len(t) : st[i] = IF i <= Len(s) THEN s[i] ELSE t[i - Len(s)]
  BY ConcatIsSeq, Zenon
<1>2. /\ IsSeq(tu) /\ Len(tu) = Len(t) + Len(u)
      /\ \A i \in 1 .. Len(t) + Len(u) : tu[i] = IF i <= Len(t) THEN t[i] ELSE u[i - Len(t)]
  BY ConcatIsSeq, Zenon
<1> HIDE DEF st, tu
<1>3. /\ IsSeq(l) /\ Len(l) = Len(st) + Len(u)
      /\ \A i \in 1 .. Len(st) + Len(u) : l[i] = IF i <= Len(st) THEN st[i] ELSE u[i - Len(st)]
  BY <1>1, ConcatIsSeq, Zenon
<1>4. /\ IsSeq(r) /\ Len(r) = Len(s) + Len(tu)
      /\ \A i \in 1 .. Len(s) + Len(tu) : r[i] = IF i <= Len(s) THEN s[i] ELSE tu[i - Len(s)]
  BY <1>2, ConcatIsSeq, Zenon
<1> HIDE DEF l, r
<1>5. Len(l) = Len(r)
  BY <1>0, <1>1, <1>2, <1>3, <1>4
<1>6. ASSUME NEW i \in 1 .. Len(l) PROVE l[i] = r[i]
  <2>0. i \in Nat /\ i >= 1 /\ i <= Len(s) + Len(t) + Len(u)
    BY <1>0, <1>1, <1>3
  <2>1. CASE i <= Len(s)
    BY <1>0, <1>1, <1>2, <1>3, <1>4, <2>0, <2>1
  <2>2. CASE i > Len(s) /\ i <= Len(s) + Len(t)
    <3>1. l[i] = st[i] /\ st[i] = t[i - Len(s)]
      BY <1>0, <1>1, <1>3, <2>0, <2>2
    <3>2. r[i] = tu[i - Len(s)]
      BY <1>0, <1>2, <1>4, <2>0, <2>2
    <3>3. i - Len(s) \in 1 .. Len(t) + Len(u) /\ i - Len(s) <= Len(t)
      BY <1>0, <2>0, <2>2
    <3> QED
      BY <1>2, <3>1, <3>2, <3>3
  <2>3. CASE i > Len(s) + Len(t)
    <3>1. l[i] = u[i - (Len(s) + Len(t))]
      BY <1>0, <1>1, <1>3, <2>0, <2>3
    <3>2. r[i] = tu[i - Len(s)]
      BY <1>0, <1>2, <1>4, <2>0, <2>3
    <3>3. i - Len(s) \in 1 .. Len(t) + Len(u) /\ ~(i - Len(s) <= Len(t))
          /\ i - Len(s) - Len(t) = i - (Len(s) + Len(t))
      BY <1>0, <2>0, <2>3
    <3> QED
      BY <1>2, <3>1, <3>2, <3>3
  <2> QED
    BY <1>0, <2>0, <2>1, <2>2, <2>3
<1>7. l = r
  BY <1>3, <1>4, <1>5, <1>6, SameList, Zenon
<1> QED
  BY <1>7, Zenon DEF l, r, st, tu, Joined

\* Append is concatenation with a list of one, Tail takes it off.
LEMMA OneMore ==
  ASSUME NEW s, IsSeq(s)
  PROVE  /\ \A e : Append(s, e) = Joined(s, <<e>>)
         /\ s # <<>> => s = Joined(<<Head(s)>>, Tail(s))
<1>0. Len(s) \in Nat
  BY Zenon DEF IsSeq
<1>1. ASSUME NEW e PROVE Append(s, e) = s \o <<e>>
  <2> DEFINE a == Append(s, e)
             one == <<e>>
             c == s \o one
  <2>0. IsSeq(one) /\ Len(one) = 1 /\ one[1] = e
    BY ShortLists, Zenon
  <2> HIDE DEF one
  <2>1. /\ IsSeq(a) /\ Len(a) = Len(s) + 1
        /\ a[Len(s) + 1] = e /\ \A i \in 1 .. Len(s) : a[i] = s[i]
    BY AppendIsSeq
  <2>2. /\ IsSeq(c) /\ Len(c) = Len(s) + Len(one)
        /\ \A i \in 1 .. Len(s) + Len(one) : c[i] = IF i <= Len(s) THEN s[i] ELSE one[i - Len(s)]
    BY <2>0, ConcatIsSeq, Zenon
  <2> HIDE DEF a, c
  <2>3. Len(a) = Len(c) /\ \A i \in 1 .. Len(a) : a[i] = c[i]
    BY <1>0, <2>0, <2>1, <2>2
  <2>4. a = c
    BY <2>1, <2>2, <2>3, SameList, Zenon
  <2> QED
    BY <2>4, Zenon DEF a, c, one
<1>2. ASSUME s # <<>> PROVE s = <<Head(s)>> \o Tail(s)
  <2> DEFINE one == <<Head(s)>>
             t == Tail(s)
             c == one \o t
  <2>0. IsSeq(one) /\ Len(one) = 1 /\ one[1] = Head(s)
    BY ShortLists, Zenon
  <2> HIDE DEF one
  <2>1. /\ Len(s) >= 1 /\ IsSeq(t) /\ Len(t) = Len(s) - 1 /\ Head(s) = s[1]
        /\ \A i \in 1 .. Len(s) - 1 : t[i] = s[i + 1]
    BY <1>2, TailIsSeq, Zenon
  <2> HIDE DEF t
  <2>2. /\ IsSeq(c) /\ Len(c) = Len(one) + Len(t)
        /\ \A i \in 1 .. Len(one) + Len(t) : c[i] = IF i <= Len(one) THEN one[i] ELSE t[i - Len(one)]
    BY <2>0, <2>1, ConcatIsSeq, Zenon
  <2> HIDE DEF c
  <2>3. Len(s) = Len(c) /\ \A i \in 1 .. Len(s) : s[i] = c[i]
    BY <1>0, <2>0, <2>1, <2>2
  <2>4. s = c
    BY <2>2, <2>3, SameList, Zenon
  <2> QED
    BY <2>4, Zenon DEF c, one, t
<1> QED
  BY <1>1, <1>2, Zenon DEF Joined

-----------------------------------------------------------------------------
(* Picking elements out of a list.                                           *)

\* A list whose elements are all picked.
LEMMA KeptAll ==
  ASSUME NEW s, NEW P, IsSeq(s), \A i \in 1 .. Len(s) : i \in P, NEW n \in 0 .. Len(s)
  PROVE  Kept(s, P)[n] = [i \in 1 .. n |-> s[i]]
<1>0. Len(s) \in Nat
  BY Zenon DEF IsSeq
<1> DEFINE first(n_1) == [i \in 1 .. n_1 |-> s[i]]
           T == {i \in 0 .. Len(s) : Kept(s, P)[i] # first(i)}
<1>1. ASSUME T # {} PROVE FALSE
  <2>1. PICK m \in T : \A i \in T : m <= i
    <3>1. T \in SUBSET Nat
      BY <1>0
    <3> QED
      BY <1>1, <3>1, Least
  <2>2. m # 0
    <3>1. first(0) = <<>>
      OBVIOUS
    <3> QED
      BY <1>0, <2>1, <3>1, KeptGrows
  <2>3. m - 1 \in 0 .. Len(s) /\ m - 1 \notin T /\ m \in 1 .. Len(s) /\ m - 1 \in Nat
    BY <1>0, <2>1, <2>2
  <2>4. Kept(s, P)[m - 1] = first(m - 1)
    BY <2>3, Zenon
  <2>5. Kept(s, P)[m] = Append(first(m - 1), s[m])
    <3>1. Kept(s, P)[m] = Grown(Kept(s, P)[m - 1], s, P, m)
      <4>1. m \in 1 .. Len(s)
        BY <2>3, Zenon
      <4> HIDE DEF T, first
      <4> QED
        BY <1>0, <4>1, KeptGrows, Zenon
    <3>2. m \in P
      BY <2>3, Zenon
    <3> HIDE DEF first
    <3> QED
      BY <2>4, <3>1, <3>2, Zenon DEF Grown
  <2>6. IsSeq(first(m - 1)) /\ Len(first(m - 1)) = m - 1
    <3> DEFINE f == first(m - 1)
    <3>1. f = [i \in 1 .. m - 1 |-> f[i]]
      BY Zenon
    <3> HIDE DEF f
    <3>2. IsSeq(f) /\ Len(f) = m - 1
      BY <2>3, <3>1, ListIsSeq, Zenon
    <3> QED
      BY <3>2, Zenon DEF f
  <2>7. Append(first(m - 1), s[m]) = first(m)
    <3> DEFINE a == Append(first(m - 1), s[m])
    <3>1. /\ IsSeq(a) /\ Len(a) = m - 1 + 1 /\ a[m - 1 + 1] = s[m]
          /\ \A i \in 1 .. m - 1 : a[i] = first(m - 1)[i]
      <4> DEFINE f == first(m - 1)
      <4>1. IsSeq(f) /\ Len(f) = m - 1
        BY <2>6, Zenon
      <4> HIDE DEF f, T
      <4>2. /\ IsSeq(Append(f, s[m])) /\ Len(Append(f, s[m])) = Len(f) + 1 /\ Append(f, s[m])[Len(f) + 1] = s[m]
            /\ \A i \in 1 .. Len(f) : Append(f, s[m])[i] = f[i]
        BY <4>1, AppendIsSeq
      <4> QED
        BY <4>1, <4>2, Zenon DEF f
    <3>2. \A i \in 1 .. m - 1 : first(m - 1)[i] = s[i]
      BY Zenon
    <3> HIDE DEF a
    <3>3. Len(a) = m /\ \A i \in 1 .. m : a[i] = s[i]
      BY <2>3, <3>1, <3>2
    <3>4. a = [i \in 1 .. m |-> a[i]]
      BY <3>1, <3>3, Zenon DEF IsSeq
    <3>5. a = first(m)
      BY <3>3, <3>4, Zenon
    <3> QED
      BY <3>5, Zenon DEF a
  <2> QED
    BY <2>1, <2>5, <2>7, Zenon
<1> QED
  BY <1>1, Zenon

\* Only the common part of two lists counts.
LEMMA KeptSame ==
  ASSUME NEW s, NEW t, NEW P, NEW Q, Len(s) \in Nat, Len(t) \in Nat,
         NEW n \in Nat, n <= Len(s), n <= Len(t),
         \A i \in 1 .. n : s[i] = t[i] /\ (i \in P <=> i \in Q)
  PROVE  Kept(s, P)[n] = Kept(t, Q)[n]
<1> DEFINE T == {i \in 0 .. n : Kept(s, P)[i] # Kept(t, Q)[i]}
<1>1. ASSUME T # {} PROVE FALSE
  <2>1. PICK m \in T : \A i \in T : m <= i
    <3>1. T \in SUBSET Nat
      OBVIOUS
    <3> QED
      BY <1>1, <3>1, Least
  <2>2. m # 0
    BY KeptGrows
  <2>3. m - 1 \in 0 .. n /\ m - 1 \notin T /\ m \in 1 .. n
    BY <2>1, <2>2
  <2>4. Kept(s, P)[m - 1] = Kept(t, Q)[m - 1]
    BY <2>3
  <2>5. Kept(s, P)[m] = Kept(t, Q)[m]
    <3>1. /\ Kept(s, P)[m] = Grown(Kept(s, P)[m - 1], s, P, m)
          /\ Kept(t, Q)[m] = Grown(Kept(t, Q)[m - 1], t, Q, m)
      BY <2>3, KeptGrows
    <3>2. s[m] = t[m] /\ (m \in P <=> m \in Q)
      BY <2>3
    <3> QED
      BY <2>4, <3>1, <3>2, Zenon DEF Grown
  <2> QED
    BY <2>1, <2>5
<1> QED
  BY <1>1

\* Positions R of a list of m and n elements are P of the first and Q of the second part.
Splits(R, P, Q, m, n) ==
  /\ \A i \in 1 .. m : i \in R <=> i \in P
  /\ \A i \in 1 .. n : m + i \in R <=> i \in Q

\* Picking from two lists one after the other.
LEMMA KeptConcat ==
  ASSUME NEW s, NEW t, NEW P, NEW Q, NEW R, IsSeq(s), IsSeq(t), Splits(R, P, Q, Len(s), Len(t)),
         NEW n \in 0 .. Len(t)
  PROVE  Kept(Joined(s, t), R)[Len(s) + n] = Joined(Kept(s, P)[Len(s)], Kept(t, Q)[n])
<1> DEFINE c == s \o t
           a == Kept(s, P)[Len(s)]
           T == {i \in 0 .. Len(t) : Kept(c, R)[Len(s) + i] # a \o Kept(t, Q)[i]}
<1>0. Len(s) \in Nat /\ Len(t) \in Nat /\ Len(s) \in 0 .. Len(s)
  BY DEF IsSeq
<1>1. /\ IsSeq(c) /\ Len(c) = Len(s) + Len(t)
      /\ \A i \in 1 .. Len(s) + Len(t) : c[i] = IF i <= Len(s) THEN s[i] ELSE t[i - Len(s)]
  BY ConcatIsSeq, Zenon
<1>2. IsSeq(a)
  BY <1>0, KeptIsSeq, Zenon
<1> HIDE DEF c, a
<1>3. Kept(c, R)[Len(s)] = a
  <2>1. /\ Len(c) \in Nat /\ Len(s) <= Len(s) /\ Len(s) <= Len(c)
        /\ \A i \in 1 .. Len(s) : c[i] = s[i]
    BY <1>0, <1>1
  <2>2. \A i \in 1 .. Len(s) : c[i] = s[i] /\ (i \in R <=> i \in P)
    BY <2>1, Zenon DEF Splits
  <2> HIDE DEF T
  <2>3. Kept(c, R)[Len(s)] = Kept(s, P)[Len(s)]
    BY <1>0, <2>1, <2>2, KeptSame
  <2> QED
    BY <2>3, Zenon DEF a
<1>4. ASSUME T # {} PROVE FALSE
  <2>1. PICK m \in T : \A i \in T : m <= i
    <3>1. T \in SUBSET Nat
      BY <1>0
    <3> QED
      BY <1>4, <3>1, Least
  <2>2. m # 0
    <3>1. Kept(t, Q)[0] = <<>>
      BY <1>0, KeptGrows, Zenon
    <3>2. a \o <<>> = a
      BY <1>2, Unit, Zenon DEF Joined
    <3>3. Kept(c, R)[Len(s) + 0] = a
      BY <1>0, <1>3
    <3> QED
      BY <2>1, <3>1, <3>2, <3>3
  <2>3. m - 1 \in 0 .. Len(t) /\ m - 1 \notin T /\ m \in 1 .. Len(t) /\ m \in Nat
    <3>1. m \in 0 .. Len(t) /\ Len(t) \in Nat
      BY <1>0, <2>1, Zenon
    <3> HIDE DEF T
    <3>2. m - 1 \in 0 .. Len(t) /\ m \in 1 .. Len(t) /\ m \in Nat /\ ~(m <= m - 1)
      BY <2>2, <3>1
    <3> QED
      BY <2>1, <3>2, Zenon
  <2> DEFINE b == Kept(t, Q)[m - 1]
             k == Kept(c, R)[Len(s) + (m - 1)]
  <2>4. k = a \o b
    BY <2>3, Zenon
  <2>5. /\ Len(s) + m \in 1 .. Len(c) /\ Len(s) + m - 1 = Len(s) + (m - 1)
        /\ c[Len(s) + m] = t[m]
    <3>1. m \in 1 .. Len(t) /\ m \in Nat
      BY <2>3, Zenon
    <3> HIDE DEF T
    <3> DEFINE j == Len(s) + m
    <3>2. j \in 1 .. Len(s) + Len(t) /\ ~(j <= Len(s)) /\ j - Len(s) = m /\ j - 1 = Len(s) + (m - 1)
      BY <1>0, <3>1
    <3> HIDE DEF j
    <3>3. c[j] = t[j - Len(s)]
      BY <1>1, <3>2, Zenon
    <3> QED
      BY <1>1, <3>2, <3>3, Zenon DEF j
  <2>6. Kept(c, R)[Len(s) + m] = Grown(Kept(c, R)[Len(s) + m - 1], c, R, Len(s) + m)
    <3>1. Len(c) \in Nat
      BY <1>1, Zenon DEF IsSeq
    <3> QED
      BY <2>5, <3>1, KeptGrows
  <2>7. Kept(t, Q)[m] = Grown(b, t, Q, m)
    BY <1>0, <2>3, KeptGrows, Zenon
  <2>8. IsSeq(b)
    BY <1>0, <2>3, KeptIsSeq, Zenon
  <2>9. Len(s) + m \in R <=> m \in Q
    BY <2>3, Zenon DEF Splits
  <2>10. Kept(c, R)[Len(s) + m] = Grown(k, c, R, Len(s) + m)
    BY <2>5, <2>6, Zenon
  <2> HIDE DEF T, b, k
  <2>11. Append(k, t[m]) = a \o Append(b, t[m])
    <3> DEFINE one == <<t[m]>>
    <3>1. IsSeq(k) /\ IsSeq(one)
      BY <1>2, <2>4, <2>8, ConcatIsSeq, ShortLists, Zenon
    <3>2. Append(k, t[m]) = k \o one /\ Append(b, t[m]) = b \o one
      BY <2>8, <3>1, OneMore, Zenon DEF Joined
    <3> HIDE DEF one
    <3>3. Joined(Joined(a, b), one) = Joined(a, Joined(b, one))
      BY <1>2, <2>8, <3>1, Associates
    <3> QED
      BY <2>4, <3>2, <3>3, Zenon DEF Joined
  <2>12. Kept(c, R)[Len(s) + m] = a \o Kept(t, Q)[m]
    <3>1. CASE m \in Q
      BY <2>5, <2>7, <2>9, <2>10, <2>11, <3>1, Zenon DEF Grown
    <3>2. CASE m \notin Q
      BY <2>4, <2>7, <2>9, <2>10, <3>2, Zenon DEF Grown
    <3> QED
      BY <3>1, <3>2, Zenon
  <2> QED
    BY <2>1, <2>12, Zenon DEF T
<1>5. Kept(c, R)[Len(s) + n] = a \o Kept(t, Q)[n]
  BY <1>4, Zenon
<1> QED
  BY <1>5, Zenon DEF c, a, Joined

\* A list none of whose elements is picked.
LEMMA KeptNone ==
  ASSUME NEW s, NEW P, IsSeq(s), \A i \in 1 .. Len(s) : i \notin P, NEW n \in 0 .. Len(s)
  PROVE  Kept(s, P)[n] = <<>>
<1>0. Len(s) \in Nat
  BY Zenon DEF IsSeq
<1> DEFINE T == {i \in 0 .. Len(s) : Kept(s, P)[i] # <<>>}
<1>1. ASSUME T # {} PROVE FALSE
  <2>1. PICK m \in T : \A i \in T : m <= i
    <3>1. T \in SUBSET Nat
      BY <1>0
    <3> QED
      BY <1>1, <3>1, Least
  <2>2. m # 0
    BY <1>0, <2>1, KeptGrows
  <2>3. m - 1 \in 0 .. Len(s) /\ m - 1 \notin T /\ m \in 1 .. Len(s)
    BY <1>0, <2>1, <2>2
  <2>4. Kept(s, P)[m - 1] = <<>> /\ m \notin P
    BY <2>3, Zenon
  <2>5. Kept(s, P)[m] = Grown(Kept(s, P)[m - 1], s, P, m)
    <3>1. m \in 1 .. Len(s)
      BY <2>3, Zenon
    <3> HIDE DEF T
    <3> QED
      BY <1>0, <3>1, KeptGrows, Zenon
  <2> QED
    BY <2>1, <2>4, <2>5, Zenon DEF Grown
<1> QED
  BY <1>1, Zenon

\* The same of the whole lists.
LEMMA AllOrNone ==
  ASSUME NEW s, IsSeq(s), NEW P
  PROVE  /\ (\A i \in 1 .. Len(s) : i \in P) => ElementsAt(s, P) = s
         /\ (\A i \in 1 .. Len(s) : i \notin P) => ElementsAt(s, P) = <<>>
<1>0. Len(s) \in Nat /\ Len(s) \in 0 .. Len(s) /\ s = [i \in 1 .. Len(s) |-> s[i]]
  BY DEF IsSeq
<1>1. ASSUME \A i \in 1 .. Len(s) : i \in P PROVE ElementsAt(s, P) = s
  <2>1. Kept(s, P)[Len(s)] = [i \in 1 .. Len(s) |-> s[i]]
    BY <1>0, <1>1, KeptAll
  <2> QED
    BY <1>0, <2>1, Zenon DEF ElementsAt
<1>2. ASSUME \A i \in 1 .. Len(s) : i \notin P PROVE ElementsAt(s, P) = <<>>
  BY <1>0, <1>2, KeptNone, Zenon DEF ElementsAt
<1> QED
  BY <1>1, <1>2, Zenon

\* Picking from a concatenation.
LEMMA PickedConcat ==
  ASSUME NEW s, NEW t, NEW P, NEW Q, NEW R, IsSeq(s), IsSeq(t), Splits(R, P, Q, Len(s), Len(t))
  PROVE  ElementsAt(Joined(s, t), R) = Joined(ElementsAt(s, P), ElementsAt(t, Q))
<1>1. Len(t) \in 0 .. Len(t)
  BY DEF IsSeq
<1>2. Kept(Joined(s, t), R)[Len(s) + Len(t)] = Joined(Kept(s, P)[Len(s)], Kept(t, Q)[Len(t)])
  BY <1>1, KeptConcat
<1>3. Len(Joined(s, t)) = Len(s) + Len(t)
  BY ConcatIsSeq, Zenon DEF Joined
<1> QED
  BY <1>2, <1>3, Zenon DEF ElementsAt

\* One field of the elements of a list, and where those of one kind stand.
All(s, field) == [i \in DOMAIN s |-> s[i][field]]
OfKind(s, kind) == {i \in DOMAIN s : s[i].kind = kind}

\* How Fields comes about.
Listed(s, kind, field) ==
  /\ IsSeq(All(s, field)) /\ Len(All(s, field)) = Len(s)
  /\ \A i \in 1 .. Len(s) : All(s, field)[i] = s[i][field]
  /\ \A i \in 1 .. Len(s) : i \in OfKind(s, kind) <=> s[i].kind = kind
  /\ Fields(s, kind, field) = ElementsAt(All(s, field), OfKind(s, kind))
  /\ IsSeq(Fields(s, kind, field))

\* It does so for every list.
LEMMA FieldLists ==
  ASSUME NEW s, IsSeq(s), NEW kind, NEW field
  PROVE  Listed(s, kind, field)
<1>1. DOMAIN s = 1 .. Len(s) /\ Len(s) \in Nat
  BY Zenon DEF IsSeq
<1> DEFINE v == All(s, field)
<1>2. v = [i \in 1 .. Len(s) |-> s[i][field]]
  BY <1>1, Zenon DEF All
<1> HIDE DEF v
<1>3. v = [i \in 1 .. Len(s) |-> v[i]] /\ \A i \in 1 .. Len(s) : v[i] = s[i][field]
  BY <1>2, Zenon
<1>4. IsSeq(v) /\ Len(v) = Len(s)
  BY <1>1, <1>3, ListIsSeq, Zenon
<1>5. Fields(s, kind, field) = ElementsAt(v, OfKind(s, kind))
  BY Zenon DEF Fields, v, All, OfKind
<1>6. IsSeq(Fields(s, kind, field))
  BY <1>4, <1>5, PickedIsSeq, Zenon
<1>7. \A i \in 1 .. Len(s) : i \in OfKind(s, kind) <=> s[i].kind = kind
  BY <1>1, Zenon DEF OfKind
<1> QED
  BY <1>3, <1>4, <1>5, <1>6, <1>7, Zenon DEF v, Listed

\* Fields of a list that is all of one kind, or has none of it.
LEMMA FieldUniform ==
  ASSUME NEW s, IsSeq(s), NEW kind, NEW field
  PROVE  /\ (\A i \in 1 .. Len(s) : s[i].kind = kind) => Fields(s, kind, field) = All(s, field)
         /\ (\A i \in 1 .. Len(s) : s[i].kind # kind) => Fields(s, kind, field) = <<>>
<1>1. /\ IsSeq(All(s, field)) /\ Len(All(s, field)) = Len(s)
      /\ \A i \in 1 .. Len(s) : i \in OfKind(s, kind) <=> s[i].kind = kind
      /\ Fields(s, kind, field) = ElementsAt(All(s, field), OfKind(s, kind))
  BY FieldLists, Zenon DEF Listed
<1> QED
  BY <1>1, AllOrNone, Zenon

\* Fields of two lists one after the other.
LEMMA FieldConcat ==
  ASSUME NEW s, NEW t, IsSeq(s), IsSeq(t), NEW kind, NEW field
  PROVE  Fields(Joined(s, t), kind, field) = Joined(Fields(s, kind, field), Fields(t, kind, field))
<1> DEFINE c == s \o t
           u == All(s, field)
           v == All(t, field)
           w == All(c, field)
           uv == u \o v
<1>0. Len(s) \in Nat /\ Len(t) \in Nat
  BY Zenon DEF IsSeq
<1>1. /\ IsSeq(c) /\ Len(c) = Len(s) + Len(t)
      /\ \A i \in 1 .. Len(s) + Len(t) : c[i] = IF i <= Len(s) THEN s[i] ELSE t[i - Len(s)]
  BY ConcatIsSeq, Zenon
<1> HIDE DEF c
<1>9. Listed(s, kind, field) /\ Listed(t, kind, field) /\ Listed(c, kind, field)
  BY <1>1, FieldLists, Zenon
<1>2. /\ IsSeq(u) /\ Len(u) = Len(s) /\ \A i \in 1 .. Len(s) : u[i] = s[i][field]
      /\ \A i \in 1 .. Len(s) : i \in OfKind(s, kind) <=> s[i].kind = kind
      /\ Fields(s, kind, field) = ElementsAt(u, OfKind(s, kind))
  BY <1>9, Zenon DEF Listed
<1>3. /\ IsSeq(v) /\ Len(v) = Len(t) /\ \A i \in 1 .. Len(t) : v[i] = t[i][field]
      /\ \A i \in 1 .. Len(t) : i \in OfKind(t, kind) <=> t[i].kind = kind
      /\ Fields(t, kind, field) = ElementsAt(v, OfKind(t, kind))
  BY <1>9, Zenon DEF Listed
<1>4. /\ IsSeq(w) /\ Len(w) = Len(c) /\ \A i \in 1 .. Len(c) : w[i] = c[i][field]
      /\ \A i \in 1 .. Len(c) : i \in OfKind(c, kind) <=> c[i].kind = kind
      /\ Fields(c, kind, field) = ElementsAt(w, OfKind(c, kind))
  BY <1>9, Zenon DEF Listed
<1> HIDE DEF u, v, w
<1>5. w = uv
  <2>1. /\ IsSeq(uv) /\ Len(uv) = Len(u) + Len(v)
        /\ \A i \in 1 .. Len(u) + Len(v) : uv[i] = IF i <= Len(u) THEN u[i] ELSE v[i - Len(u)]
    BY <1>2, <1>3, ConcatIsSeq, Zenon
  <2> HIDE DEF uv
  <2>2. ASSUME NEW i \in 1 .. Len(w) PROVE w[i] = uv[i]
    <3>1. CASE i <= Len(s)
      <4>1. i \in 1 .. Len(s) /\ i \in 1 .. Len(c) /\ i \in 1 .. Len(u) + Len(v) /\ i <= Len(u)
            /\ i \in 1 .. Len(s) + Len(t)
        BY <1>0, <1>1, <1>2, <1>3, <1>4, <3>1
      <4> QED
        BY <1>1, <1>2, <1>4, <2>1, <3>1, <4>1, Zenon
    <3>2. CASE ~(i <= Len(s))
      <4>1. i - Len(s) \in 1 .. Len(t) /\ i \in 1 .. Len(c) /\ i \in 1 .. Len(u) + Len(v)
            /\ ~(i <= Len(u)) /\ i \in 1 .. Len(s) + Len(t)
        BY <1>0, <1>1, <1>2, <1>3, <1>4, <3>2
      <4>2. c[i] = t[i - Len(s)] /\ uv[i] = v[i - Len(u)] /\ w[i] = c[i][field]
        BY <1>1, <1>4, <2>1, <3>2, <4>1, Zenon
      <4>3. v[i - Len(s)] = t[i - Len(s)][field]
        BY <1>3, <4>1, Zenon
      <4> QED
        BY <1>2, <4>2, <4>3, Zenon
    <3> QED
      BY <3>1, <3>2, Zenon
  <2>3. Len(w) = Len(uv)
    BY <1>1, <1>2, <1>3, <1>4, <2>1
  <2>4. w = uv
    BY <1>4, <2>1, <2>2, <2>3, SameList, Zenon
  <2> QED
    BY <2>4, Zenon DEF uv
<1>6. \A i \in 1 .. Len(u) : i \in OfKind(c, kind) <=> i \in OfKind(s, kind)
  <2> TAKE i \in 1 .. Len(u)
  <2>1. i \in 1 .. Len(s) /\ i \in 1 .. Len(c) /\ i \in 1 .. Len(s) + Len(t) /\ i <= Len(s)
    BY <1>0, <1>1, <1>2
  <2> QED
    BY <1>1, <1>2, <1>4, <2>1, Zenon
<1>7. \A i \in 1 .. Len(v) : Len(u) + i \in OfKind(c, kind) <=> i \in OfKind(t, kind)
  <2> TAKE i \in 1 .. Len(v)
  <2> DEFINE j == Len(s) + i
  <2>1. i \in 1 .. Len(t) /\ j \in 1 .. Len(c) /\ j \in 1 .. Len(s) + Len(t) /\ ~(j <= Len(s))
        /\ j - Len(s) = i /\ Len(u) + i = j
    BY <1>0, <1>1, <1>2, <1>3
  <2> HIDE DEF j
  <2>2. c[j] = t[i]
    BY <1>1, <2>1, Zenon
  <2> QED
    BY <1>3, <1>4, <2>1, <2>2, Zenon
<1>8. ElementsAt(Joined(u, v), OfKind(c, kind)) =
        Joined(ElementsAt(u, OfKind(s, kind)), ElementsAt(v, OfKind(t, kind)))
  <2>1. Splits(OfKind(c, kind), OfKind(s, kind), OfKind(t, kind), Len(u), Len(v))
    BY <1>6, <1>7, Zenon DEF Splits
  <2> QED
    BY <1>2, <1>3, <2>1, PickedConcat
<1> QED
  BY <1>2, <1>3, <1>4, <1>5, <1>8, Zenon DEF c, Joined

\* The elements t are those of s at the positions of P up to n: f tells where each stood.
Picks(f, t, s, P, n) ==
  /\ \A j \in 1 .. Len(t) : f[j] \in P /\ f[j] \in 1 .. n /\ t[j] = s[f[j]]
  /\ \A j, k \in 1 .. Len(t) : j < k => f[j] < f[k]
  /\ \A i \in 1 .. n : i \in P => \E j \in 1 .. Len(t) : f[j] = i

\* One position more.
LEMMA PicksGrow ==
  ASSUME NEW s, NEW P, NEW t, IsSeq(t), NEW f, NEW m \in Nat, m >= 1, Picks(f, t, s, P, m - 1)
  PROVE  \E g : Picks(g, Grown(t, s, P, m), s, P, m)
<1>0. Len(t) \in Nat
  BY Zenon DEF IsSeq
<1>1. CASE m \notin P
  <2>1. Grown(t, s, P, m) = t
    BY <1>1, Zenon DEF Grown
  <2>2. Picks(f, t, s, P, m)
    BY <1>0, <1>1 DEF Picks
  <2> QED
    BY <2>1, <2>2, Zenon
<1>2. CASE m \in P
  <2> DEFINE a == Append(t, s[m])
             g == [j \in 1 .. Len(t) + 1 |-> IF j = Len(t) + 1 THEN m ELSE f[j]]
  <2>1. Grown(t, s, P, m) = a
    BY <1>2, Zenon DEF Grown
  <2>2. /\ Len(a) = Len(t) + 1 /\ a[Len(t) + 1] = s[m] /\ \A j \in 1 .. Len(t) : a[j] = t[j]
    BY AppendIsSeq
  <2>3. /\ g[Len(t) + 1] = m /\ \A j \in 1 .. Len(t) : g[j] = f[j]
    BY <1>0
  <2> HIDE DEF a, g
  <2>4. \A j \in 1 .. Len(a) : j \in 1 .. Len(t) \/ j = Len(t) + 1
    BY <1>0, <2>2
  <2>5. ASSUME NEW j \in 1 .. Len(a) PROVE g[j] \in P /\ g[j] \in 1 .. m /\ a[j] = s[g[j]]
    BY <1>0, <1>2, <2>2, <2>3, <2>4 DEF Picks
  <2>6. ASSUME NEW j \in 1 .. Len(a), NEW k \in 1 .. Len(a), j < k PROVE g[j] < g[k]
    <3>1. j \in 1 .. Len(t)
      BY <1>0, <2>2, <2>6
    <3>2. CASE k \in 1 .. Len(t)
      BY <2>3, <2>6, <3>1, <3>2 DEF Picks
    <3>3. CASE k = Len(t) + 1
      <4>1. f[j] \in 1 .. m - 1
        BY <3>1, Zenon DEF Picks
      <4> QED
        BY <2>3, <3>1, <3>3, <4>1
    <3> QED
      BY <2>4, <3>2, <3>3, Zenon
  <2>7. ASSUME NEW i \in 1 .. m, i \in P PROVE \E j \in 1 .. Len(a) : g[j] = i
    <3>1. CASE i = m
      <4>1. Len(t) + 1 \in 1 .. Len(a)
        BY <1>0, <2>2
      <4> QED
        BY <2>3, <3>1, <4>1, Zenon
    <3>2. CASE i # m
      <4>1. i \in 1 .. m - 1
        BY <3>2
      <4>2. PICK j \in 1 .. Len(t) : f[j] = i
        BY <2>7, <4>1, Zenon DEF Picks
      <4>3. j \in 1 .. Len(a)
        BY <1>0, <2>2, <4>2
      <4> QED
        BY <2>3, <4>2, <4>3, Zenon
    <3> QED
      BY <3>1, <3>2, Zenon
  <2>8. Picks(g, a, s, P, m)
    BY <2>5, <2>6, <2>7, Zenon DEF Picks
  <2> QED
    BY <2>1, <2>8, Zenon
<1> QED
  BY <1>1, <1>2, Zenon

\* What is picked are the elements at the positions, each once, in their order.
LEMMA Picked ==
  ASSUME NEW s, IsSeq(s), NEW P
  PROVE  \E f : Picks(f, ElementsAt(s, P), s, P, Len(s))
<1>0. Len(s) \in Nat
  BY Zenon DEF IsSeq
<1> DEFINE K(n) == Kept(s, P)[n]
           Right(n) == \E f : Picks(f, K(n), s, P, n)
           T == {n \in 0 .. Len(s) : ~ Right(n)}
<1>1. ASSUME T # {} PROVE FALSE
  <2>1. PICK m \in T : \A i \in T : m <= i
    <3>1. T \in SUBSET Nat
      <4> HIDE DEF Right
      <4> QED
        BY <1>0
    <3> QED
      BY <1>1, <3>1, Least
  <2>2. m # 0
    <3>1. K(0) = <<>>
      BY <1>0, KeptGrows, Zenon
    <3>2. Picks(<<>>, <<>>, s, P, 0)
      BY DEF Picks
    <3>3. Right(0)
      BY <3>1, <3>2, Zenon
    <3> HIDE DEF Right, K
    <3> QED
      BY <2>1, <3>3, Zenon
  <2>3. m - 1 \in 0 .. Len(s) /\ m - 1 \notin T /\ m \in 1 .. Len(s) /\ m \in Nat /\ m >= 1
    <3> HIDE DEF K, Right
    <3> QED
      BY <1>0, <2>1, <2>2
  <2>4. PICK f : Picks(f, K(m - 1), s, P, m - 1)
    BY <2>3, Zenon
  <2> DEFINE k == K(m - 1)
  <2>5. K(m) = Grown(k, s, P, m) /\ IsSeq(k)
    <3>1. m \in 1 .. Len(s) /\ m - 1 \in 0 .. Len(s)
      BY <2>3, Zenon
    <3> HIDE DEF T, Right
    <3> QED
      BY <1>0, <3>1, KeptGrows, KeptIsSeq, Zenon
  <2>6. Right(m)
    <3>1. m \in Nat /\ m >= 1 /\ IsSeq(k) /\ Picks(f, k, s, P, m - 1)
      BY <2>3, <2>4, <2>5, Zenon
    <3> HIDE DEF T, K, k
    <3>2. \E g : Picks(g, Grown(k, s, P, m), s, P, m)
      BY <3>1, PicksGrow
    <3> QED
      BY <2>5, <3>2, Zenon
  <2> HIDE DEF Right, K
  <2> QED
    BY <2>1, <2>6, Zenon
<1>2. Len(s) \in 0 .. Len(s)
  BY <1>0
<1>3. Right(Len(s))
  <2> HIDE DEF Right, K
  <2> QED
    BY <1>1, <1>2, Zenon
<1> QED
  BY <1>3, Zenon DEF ElementsAt

-----------------------------------------------------------------------------
(* What a list has, and whether it repeats itself.                           *)

Has(l, x) == \E i \in 1 .. Len(l) : l[i] = x
Distinct(l) == \A i, j \in 1 .. Len(l) : l[i] = l[j] => i = j

\* The elements of t are elements of l, and t repeats none that l does not repeat.
Draws(t, l) == (\A x : Has(t, x) => Has(l, x)) /\ (Distinct(l) => Distinct(t))

\* The empty list.
LEMMA EmptyHas == Distinct(<<>>) /\ \A x : ~ Has(<<>>, x)
  BY DEF Distinct, Has

\* Two lists, one after the other.
LEMMA JoinedHas ==
  ASSUME NEW s, NEW t, IsSeq(s), IsSeq(t)
  PROVE  /\ \A x : Has(Joined(s, t), x) <=> Has(s, x) \/ Has(t, x)
         /\ Distinct(Joined(s, t)) <=> /\ Distinct(s) /\ Distinct(t)
                                       /\ \A x : ~(Has(s, x) /\ Has(t, x))
<1> DEFINE c == s \o t
<1>0. Len(s) \in Nat /\ Len(t) \in Nat
  BY Zenon DEF IsSeq
<1>1. /\ Len(c) = Len(s) + Len(t)
      /\ \A i \in 1 .. Len(s) + Len(t) : c[i] = IF i <= Len(s) THEN s[i] ELSE t[i - Len(s)]
  BY ConcatIsSeq, Zenon
<1> HIDE DEF c
<1>2. /\ \A i \in 1 .. Len(s) : i \in 1 .. Len(c) /\ c[i] = s[i]
      /\ \A i \in 1 .. Len(t) : Len(s) + i \in 1 .. Len(c) /\ c[Len(s) + i] = t[i]
      /\ \A i \in 1 .. Len(c) : i \in 1 .. Len(s) \/ \E j \in 1 .. Len(t) : i = Len(s) + j
  <2>1. ASSUME NEW i \in 1 .. Len(t) PROVE Len(s) + i \in 1 .. Len(c) /\ c[Len(s) + i] = t[i]
    <3>1. Len(s) + i \in 1 .. Len(c) /\ ~(Len(s) + i <= Len(s)) /\ Len(s) + i - Len(s) = i
      BY <1>0, <1>1
    <3> QED
      BY <1>1, <3>1
  <2>2. ASSUME NEW i \in 1 .. Len(c), i \notin 1 .. Len(s) PROVE \E j \in 1 .. Len(t) : i = Len(s) + j
    <3>1. i - Len(s) \in 1 .. Len(t) /\ i = Len(s) + (i - Len(s))
      BY <1>0, <1>1, <2>2
    <3> QED
      BY <3>1, Zenon
  <2>3. \A i \in 1 .. Len(s) : i \in 1 .. Len(c) /\ c[i] = s[i]
    BY <1>0, <1>1
  <2> QED
    BY <2>1, <2>2, <2>3, Zenon
<1>3. ASSUME NEW x PROVE Has(c, x) <=> Has(s, x) \/ Has(t, x)
  <2>1. ASSUME NEW i \in 1 .. Len(c), c[i] = x PROVE Has(s, x) \/ Has(t, x)
    <3>1. CASE i \in 1 .. Len(s)
      BY <1>2, <2>1, <3>1, Zenon DEF Has
    <3>2. ASSUME NEW j \in 1 .. Len(t), i = Len(s) + j PROVE Has(t, x)
      BY <1>2, <2>1, <3>2, Zenon DEF Has
    <3> QED
      BY <1>2, <3>1, <3>2, Zenon
  <2>2. ASSUME NEW i \in 1 .. Len(s), s[i] = x PROVE Has(c, x)
    BY <1>2, <2>2, Zenon DEF Has
  <2>3. ASSUME NEW i \in 1 .. Len(t), t[i] = x PROVE Has(c, x)
    BY <1>2, <2>3, Zenon DEF Has
  <2> QED
    BY <2>1, <2>2, <2>3, Zenon DEF Has
<1>4. ASSUME Distinct(c) PROVE Distinct(s) /\ Distinct(t) /\ \A x : ~(Has(s, x) /\ Has(t, x))
  <2>1. Distinct(s)
    BY <1>2, <1>4, Zenon DEF Distinct
  <2>2. Distinct(t)
    <3> SUFFICES ASSUME NEW i \in 1 .. Len(t), NEW j \in 1 .. Len(t), t[i] = t[j] PROVE i = j
      BY Zenon DEF Distinct
    <3>1. Len(s) + i = Len(s) + j
      BY <1>2, <1>4, Zenon DEF Distinct
    <3> QED
      BY <1>0, <3>1
  <2>3. ASSUME NEW i \in 1 .. Len(s), NEW j \in 1 .. Len(t), s[i] = t[j] PROVE FALSE
    <3>1. i = Len(s) + j
      BY <1>2, <1>4, <2>3, Zenon DEF Distinct
    <3> QED
      BY <1>0, <3>1
  <2> QED
    BY <2>1, <2>2, <2>3, Zenon DEF Has
<1>5. ASSUME Distinct(s), Distinct(t), \A x : ~(Has(s, x) /\ Has(t, x)) PROVE Distinct(c)
  <2>1. \A i \in 1 .. Len(s), j \in 1 .. Len(t) : s[i] # t[j]
    BY <1>5, Zenon DEF Has
  <2> SUFFICES ASSUME NEW i \in 1 .. Len(c), NEW j \in 1 .. Len(c), c[i] = c[j] PROVE i = j
    BY Zenon DEF Distinct
  <2>2. ASSUME NEW k \in 1 .. Len(t), NEW l \in 1 .. Len(t), i = Len(s) + k, j = Len(s) + l PROVE i = j
    <3>1. t[k] = t[l]
      BY <1>2, <2>2, Zenon
    <3>2. k = l
      BY <1>5, <3>1, Zenon DEF Distinct
    <3> QED
      BY <2>2, <3>2, Zenon
  <2>3. CASE i \in 1 .. Len(s) /\ j \in 1 .. Len(s)
    BY <1>2, <1>5, <2>3, Zenon DEF Distinct
  <2>4. ASSUME i \in 1 .. Len(s), NEW k \in 1 .. Len(t), j = Len(s) + k PROVE FALSE
    BY <1>2, <2>1, <2>4, Zenon
  <2>5. ASSUME j \in 1 .. Len(s), NEW k \in 1 .. Len(t), i = Len(s) + k PROVE FALSE
    BY <1>2, <2>1, <2>5, Zenon
  <2> QED
    BY <1>2, <2>2, <2>3, <2>4, <2>5, Zenon
<1> QED
  BY <1>3, <1>4, <1>5, Zenon DEF c, Joined

\* What a field of the elements of one kind has, and what it means that it is distinct.
LEMMA FieldsHave ==
  ASSUME NEW s, IsSeq(s), NEW kind, NEW field
  PROVE  /\ \A x : Has(Fields(s, kind, field), x)
                     <=> \E i \in 1 .. Len(s) : s[i].kind = kind /\ s[i][field] = x
         /\ Distinct(Fields(s, kind, field)) =>
              \A i, j \in 1 .. Len(s) :
                s[i].kind = kind /\ s[j].kind = kind /\ s[i][field] = s[j][field] => i = j
<1> DEFINE a == All(s, field)
           P == OfKind(s, kind)
           t == Fields(s, kind, field)
<1>1. IsSeq(a) /\ Len(a) = Len(s) /\ \A i \in 1 .. Len(s) : a[i] = s[i][field]
  <2>1. Listed(s, kind, field)
    BY FieldLists, Zenon
  <2> QED
    BY <2>1, Zenon DEF Listed
<1>2. t = ElementsAt(a, P)
  BY Zenon DEF Fields, All, OfKind
<1>3. \A i \in 1 .. Len(s) : i \in P <=> s[i].kind = kind
  BY Zenon DEF OfKind, IsSeq
<1> HIDE DEF a, P, t
<1>4. PICK f : Picks(f, t, a, P, Len(s))
  BY <1>1, <1>2, Picked, Zenon
<1>5. \A x : Has(t, x) <=> \E i \in 1 .. Len(s) : s[i].kind = kind /\ s[i][field] = x
  <2>1. ASSUME NEW j \in 1 .. Len(t)
        PROVE  \E i \in 1 .. Len(s) : s[i].kind = kind /\ s[i][field] = t[j]
    <3>1. f[j] \in P /\ f[j] \in 1 .. Len(s) /\ t[j] = a[f[j]]
      BY <1>4, Zenon DEF Picks
    <3> QED
      BY <1>1, <1>3, <3>1, Zenon
  <2>2. ASSUME NEW i \in 1 .. Len(s), s[i].kind = kind PROVE Has(t, s[i][field])
    <3>1. PICK j \in 1 .. Len(t) : f[j] = i
      BY <1>3, <1>4, <2>2, Zenon DEF Picks
    <3>2. t[j] = a[i] /\ a[i] = s[i][field]
      BY <1>1, <1>4, <3>1, Zenon DEF Picks
    <3> QED
      BY <3>1, <3>2, Zenon DEF Has
  <2> QED
    BY <2>1, <2>2, Zenon DEF Has
<1>6. ASSUME Distinct(t), NEW i \in 1 .. Len(s), NEW j \in 1 .. Len(s),
             s[i].kind = kind, s[j].kind = kind, s[i][field] = s[j][field]
      PROVE  i = j
  <2>1. PICK k \in 1 .. Len(t), l \in 1 .. Len(t) : f[k] = i /\ f[l] = j
    BY <1>3, <1>4, <1>6, Zenon DEF Picks
  <2>2. t[k] = t[l]
    BY <1>1, <1>4, <1>6, <2>1, Zenon DEF Picks
  <2> QED
    BY <1>6, <2>1, <2>2, Zenon DEF Distinct
<1> QED
  BY <1>5, <1>6, Zenon DEF t

\* The picked elements' fields are drawn from all of them.
LEMMA PickedDraws ==
  ASSUME NEW s, IsSeq(s), NEW P, NEW field
  PROVE  Draws(All(ElementsAt(s, P), field), All(s, field))
<1> DEFINE t == ElementsAt(s, P)
           u == All(t, field)
           v == All(s, field)
<1>1. PICK f : Picks(f, t, s, P, Len(s))
  BY Picked, Zenon
<1>2. IsSeq(t)
  BY PickedIsSeq, Zenon
<1> HIDE DEF t
<1>3. Listed(s, "call", field) /\ Listed(t, "call", field)
  BY <1>2, FieldLists, Zenon
<1>4. /\ Len(u) = Len(t) /\ Len(v) = Len(s) /\ Len(t) \in Nat
      /\ \A i \in 1 .. Len(t) : u[i] = t[i][field]
      /\ \A i \in 1 .. Len(s) : v[i] = s[i][field]
  BY <1>2, <1>3, Zenon DEF Listed, IsSeq
<1> HIDE DEF u, v
<1>5. \A j \in 1 .. Len(u) : f[j] \in 1 .. Len(v) /\ u[j] = v[f[j]]
  <2> SUFFICES ASSUME NEW j \in 1 .. Len(u) PROVE f[j] \in 1 .. Len(v) /\ u[j] = v[f[j]]
    BY Zenon
  <2>1. f[j] \in 1 .. Len(s) /\ t[j] = s[f[j]] /\ u[j] = t[j][field]
    BY <1>1, <1>4, Zenon DEF Picks
  <2> QED
    BY <1>4, <2>1, Zenon
<1>6. \A j, k \in 1 .. Len(u) : f[j] = f[k] => j = k
  <2> SUFFICES ASSUME NEW j \in 1 .. Len(u), NEW k \in 1 .. Len(u), f[j] = f[k], j # k PROVE FALSE
    BY Zenon
  <2>1. j < k \/ k < j
    BY <1>4
  <2>2. f[j] < f[k] \/ f[k] < f[j]
    BY <1>1, <1>4, <2>1, Zenon DEF Picks
  <2>3. f[j] \in 1 .. Len(s) /\ f[k] \in 1 .. Len(s)
    BY <1>4, <1>5, Zenon
  <2> QED
    BY <2>2, <2>3
<1>7. \A x : Has(u, x) => Has(v, x)
  BY <1>5, Zenon DEF Has
<1>8. Distinct(v) => Distinct(u)
  <2> SUFFICES ASSUME Distinct(v), NEW j \in 1 .. Len(u), NEW k \in 1 .. Len(u), u[j] = u[k] PROVE j = k
    BY Zenon DEF Distinct
  <2>1. f[j] \in 1 .. Len(v) /\ f[k] \in 1 .. Len(v) /\ v[f[j]] = v[f[k]]
    BY <1>5, Zenon
  <2> QED
    BY <1>6, <2>1, Zenon DEF Distinct
<1> QED
  BY <1>7, <1>8, Zenon DEF Draws, u, v, t

-----------------------------------------------------------------------------
(* What the consumer has seen and is about to see.                           *)

Traffic == {"call", "transfer", "output"}

NoTraffic(evs) == \A i \in 1 .. Len(evs) : evs[i].kind \notin Traffic

\* The values of no and of one event.
LEMMA ValsShort ==
  /\ \A kind : Vals(<<>>, kind) = <<>>
  /\ \A e, kind : Vals(<<e>>, kind) = IF e.kind = kind THEN <<e.val>> ELSE <<>>
<1>1. ASSUME NEW kind PROVE Vals(<<>>, kind) = <<>>
  <2>1. \A i \in 1 .. Len(<<>>) : <<>>[i].kind # kind
    OBVIOUS
  <2> QED
    BY <2>1, ShortLists, FieldUniform, Zenon DEF Vals
<1>2. ASSUME NEW e, NEW kind PROVE Vals(<<e>>, kind) = IF e.kind = kind THEN <<e.val>> ELSE <<>>
  <2> DEFINE one == <<e>>
  <2>1. IsSeq(one) /\ Len(one) = 1 /\ one[1] = e
    BY ShortLists, Zenon
  <2> HIDE DEF one
  <2>2. \A i \in 1 .. Len(one) : one[i] = e
    BY <2>1
  <2>3. CASE e.kind = kind
    <3>1. Fields(one, kind, "val") = All(one, "val")
      BY <2>1, <2>2, <2>3, FieldUniform, Zenon
    <3>2. Listed(one, kind, "val")
      BY <2>1, FieldLists, Zenon
    <3> DEFINE v == All(one, "val")
    <3>3. IsSeq(v) /\ Len(v) = 1 /\ v[1] = e["val"]
      <4>1. 1 \in 1 .. Len(one)
        BY <2>1
      <4> QED
        BY <2>1, <3>2, <4>1, Zenon DEF Listed
    <3> HIDE DEF v
    <3>4. v = <<e.val>>
      <4> DEFINE w == <<e.val>>
      <4>1. IsSeq(w) /\ Len(w) = 1 /\ w[1] = e.val
        BY ShortLists, Zenon
      <4> HIDE DEF w
      <4>2. \A i \in 1 .. Len(v) : v[i] = w[i]
        BY <3>3, <4>1
      <4>3. v = w
        BY <3>3, <4>1, <4>2, SameList, Zenon
      <4> QED
        BY <4>3, Zenon DEF w
    <3> QED
      BY <2>3, <3>1, <3>4, Zenon DEF Vals, v, one
  <2>4. CASE e.kind # kind
    <3>1. Fields(one, kind, "val") = <<>>
      BY <2>1, <2>2, <2>4, FieldUniform, Zenon
    <3> QED
      BY <2>4, <3>1, Zenon DEF Vals, one
  <2> QED
    BY <2>3, <2>4, Zenon
<1> QED
  BY <1>1, <1>2, Zenon

\* The values of a list of events are a list, and go through concatenation.
LEMMA ValsLaws ==
  ASSUME NEW s, NEW t, IsSeq(s), IsSeq(t), NEW kind
  PROVE  IsSeq(Vals(s, kind)) /\ Vals(Joined(s, t), kind) = Joined(Vals(s, kind), Vals(t, kind))
<1>1. IsSeq(Fields(s, kind, "val"))
  BY FieldLists, Zenon DEF Listed
<1>2. Fields(Joined(s, t), kind, "val") = Joined(Fields(s, kind, "val"), Fields(t, kind, "val"))
  BY FieldConcat
<1> QED
  BY <1>1, <1>2, Zenon DEF Vals

\* Events without calls and outputs.
LEMMA QuietVals ==
  ASSUME NEW s, IsSeq(s), NoTraffic(s), NEW kind \in Traffic
  PROVE  Vals(s, kind) = <<>>
<1>1. \A i \in 1 .. Len(s) : s[i].kind # kind
  BY Zenon DEF NoTraffic
<1> QED
  BY <1>1, FieldUniform, Zenon DEF Vals

-----------------------------------------------------------------------------
(* The calls and outputs of a transition.                                    *)

CallIds(in) == All(in.calls, "id")

\* Every event but the last is something else than TurnStarted.
LateTurn(evs) == \A i \in 1 .. Len(evs) - 1 : evs[i].kind # "turn_started"
NoTurn(evs) == \A i \in 1 .. Len(evs) : evs[i].kind # "turn_started"

\* What a transition announces of the calls it was handed: their outputs if it was handed
\* their results, the calls if it runs them, the transfers if it hands off, and nothing otherwise.
Announces(o, in) ==
  /\ IsSeq(o.events) /\ LateTurn(o.events)
  /\ o.action = "execute_tools" => NoTurn(o.events)
  /\ Vals(o.events, "call") = IF o.action = "execute_tools" THEN CallIds(in) ELSE <<>>
  /\ Vals(o.events, "output") = IF in.kind = "results" THEN CallIds(in) ELSE <<>>
  /\ \/ Vals(o.events, "transfer") = <<>>
     \/ /\ o.action = "handoff" /\ in.kind = "response"
        /\ Draws(Vals(o.events, "transfer"), CallIds(in))

\* How it goes on: it runs tools only on a response, asks for another turn only if no
\* call is left open, and is quiet when it is done.
GoesOn(o, s, in) ==
  /\ o.action = "execute_tools" => s.kind = "calling" /\ in.kind = "response"
  /\ o.state.kind \in {"calling", "executing", "finalizing"} =>
       /\ s.kind \in {"calling", "executing", "finalizing"}
       /\ in.kind = "response" /\ o.action # "execute_tools" => in.calls = <<>>
  /\ o.state.kind = "done" => NoTraffic(o.events) /\ in.kind = "response"

\* A message, and what comes before the last event.
LEMMA MessageShape ==
  ASSUME NEW in
  PROVE  /\ IsSeq(MessageOutput(in)) /\ Len(MessageOutput(in)) \in {0, 1}
         /\ \A i \in 1 .. Len(MessageOutput(in)) : MessageOutput(in)[i].kind = "message"
  BY DEF MessageOutput, IsSeq, Ev

\* An event that is neither a call nor an output, behind events none of which starts a turn.
LEMMA AppendQuiet ==
  ASSUME NEW evs, IsSeq(evs), \A i \in 1 .. Len(evs) : evs[i].kind # "turn_started",
         NEW e, e.kind \notin Traffic
  PROVE  /\ IsSeq(Append(evs, e)) /\ LateTurn(Append(evs, e))
         /\ NoTraffic(evs) => NoTraffic(Append(evs, e))
         /\ \A kind \in Traffic : Vals(Append(evs, e), kind) = Vals(evs, kind)
<1> DEFINE l == Append(evs, e)
<1>0. Len(evs) \in Nat
  BY Zenon DEF IsSeq
<1>1. /\ IsSeq(l) /\ Len(l) = Len(evs) + 1 /\ l[Len(evs) + 1] = e
      /\ \A i \in 1 .. Len(evs) : l[i] = evs[i]
  BY AppendIsSeq
<1>2. \A kind \in Traffic : Vals(l, kind) = Vals(evs, kind)
  <2> TAKE kind \in Traffic
  <2> DEFINE one == <<e>>
  <2>1. IsSeq(one) /\ l = Joined(evs, one)
    BY OneMore, ShortLists, Zenon
  <2>2. Vals(one, kind) = <<>>
    BY ValsShort, Zenon
  <2> HIDE DEF one, l
  <2>3. Vals(Joined(evs, one), kind) = Joined(Vals(evs, kind), Vals(one, kind))
    BY <2>1, ValsLaws
  <2>4. IsSeq(Vals(evs, kind))
    BY ValsLaws, Zenon
  <2>5. Joined(Vals(evs, kind), <<>>) = Vals(evs, kind)
    BY <2>4, Unit, Zenon
  <2> QED
    BY <2>1, <2>2, <2>3, <2>5, Zenon
<1> HIDE DEF l
<1>3. LateTurn(l)
  BY <1>0, <1>1 DEF LateTurn
<1>4. NoTraffic(evs) => NoTraffic(l)
  BY <1>0, <1>1 DEF NoTraffic
<1> QED
  BY <1>1, <1>2, <1>3, <1>4, Zenon DEF l

\* Events before which nothing is a call or an output, and after which come calls.
LEMMA MessageThen ==
  ASSUME NEW in, NEW evs, IsSeq(evs), \A i \in 1 .. Len(evs) : evs[i].kind # "turn_started"
  PROVE  LET l == MessageOutput(in) \o evs
         IN /\ IsSeq(l) /\ LateTurn(l) /\ NoTurn(l)
            /\ \A kind \in Traffic : Vals(l, kind) = Vals(evs, kind)
<1> DEFINE m == MessageOutput(in)
           l == Joined(m, evs)
<1>0. Len(evs) \in Nat
  BY Zenon DEF IsSeq
<1>1. IsSeq(m) /\ Len(m) \in Nat /\ \A i \in 1 .. Len(m) : m[i].kind = "message"
  BY MessageShape, Zenon DEF IsSeq
<1> HIDE DEF m
<1>2. /\ IsSeq(l) /\ Len(l) = Len(m) + Len(evs)
      /\ \A i \in 1 .. Len(m) + Len(evs) : l[i] = IF i <= Len(m) THEN m[i] ELSE evs[i - Len(m)]
  BY <1>1, ConcatIsSeq, Zenon DEF Joined
<1>3. NoTurn(l)
  <2> SUFFICES ASSUME NEW i \in 1 .. Len(l) PROVE l[i].kind # "turn_started"
    BY Zenon DEF NoTurn
  <2>1. CASE i <= Len(m)
    <3>1. i \in 1 .. Len(m) /\ i \in 1 .. Len(m) + Len(evs)
      BY <1>0, <1>1, <1>2, <2>1
    <3> QED
      BY <1>1, <1>2, <2>1, <3>1, Zenon
  <2>2. CASE ~(i <= Len(m))
    <3>1. i - Len(m) \in 1 .. Len(evs) /\ i \in 1 .. Len(m) + Len(evs)
      BY <1>0, <1>1, <1>2, <2>2
    <3> QED
      BY <1>2, <2>2, <3>1, Zenon
  <2> QED
    BY <2>1, <2>2, Zenon
<1>4. ASSUME NEW kind \in Traffic PROVE Vals(l, kind) = Vals(evs, kind)
  <2>1. NoTraffic(m)
    BY <1>1, Zenon DEF NoTraffic, Traffic
  <2>2. Vals(m, kind) = <<>>
    BY <1>1, <2>1, QuietVals, Zenon
  <2>3. Vals(l, kind) = Joined(Vals(m, kind), Vals(evs, kind))
    BY <1>1, ValsLaws
  <2>4. IsSeq(Vals(evs, kind))
    BY ValsLaws, Zenon
  <2>5. Joined(<<>>, Vals(evs, kind)) = Vals(evs, kind)
    BY <2>4, Unit, Zenon
  <2> QED
    BY <2>2, <2>3, <2>5, Zenon
<1>5. LateTurn(l)
  <2>1. \A i \in 1 .. Len(l) - 1 : i \in 1 .. Len(l)
    BY <1>0, <1>1, <1>2
  <2> QED
    BY <1>3, <2>1, Zenon DEF LateTurn, NoTurn
<1> QED
  BY <1>2, <1>3, <1>4, <1>5, Zenon DEF m, Joined

\* The events of a list of calls: all calls if none is a transfer, none of them if all are.
LEMMA CallEventsVals ==
  ASSUME NEW plan, NEW calls, IsSeq(calls)
  PROVE  LET evs == CallEvents(plan, calls)
         IN /\ IsSeq(evs) /\ \A i \in 1 .. Len(evs) : evs[i].kind # "turn_started"
            /\ Vals(evs, "output") = <<>>
            /\ (\A i \in 1 .. Len(calls) : ~ IsTransfer(plan, calls[i])) =>
                  Vals(evs, "call") = All(calls, "id") /\ Vals(evs, "transfer") = <<>>
            /\ (\A i \in 1 .. Len(calls) : IsTransfer(plan, calls[i])) =>
                  Vals(evs, "transfer") = All(calls, "id") /\ Vals(evs, "call") = <<>>
<1> DEFINE evs == CallEvents(plan, calls)
           ev(i) == Ev(IF IsTransfer(plan, calls[i]) THEN "transfer" ELSE "call", calls[i].id)
<1>0. Len(calls) \in Nat
  BY Zenon DEF IsSeq
<1>1. evs = [i \in 1 .. Len(calls) |-> ev(i)]
  BY Zenon DEF CallEvents
<1>2. \A i : /\ ev(i).kind = IF IsTransfer(plan, calls[i]) THEN "transfer" ELSE "call"
             /\ ev(i)["val"] = calls[i]["id"]
  BY Zenon DEF Ev
<1> HIDE DEF ev, evs
<1>3. evs = [i \in 1 .. Len(calls) |-> evs[i]] /\ \A i \in 1 .. Len(calls) : evs[i] = ev(i)
  BY <1>1, Zenon
<1>4. IsSeq(evs) /\ Len(evs) = Len(calls)
  BY <1>0, <1>3, ListIsSeq, Zenon
<1>5. \A i \in 1 .. Len(evs) : evs[i].kind = IF IsTransfer(plan, calls[i]) THEN "transfer" ELSE "call"
  BY <1>2, <1>3, <1>4, Zenon
<1>6. \A i \in 1 .. Len(evs) : evs[i].kind # "turn_started" /\ evs[i].kind # "output"
  BY <1>5, Zenon
<1>7. Vals(evs, "output") = <<>>
  BY <1>4, <1>6, FieldUniform, Zenon DEF Vals
<1>8. ASSUME NEW kind, \A i \in 1 .. Len(evs) : evs[i].kind = kind
      PROVE  Vals(evs, kind) = All(calls, "id")
  <2>2. Fields(evs, kind, "val") = All(evs, "val")
    BY <1>4, <1>8, FieldUniform, Zenon
  <2>3. Listed(evs, kind, "val") /\ Listed(calls, kind, "id")
    BY <1>4, FieldLists, Zenon
  <2> DEFINE u == All(evs, "val")
             v == All(calls, "id")
  <2>4. /\ IsSeq(u) /\ IsSeq(v) /\ Len(u) = Len(v) /\ Len(u) = Len(calls)
        /\ \A i \in 1 .. Len(calls) : u[i] = evs[i]["val"] /\ v[i] = calls[i]["id"]
    BY <1>4, <2>3, Zenon DEF Listed
  <2> HIDE DEF u, v
  <2>5. \A i \in 1 .. Len(u) : u[i] = v[i]
    BY <1>2, <1>3, <2>4, Zenon
  <2>6. u = v
    BY <2>4, <2>5, SameList, Zenon
  <2> QED
    BY <2>2, <2>6, Zenon DEF Vals, u, v
<1>9. ASSUME \A i \in 1 .. Len(calls) : ~ IsTransfer(plan, calls[i])
      PROVE  Vals(evs, "call") = All(calls, "id") /\ Vals(evs, "transfer") = <<>>
  <2>1. \A i \in 1 .. Len(evs) : evs[i].kind = "call" /\ evs[i].kind # "transfer"
    BY <1>4, <1>5, <1>9, Zenon
  <2> QED
    BY <1>4, <1>8, <2>1, FieldUniform, Zenon DEF Vals
<1>10. ASSUME \A i \in 1 .. Len(calls) : IsTransfer(plan, calls[i])
       PROVE  Vals(evs, "transfer") = All(calls, "id") /\ Vals(evs, "call") = <<>>
  <2>1. \A i \in 1 .. Len(evs) : evs[i].kind = "transfer" /\ evs[i].kind # "call"
    BY <1>4, <1>5, <1>10, Zenon
  <2> QED
    BY <1>4, <1>8, <2>1, FieldUniform, Zenon DEF Vals
<1> QED
  BY <1>4, <1>6, <1>7, <1>9, <1>10, Zenon DEF evs

\* The outputs of a list of calls.
LEMMA OutputVals ==
  ASSUME NEW calls, IsSeq(calls), NEW evs, evs = [i \in 1 .. Len(calls) |-> Ev("output", calls[i].id)]
  PROVE  /\ IsSeq(evs) /\ \A i \in 1 .. Len(evs) : evs[i].kind # "turn_started"
         /\ Vals(evs, "output") = All(calls, "id")
         /\ Vals(evs, "call") = <<>> /\ Vals(evs, "transfer") = <<>>
<1> DEFINE ev(i) == Ev("output", calls[i].id)
<1>0. Len(calls) \in Nat
  BY Zenon DEF IsSeq
<1>1. evs = [i \in 1 .. Len(calls) |-> ev(i)]
  BY Zenon
<1>2. \A i : ev(i).kind = "output" /\ ev(i)["val"] = calls[i]["id"]
  BY Zenon DEF Ev
<1> HIDE DEF ev
<1>3. evs = [i \in 1 .. Len(calls) |-> evs[i]] /\ \A i \in 1 .. Len(calls) : evs[i] = ev(i)
  BY <1>1, Zenon
<1>4. IsSeq(evs) /\ Len(evs) = Len(calls)
  BY <1>0, <1>3, ListIsSeq, Zenon
<1>5. \A i \in 1 .. Len(evs) : 
        evs[i].kind = "output" /\ evs[i].kind # "turn_started" /\ evs[i].kind # "call" /\ evs[i].kind # "transfer"
  BY <1>2, <1>3, <1>4, Zenon
<1>6. Vals(evs, "call") = <<>> /\ Vals(evs, "transfer") = <<>>
  BY <1>4, <1>5, FieldUniform, Zenon DEF Vals
<1>7. Vals(evs, "output") = All(calls, "id")
  <2>2. Fields(evs, "output", "val") = All(evs, "val")
    BY <1>4, <1>5, FieldUniform, Zenon
  <2>3. Listed(evs, "output", "val") /\ Listed(calls, "output", "id")
    BY <1>4, FieldLists, Zenon
  <2> DEFINE u == All(evs, "val")
             v == All(calls, "id")
  <2>4. /\ IsSeq(u) /\ IsSeq(v) /\ Len(u) = Len(v) /\ Len(u) = Len(calls)
        /\ \A i \in 1 .. Len(calls) : u[i] = evs[i]["val"] /\ v[i] = calls[i]["id"]
    BY <1>4, <2>3, Zenon DEF Listed
  <2> HIDE DEF u, v
  <2>5. \A i \in 1 .. Len(u) : u[i] = v[i]
    BY <1>2, <1>3, <2>4, Zenon
  <2>6. u = v
    BY <2>4, <2>5, SameList, Zenon
  <2> QED
    BY <2>2, <2>6, Zenon DEF Vals, u, v
<1> QED
  BY <1>4, <1>5, <1>6, <1>7, Zenon

\* The parts of the outcomes.
LEMMA FailsParts ==
  ASSUME NEW o, NEW s, NEW error, NEW evs, o = Fails(s, error, evs)
  PROVE  o.events = Append(evs, Ev("failed", error)) /\ o.action = "terminate" /\ o.state.kind = "failed"
  BY DEF Fails, Outcome, State

\* A run that completes.
LEMMA CompletesParts ==
  ASSUME NEW o, NEW s, NEW usage, NEW evs, o = Completes(s, usage, evs)
  PROVE  o.events = Append(evs, Ev("completed", usage)) /\ o.action = "terminate" /\ o.state.kind = "done"
  BY DEF Completes, Outcome, State

\* A run that asks its model.
LEMMA AsksParts ==
  ASSUME NEW o, NEW kind, NEW turn, NEW usage, NEW evs, o = AsksModel(kind, turn, usage, evs)
  PROVE  o.events = evs /\ o.action = "call_model" /\ o.state.kind = kind
  BY DEF AsksModel, Outcome, State

\* A run that acts on its calls.
LEMMA ActsParts ==
  ASSUME NEW o, NEW kind, NEW turn, NEW usage, NEW evs, NEW act,
         o = Outcome(State(kind, turn, usage, None), evs, act)
  PROVE  o.events = evs /\ o.action = act /\ o.state.kind = kind
  BY DEF Outcome, State

\* An end of the run, after events that start no turn.
LEMMA EndAnnounces ==
  ASSUME NEW o, NEW s, NEW in, NEW evs, IsSeq(evs), \A i \in 1 .. Len(evs) : evs[i].kind # "turn_started",
         NEW e, e.kind \notin Traffic, o.events = Append(evs, e),
         o.action = "terminate", o.state.kind \in {"done", "failed"},
         o.state.kind = "done" => NoTraffic(evs) /\ in.kind = "response",
         Vals(evs, "call") = <<>>, Vals(evs, "transfer") = <<>>,
         Vals(evs, "output") = IF in.kind = "results" THEN CallIds(in) ELSE <<>>
  PROVE  Announces(o, in) /\ GoesOn(o, s, in)
<1>1. /\ IsSeq(Append(evs, e)) /\ LateTurn(Append(evs, e))
      /\ NoTraffic(evs) => NoTraffic(Append(evs, e))
      /\ Vals(Append(evs, e), "call") = Vals(evs, "call")
      /\ Vals(Append(evs, e), "output") = Vals(evs, "output")
      /\ Vals(Append(evs, e), "transfer") = Vals(evs, "transfer")
  BY AppendQuiet, Zenon DEF Traffic
<1> QED
  BY <1>1, Zenon DEF Announces, GoesOn

\* A transition that asks the model.
LEMMA AskAnnounces ==
  ASSUME NEW o, NEW s, NEW in, NEW evs, IsSeq(evs), \A i \in 1 .. Len(evs) : evs[i].kind # "turn_started",
         NEW e, e.kind \notin Traffic, o.events = Append(evs, e),
         o.action = "call_model", o.state.kind \in {"calling", "finalizing", "repairing"},
         o.state.kind # "repairing" => s.kind \in {"calling", "executing", "finalizing"},
         o.state.kind # "repairing" /\ in.kind = "response" => in.calls = <<>>,
         Vals(evs, "call") = <<>>, Vals(evs, "transfer") = <<>>,
         Vals(evs, "output") = IF in.kind = "results" THEN CallIds(in) ELSE <<>>
  PROVE  Announces(o, in) /\ GoesOn(o, s, in)
<1>1. /\ IsSeq(Append(evs, e)) /\ LateTurn(Append(evs, e))
      /\ Vals(Append(evs, e), "call") = Vals(evs, "call")
      /\ Vals(Append(evs, e), "output") = Vals(evs, "output")
      /\ Vals(Append(evs, e), "transfer") = Vals(evs, "transfer")
  BY AppendQuiet, Zenon DEF Traffic
<1> QED
  BY <1>1, Zenon DEF Announces, GoesOn

\* Whatever the driver hands the machine where it expects it.
LEMMA TransitionPairs ==
  ASSUME NEW plan, NEW s, NEW in, Expects(s, in)
  PROVE  /\ Announces(Transition(plan, s, in), in)
         /\ GoesOn(Transition(plan, s, in), s, in)
<1> DEFINE o == Transition(plan, s, in)
           msg == MessageOutput(in)
<1>0. /\ s.turn \in Nat /\ IsSeq(in.calls) /\ MaxTurns \in Nat
      /\ IsSeq(<<>>) /\ \A i \in 1 .. Len(<<>>) : <<>>[i].kind # "turn_started"
      /\ \A kind : Vals(<<>>, kind) = <<>>
  <2>1. \A i \in 1 .. Len(<<>>) : <<>>[i].kind # "turn_started"
    OBVIOUS
  <2> QED
    BY <2>1, ShortLists, ValsShort, MaxTurnsAssumption, Zenon DEF Expects
<1>1. /\ IsSeq(msg) /\ NoTraffic(msg)
      /\ Vals(msg, "call") = <<>> /\ Vals(msg, "transfer") = <<>> /\ Vals(msg, "output") = <<>>
      /\ \A i \in 1 .. Len(msg) : msg[i].kind # "turn_started"
  <2>1. IsSeq(msg) /\ \A i \in 1 .. Len(msg) : msg[i].kind = "message"
    BY MessageShape, Zenon
  <2> HIDE DEF msg
  <2>2. NoTraffic(msg) /\ \A i \in 1 .. Len(msg) : msg[i].kind # "turn_started"
    BY <2>1, Zenon DEF NoTraffic, Traffic
  <2> QED
    BY <2>1, <2>2, QuietVals, Zenon DEF Traffic
<1>2. \A val : /\ Ev("failed", val).kind \notin Traffic /\ Ev("completed", val).kind \notin Traffic
               /\ Ev("turn_started", val).kind \notin Traffic
               /\ Ev("repair_started", val).kind \notin Traffic
               /\ Ev("structured_output_failed", val).kind \notin Traffic
               /\ Ev("structured_output_failed", val).kind # "turn_started"
  BY Zenon DEF Traffic, Ev
<1>3. CASE s.kind = "calling" /\ s.turn >= MaxTurns
  <2>1. o = Fails(s, "max_turns", <<>>)
    BY <1>0, <1>3, SMTT(30) DEF Transition
  <2>2. in.kind # "results"
    BY <1>3, Zenon DEF Expects
  <2>3. /\ o.events = Append(<<>>, Ev("failed", "max_turns")) /\ o.action = "terminate"
        /\ o.state.kind = "failed"
    BY <2>1, FailsParts, Zenon
  <2> HIDE DEF o
  <2> QED
    BY <1>0, <1>2, <2>2, <2>3, EndAnnounces, Zenon DEF o
<1>4. CASE s.kind = "calling" /\ s.turn < MaxTurns /\ in.kind = "start"
  <2>1. o = OnStart(plan, s)
    BY <1>0, <1>4 DEF Transition
  <2> DEFINE e == Ev("turn_started", s.turn)
  <2>2. o.events = <<e>> /\ o.action = "call_model" /\ o.state.kind \in {"calling", "finalizing"}
    <3>1. PICK kind \in {"calling", "finalizing"} : o = AsksModel(kind, s.turn, s.usage, <<e>>)
      BY <2>1, Zenon DEF OnStart
    <3> HIDE DEF o, e
    <3> QED
      BY <3>1, AsksParts
  <2>3. e.kind \notin Traffic
    BY <1>2, Zenon
  <2> HIDE DEF o, e
  <2>4. o.events = Append(<<>>, e)
    BY <2>2
  <2> QED
    BY <1>0, <1>4, <2>2, <2>3, <2>4, AskAnnounces, Zenon DEF o
<1>5. CASE s.kind = "calling" /\ s.turn < MaxTurns /\ in.kind = "response" /\ in.calls # <<>>
  <2>1. o = OnToolCalls(plan, s, in)
    BY <1>0, <1>5 DEF Transition
  <2> DEFINE transfers == {i \in DOMAIN in.calls : IsTransfer(plan, in.calls[i])}
             named == ElementsAt(in.calls, transfers)
  <2>0. DOMAIN in.calls = 1 .. Len(in.calls)
    BY <1>0, Zenon DEF IsSeq
  <2>2. CASE transfers # {}
    <3> DEFINE evs == CallEvents(plan, named)
    <3>1. o.events = msg \o evs /\ o.action = "handoff" /\ o.state.kind = "handoff"
      <4> DEFINE all == msg \o evs
      <4>1. o = Outcome(State("handoff", s.turn, s.usage + in.usage, None), all, "handoff")
        BY <2>1, <2>2, Zenon DEF OnToolCalls
      <4> HIDE DEF o, all
      <4>2. o.events = all /\ o.action = "handoff" /\ o.state.kind = "handoff"
        BY <4>1, ActsParts
      <4> QED
        BY <4>2, Zenon DEF all
    <3>2. IsSeq(named)
      BY <1>0, PickedIsSeq, Zenon
    <3>3. \A j \in 1 .. Len(named) : IsTransfer(plan, named[j])
      <4>1. PICK f : Picks(f, named, in.calls, transfers, Len(in.calls))
        <5> HIDE DEF transfers
        <5> QED
          BY <1>0, Picked
      <4>2. \A j \in 1 .. Len(named) : \E i \in transfers : named[j] = in.calls[i]
        <5> HIDE DEF transfers, named
        <5> QED
          BY <4>1, Zenon DEF Picks
      <4> QED
        BY <4>2, Zenon
    <3>4. Draws(All(named, "id"), CallIds(in))
      <4> HIDE DEF transfers
      <4> QED
        BY <1>0, PickedDraws, Zenon DEF CallIds
    <3> HIDE DEF named
    <3>5. /\ IsSeq(evs) /\ \A i \in 1 .. Len(evs) : evs[i].kind # "turn_started"
          /\ Vals(evs, "output") = <<>> /\ Vals(evs, "call") = <<>>
          /\ Vals(evs, "transfer") = All(named, "id")
      BY <3>2, <3>3, CallEventsVals, Zenon
    <3> HIDE DEF evs
    <3>6. /\ IsSeq(msg \o evs) /\ LateTurn(msg \o evs)
          /\ Vals(msg \o evs, "call") = <<>> /\ Vals(msg \o evs, "output") = <<>>
          /\ Vals(msg \o evs, "transfer") = All(named, "id")
      BY <3>5, MessageThen, Zenon DEF Traffic
    <3> HIDE DEF o, msg
    <3> QED
      BY <1>5, <3>1, <3>4, <3>6, Zenon DEF o, Announces, GoesOn
  <2>3. CASE transfers = {}
    <3> DEFINE evs == CallEvents(plan, in.calls)
    <3>1. o.events = msg \o evs /\ o.action = "execute_tools" /\ o.state.kind = "executing"
      <4> DEFINE all == msg \o evs
      <4>1. o = Outcome(State("executing", s.turn, s.usage + in.usage, None), all, "execute_tools")
        BY <2>1, <2>3, Zenon DEF OnToolCalls
      <4> HIDE DEF o, all
      <4>2. o.events = all /\ o.action = "execute_tools" /\ o.state.kind = "executing"
        BY <4>1, ActsParts
      <4> QED
        BY <4>2, Zenon DEF all
    <3>2. \A i \in 1 .. Len(in.calls) : ~ IsTransfer(plan, in.calls[i])
      BY <2>0, <2>3, Zenon
    <3>3. /\ IsSeq(evs) /\ \A i \in 1 .. Len(evs) : evs[i].kind # "turn_started"
          /\ Vals(evs, "output") = <<>> /\ Vals(evs, "call") = CallIds(in)
          /\ Vals(evs, "transfer") = <<>>
      BY <1>0, <3>2, CallEventsVals, Zenon DEF CallIds
    <3> HIDE DEF evs
    <3>4. /\ IsSeq(msg \o evs) /\ LateTurn(msg \o evs) /\ NoTurn(msg \o evs)
          /\ Vals(msg \o evs, "call") = CallIds(in) /\ Vals(msg \o evs, "output") = <<>>
          /\ Vals(msg \o evs, "transfer") = <<>>
      BY <3>3, MessageThen, Zenon DEF Traffic
    <3> HIDE DEF o, msg
    <3> QED
      BY <1>5, <3>1, <3>4, Zenon DEF o, Announces, GoesOn
  <2> QED
    BY <2>2, <2>3, Zenon
<1>6. CASE s.kind = "calling" /\ s.turn < MaxTurns /\ in.kind = "response" /\ in.calls = <<>>
  <2>1. o = OnAnswer(plan, s, in)
    BY <1>0, <1>6 DEF Transition
  <2>2. CASE plan.output
    <3> DEFINE e == Ev("turn_started", s.turn + 1)
    <3>1. o.events = Append(msg, e) /\ o.action = "call_model" /\ o.state.kind = "finalizing"
      <4> DEFINE all == Append(msg, e)
      <4>1. o = AsksModel("finalizing", s.turn + 1, s.usage + in.usage, all)
        BY <2>1, <2>2, Zenon DEF OnAnswer
      <4> HIDE DEF o, all
      <4>2. o.events = all /\ o.action = "call_model" /\ o.state.kind = "finalizing"
        BY <4>1, AsksParts
      <4> QED
        BY <4>2, Zenon DEF all
    <3>2. e.kind \notin Traffic
      BY <1>2, Zenon
    <3> HIDE DEF o, msg, e
    <3> QED
      BY <1>1, <1>6, <3>1, <3>2, AskAnnounces, Zenon DEF o
  <2>3. CASE ~ plan.output
    <3> DEFINE e == Ev("completed", s.usage + in.usage)
    <3>1. o.events = Append(msg, e) /\ o.action = "terminate" /\ o.state.kind = "done"
      <4>1. o = Completes(s, s.usage + in.usage, msg)
        BY <2>1, <2>3, Zenon DEF OnAnswer
      <4> HIDE DEF o, msg
      <4> QED
        BY <4>1, CompletesParts DEF e
    <3>2. e.kind \notin Traffic
      BY <1>2, Zenon
    <3> HIDE DEF o, msg, e
    <3> QED
      BY <1>1, <1>6, <3>1, <3>2, EndAnnounces, Zenon DEF o
  <2> QED
    BY <2>2, <2>3, Zenon
<1>7. CASE s.kind = "executing" /\ in.kind = "results"
  <2>1. o = OnToolResults(s, in)
    BY <1>0, <1>7, Zenon DEF Transition
  <2> DEFINE evs == [i \in 1 .. Len(in.calls) |-> Ev("output", in.calls[i].id)]
  <2>2. /\ IsSeq(evs) /\ \A i \in 1 .. Len(evs) : evs[i].kind # "turn_started"
        /\ Vals(evs, "output") = CallIds(in) /\ Vals(evs, "call") = <<>> /\ Vals(evs, "transfer") = <<>>
    <3>1. IsSeq(in.calls) /\ evs = [i \in 1 .. Len(in.calls) |-> Ev("output", in.calls[i].id)]
      BY <1>0, Zenon
    <3> HIDE DEF evs
    <3> QED
      BY <3>1, OutputVals, Zenon DEF CallIds
  <2>3. CASE s.turn + 1 >= MaxTurns
    <3> DEFINE e == Ev("failed", "max_turns")
    <3>1. o.events = Append(evs, e) /\ o.action = "terminate" /\ o.state.kind = "failed"
      <4>1. o = Fails(s, "max_turns", evs)
        BY <2>1, <2>3, Zenon DEF OnToolResults
      <4> HIDE DEF o, evs
      <4> QED
        BY <4>1, FailsParts DEF e
    <3>2. e.kind \notin Traffic
      BY <1>2, Zenon
    <3> HIDE DEF o, evs, e
    <3> QED
      BY <1>7, <2>2, <3>1, <3>2, EndAnnounces, Zenon DEF o
  <2>4. CASE ~(s.turn + 1 >= MaxTurns)
    <3> DEFINE e == Ev("turn_started", s.turn + 1)
    <3>1. o.events = Append(evs, e) /\ o.action = "call_model" /\ o.state.kind = "calling"
      <4> DEFINE all == Append(evs, e)
      <4>1. o = AsksModel("calling", s.turn + 1, s.usage, all)
        BY <2>1, <2>4, Zenon DEF OnToolResults
      <4> HIDE DEF o, all
      <4>2. o.events = all /\ o.action = "call_model" /\ o.state.kind = "calling"
        BY <4>1, AsksParts
      <4> QED
        BY <4>2, Zenon DEF all
    <3>2. e.kind \notin Traffic
      BY <1>2, Zenon
    <3> HIDE DEF o, evs, e
    <3> QED
      BY <1>7, <2>2, <3>1, <3>2, AskAnnounces, Zenon DEF o
  <2> QED
    BY <2>3, <2>4, Zenon
<1>8. CASE s.kind = "finalizing" /\ in.kind = "response"
  <2>1. o = OnFinalAnswer(s, in)
    BY <1>0, <1>8, Zenon DEF Transition
  <2>2. CASE Validates(in)
    <3> DEFINE e == Ev("completed", s.usage + in.usage)
    <3>1. o.events = Append(msg, e) /\ o.action = "terminate" /\ o.state.kind = "done"
      <4>1. o = Completes(s, s.usage + in.usage, msg)
        BY <2>1, <2>2, Zenon DEF OnFinalAnswer
      <4> HIDE DEF o, msg
      <4> QED
        BY <4>1, CompletesParts DEF e
    <3>2. e.kind \notin Traffic
      BY <1>2, Zenon
    <3> HIDE DEF o, msg, e
    <3> QED
      BY <1>1, <1>8, <3>1, <3>2, EndAnnounces, Zenon DEF o
  <2>3. CASE ~ Validates(in)
    <3> DEFINE e == Ev("repair_started", 1)
    <3>1. o.events = Append(msg, e) /\ o.action = "call_model" /\ o.state.kind = "repairing"
      <4> DEFINE all == Append(msg, e)
      <4>1. o = AsksModel("repairing", s.turn, s.usage + in.usage, all)
        BY <2>1, <2>3, Zenon DEF OnFinalAnswer
      <4> HIDE DEF o, all
      <4>2. o.events = all /\ o.action = "call_model" /\ o.state.kind = "repairing"
        BY <4>1, AsksParts
      <4> QED
        BY <4>2, Zenon DEF all
    <3>2. e.kind \notin Traffic
      BY <1>2, Zenon
    <3> HIDE DEF o, msg, e
    <3> QED
      BY <1>1, <1>8, <3>1, <3>2, AskAnnounces, Zenon DEF o
  <2> QED
    BY <2>2, <2>3, Zenon
<1>9. CASE s.kind = "repairing" /\ in.kind = "response"
  <2>1. o = OnRepair(s, in)
    BY <1>0, <1>9, Zenon DEF Transition
  <2>2. CASE Validates(in)
    <3> DEFINE e == Ev("completed", s.usage + in.usage)
    <3>1. o.events = Append(msg, e) /\ o.action = "terminate" /\ o.state.kind = "done"
      <4>1. o = Completes(s, s.usage + in.usage, msg)
        BY <2>1, <2>2, Zenon DEF OnRepair
      <4> HIDE DEF o, msg
      <4> QED
        BY <4>1, CompletesParts DEF e
    <3>2. e.kind \notin Traffic
      BY <1>2, Zenon
    <3> HIDE DEF o, msg, e
    <3> QED
      BY <1>1, <1>9, <3>1, <3>2, EndAnnounces, Zenon DEF o
  <2>3. CASE ~ Validates(in)
    <3> DEFINE n == Ev("structured_output_failed", 0)
               evs == Append(msg, n)
               e == Ev("failed", "structured_output")
    <3>1. o.events = Append(evs, e) /\ o.action = "terminate" /\ o.state.kind = "failed"
      <4>1. o = Fails(s, "structured_output", evs)
        BY <2>1, <2>3, Zenon DEF OnRepair
      <4> HIDE DEF o, evs
      <4> QED
        BY <4>1, FailsParts DEF e
    <3>2. e.kind \notin Traffic /\ n.kind \notin Traffic /\ n.kind # "turn_started"
      BY <1>2, Zenon
    <3> HIDE DEF o, msg, e, n
    <3>3. IsSeq(evs) /\ Vals(evs, "call") = <<>> /\ Vals(evs, "transfer") = <<>> /\ Vals(evs, "output") = <<>>
      BY <1>1, <3>2, AppendQuiet, Zenon DEF Traffic
    <3>4. \A i \in 1 .. Len(evs) : evs[i].kind # "turn_started"
      <4>1. /\ Len(evs) = Len(msg) + 1 /\ evs[Len(msg) + 1] = n /\ Len(msg) \in Nat
            /\ \A i \in 1 .. Len(msg) : evs[i] = msg[i]
        BY <1>1, AppendIsSeq DEF IsSeq
      <4> HIDE DEF evs
      <4> QED
        BY <1>1, <3>2, <4>1
    <3> HIDE DEF evs
    <3> QED
      BY <1>9, <3>1, <3>2, <3>3, <3>4, EndAnnounces, Zenon DEF o
  <2> QED
    BY <2>2, <2>3, Zenon
<1> HIDE DEF o
<1>10. s.turn >= MaxTurns \/ s.turn < MaxTurns
  BY <1>0
<1> QED
  BY <1>3, <1>4, <1>5, <1>6, <1>7, <1>8, <1>9, <1>10, Zenon DEF Expects, o

-----------------------------------------------------------------------------
(* The calls and results of the conversation.                                *)

\* No calls have no ids, and no items neither.
LEMMA NoIds == \A in : in.calls = <<>> => CallIds(in) = <<>>
<1> SUFFICES ASSUME NEW in, in.calls = <<>> PROVE CallIds(in) = <<>>
  BY Zenon
<1>1. Listed(<<>>, "call", "id")
  BY ShortLists, FieldLists, Zenon
<1>2. IsSeq(All(<<>>, "id")) /\ Len(All(<<>>, "id")) = 0
  BY <1>1, ShortLists, Zenon DEF Listed
<1> QED
  BY <1>2, EmptyList, Zenon DEF CallIds

\* An empty conversation.
LEMMA IdsShort == \A kind : Ids(<<>>, kind) = <<>>
<1> SUFFICES ASSUME NEW kind PROVE Ids(<<>>, kind) = <<>>
  BY Zenon
<1>1. \A i \in 1 .. Len(<<>>) : <<>>[i].kind # kind
  OBVIOUS
<1> QED
  BY <1>1, ShortLists, FieldUniform, Zenon DEF Ids

\* The calls, or the results, of a turn enter the conversation c, which becomes d.
Enters(c, calls, kind, d) ==
  IsSeq(c) /\ IsSeq(calls) /\ d = c \o [i \in 1 .. Len(calls) |-> Item(kind, calls[i].id)]

\* They are all it gains.
LEMMA ItemsEnter ==
  ASSUME NEW c, NEW calls, NEW kind, NEW d, Enters(c, calls, kind, d), NEW other, other # kind
  PROVE  /\ Ids(d, kind) = Joined(Ids(c, kind), All(calls, "id")) /\ Ids(d, other) = Ids(c, other)
         /\ IsSeq(d) /\ IsSeq(Ids(c, kind)) /\ IsSeq(Ids(c, other)) /\ IsSeq(All(calls, "id"))
<1> DEFINE items == [i \in 1 .. Len(calls) |-> Item(kind, calls[i].id)]
<1>0. Len(calls) \in Nat /\ d = Joined(c, items) /\ IsSeq(c) /\ IsSeq(calls)
  BY Zenon DEF IsSeq, Joined, Enters
<1>1. items = [i \in 1 .. Len(calls) |-> items[i]]
  BY Zenon
<1>2. \A i \in 1 .. Len(calls) : items[i].kind = kind /\ items[i]["id"] = calls[i]["id"]
  BY Zenon DEF Item
<1> HIDE DEF items
<1>3. IsSeq(items) /\ Len(items) = Len(calls)
  BY <1>0, <1>1, ListIsSeq, Zenon
<1>4. Fields(items, kind, "id") = All(items, "id") /\ Fields(items, other, "id") = <<>>
  BY <1>2, <1>3, FieldUniform, Zenon
<1>5. Listed(items, kind, "id") /\ Listed(calls, kind, "id")
  BY <1>0, <1>3, FieldLists, Zenon
<1>6. All(items, "id") = All(calls, "id") /\ IsSeq(All(calls, "id"))
  <2> DEFINE u == All(items, "id")
             v == All(calls, "id")
  <2>1. /\ IsSeq(u) /\ IsSeq(v) /\ Len(u) = Len(v) /\ Len(u) = Len(calls)
        /\ \A i \in 1 .. Len(calls) : u[i] = v[i]
    BY <1>0, <1>2, <1>3, <1>5, Zenon DEF Listed
  <2> HIDE DEF u, v
  <2>2. u = v
    BY <2>1, SameList, Zenon
  <2> QED
    BY <2>1, <2>2, Zenon DEF u, v
<1>7. /\ Fields(Joined(c, items), kind, "id") = Joined(Fields(c, kind, "id"), Fields(items, kind, "id"))
      /\ Fields(Joined(c, items), other, "id") = Joined(Fields(c, other, "id"), Fields(items, other, "id"))
  BY <1>0, <1>3, FieldConcat
<1>8. IsSeq(Fields(c, kind, "id")) /\ IsSeq(Fields(c, other, "id")) /\ IsSeq(Joined(c, items))
  BY <1>0, <1>3, FieldLists, JoinedIsSeq, Zenon DEF Listed
<1>9. Joined(Fields(c, other, "id"), <<>>) = Fields(c, other, "id")
  BY <1>8, Unit, Zenon
<1> QED
  BY <1>0, <1>4, <1>6, <1>7, <1>8, <1>9, Zenon DEF Ids


-----------------------------------------------------------------------------
(* The recorder, and the log it leaves.                                      *)

\* What a function has to satisfy to note the first n events.
Notes(f, evs, n) ==
  f = [i \in 0 .. n |-> IF i = 0 THEN RecordInput ELSE Observe(f[i - 1], evs[i])]

\* There is one, so the recursion of Noted defines it.
LEMMA NotedNotes ==
  ASSUME NEW evs, Len(evs) \in Nat
  PROVE  Notes(Noted(evs), evs, Len(evs))
<1> DEFINE T == {n \in Nat : ~ \E f : Notes(f, evs, n)}
<1>1. ASSUME T # {} PROVE FALSE
  <2>1. PICK m \in T : \A n \in T : m <= n
    BY <1>1, Least
  <2>2. CASE m = 0
    <3>1. Notes([i \in {0} |-> RecordInput], evs, 0)
      BY DEF Notes
    <3> QED
      BY <3>1, <2>2
  <2>3. CASE m # 0
    <3>1. m - 1 \in Nat /\ m - 1 \notin T
      BY <2>1, <2>3
    <3>2. PICK f : Notes(f, evs, m - 1)
      BY <3>1
    <3> DEFINE g == [i \in 0 .. m |-> IF i < m THEN f[i] ELSE Observe(f[m - 1], evs[m])]
    <3>3. Notes(g, evs, m)
      BY <3>1, <3>2 DEF Notes
    <3> QED
      BY <3>3
  <2> QED
    BY <2>2, <2>3
<1>2. \E f : Notes(f, evs, Len(evs))
  BY <1>1
<1> QED
  BY <1>2 DEF Noted, Notes

\* One step of such a function.
LEMMA NotesAt ==
  ASSUME NEW f, NEW evs, NEW n \in Nat, Notes(f, evs, n)
  PROVE  f[0] = RecordInput /\ \A i \in 1 .. n : f[i] = Observe(f[i - 1], evs[i])
BY DEF Notes

\* One step of Noted.
LEMMA NotedGrows ==
  ASSUME NEW evs, Len(evs) \in Nat
  PROVE  /\ Noted(evs)[0] = RecordInput
         /\ \A i \in 1 .. Len(evs) : Noted(evs)[i] = Observe(Noted(evs)[i - 1], evs[i])
BY NotedNotes, NotesAt

\* Later events do not change what was noted.
LEMMA NotedSame ==
  ASSUME NEW s, NEW t, Len(s) \in Nat, Len(t) \in Nat, Len(s) <= Len(t),
         \A i \in 1 .. Len(s) : s[i] = t[i]
  PROVE  Noted(s)[Len(s)] = Noted(t)[Len(s)]
<1> DEFINE T == {i \in 0 .. Len(s) : Noted(s)[i] # Noted(t)[i]}
<1>1. ASSUME T # {} PROVE FALSE
  <2>1. PICK m \in T : \A i \in T : m <= i
    <3>1. T \in SUBSET Nat
      OBVIOUS
    <3> QED
      BY <1>1, <3>1, Least
  <2>2. m # 0
    BY <2>1, NotedGrows
  <2>3. m - 1 \in 0 .. Len(s) /\ m - 1 \notin T /\ m \in 1 .. Len(s) /\ m \in 1 .. Len(t)
    BY <2>1, <2>2
  <2>4. Noted(s)[m - 1] = Noted(t)[m - 1]
    BY <2>3, Zenon
  <2>5. /\ Noted(s)[m] = Observe(Noted(s)[m - 1], s[m])
        /\ Noted(t)[m] = Observe(Noted(t)[m - 1], t[m])
    BY <2>3, NotedGrows, Zenon
  <2> QED
    BY <2>1, <2>3, <2>4, <2>5, Zenon
<1>2. Len(s) \in 0 .. Len(s)
  OBVIOUS
<1> QED
  BY <1>1, <1>2, Zenon

\* The record, event by event.
LEMMA RecordedGrows ==
  /\ Recorded(<<>>) = RecordInput
  /\ \A s, e : IsSeq(s) => Recorded(Append(s, e)) = Observe(Recorded(s), e)
<1>1. Recorded(<<>>) = RecordInput
  BY ShortLists, NotedGrows, Zenon DEF Recorded, IsSeq
<1>2. ASSUME NEW s, NEW e, IsSeq(s) PROVE Recorded(Append(s, e)) = Observe(Recorded(s), e)
  <2> DEFINE l == Append(s, e)
  <2>1. /\ Len(s) \in Nat /\ Len(l) = Len(s) + 1 /\ l[Len(s) + 1] = e /\ \A i \in 1 .. Len(s) : l[i] = s[i]
    BY <1>2, AppendIsSeq DEF IsSeq
  <2> HIDE DEF l
  <2>2. Len(l) \in Nat /\ Len(s) <= Len(l) /\ Len(l) \in 1 .. Len(l) /\ Len(l) - 1 = Len(s)
    BY <2>1
  <2>3. Noted(l)[Len(l)] = Observe(Noted(l)[Len(s)], e)
    BY <2>1, <2>2, NotedGrows, Zenon
  <2>4. Noted(s)[Len(s)] = Noted(l)[Len(s)]
    BY <2>1, <2>2, NotedSame, Zenon
  <2> QED
    BY <2>3, <2>4, Zenon DEF Recorded, l
<1> QED
  BY <1>1, <1>2, Zenon

\* What the recorder does to a list, and what it is drained into.
LEMMA RecordLists ==
  /\ IsSeq(RecordInput)
  /\ \A rec, e : IsSeq(rec) => IsSeq(Observe(rec, e))
  /\ \A rec : IsSeq(rec) => IsSeq(Drain(rec))
<1>1. IsSeq(RecordInput)
  BY ShortLists, Zenon DEF RecordInput
<1>2. ASSUME NEW rec, NEW e, IsSeq(rec) PROVE IsSeq(Observe(rec, e))
  <2>1. \A i : IsSeq(Append(rec, i))
    BY <1>2, AppendIsSeq, Zenon
  <2> QED
    BY <1>2, <2>1, Zenon DEF Observe
<1>3. ASSUME NEW rec, IsSeq(rec) PROVE IsSeq(Drain(rec))
  <2> DEFINE returned == {rec[i].id : i \in {j \in DOMAIN rec : rec[j].kind = "returned"}}
             open == ElementsAt(rec, {j \in DOMAIN rec : rec[j].kind = "called" /\ rec[j].id \notin returned})
             added == [i \in 1 .. Len(open) |-> Item("returned", open[i].id)]
  <2>1. IsSeq(open)
    BY <1>3, PickedIsSeq, Zenon
  <2>2. Drain(rec) = rec \o added
    BY Zenon DEF Drain
  <2> HIDE DEF open
  <2>3. Len(open) \in Nat /\ added = [i \in 1 .. Len(open) |-> added[i]]
    BY <2>1, Zenon DEF IsSeq
  <2> HIDE DEF added
  <2>4. IsSeq(added)
    BY <2>3, ListIsSeq, Zenon
  <2> QED
    BY <1>3, <2>2, <2>4, ConcatIsSeq, Zenon
<1> QED
  BY <1>1, <1>2, <1>3, Zenon

\* Each of the kinds K stands for its value once.
OneEach(evs, K) ==
  \A i, j \in 1 .. Len(evs) :
    evs[i].kind \in K /\ evs[j].kind \in K /\ evs[i].val = evs[j].val => i = j

Calling == {"call", "transfer"}

Orderly(evs) ==
  /\ OneEach(evs, Calling) /\ OneEach(evs, {"output"})
  /\ \A i \in 1 .. Len(evs) : evs[i].kind = "output" =>
       \E j \in 1 .. Len(evs) : evs[j].kind \in Calling /\ evs[j].val = evs[i].val

\* The items of one kind are those that the first n events of the kinds K stand for, each once.
Logs(r, evs, n, tag, K) ==
  /\ \A i \in 1 .. n : evs[i].kind \in K =>
       \E j \in 1 .. Len(r) : r[j].kind = tag /\ r[j].id = evs[i].val
  /\ \A j \in 1 .. Len(r) : r[j].kind = tag =>
       \E i \in 1 .. n : evs[i].kind \in K /\ evs[i].val = r[j].id
  /\ \A j, k \in 1 .. Len(r) : r[j].kind = tag /\ r[k].kind = tag /\ r[j].id = r[k].id => j = k

\* What an event makes of a record, as far as the items of one kind go.
Logged(r, e, q, tag, K) ==
  \/ q = r /\ e.kind \notin K
  \/ \E it : q = Append(r, it) /\ IF e.kind \in K THEN it.kind = tag /\ it.id = e.val ELSE it.kind # tag

\* One event more.
LEMMA LogsGrow ==
  ASSUME NEW evs, Len(evs) \in Nat, NEW tag, NEW K, OneEach(evs, K), NEW n \in 1 .. Len(evs),
         NEW r, IsSeq(r), Logs(r, evs, n - 1, tag, K), NEW q, Logged(r, evs[n], q, tag, K)
  PROVE  Logs(q, evs, n, tag, K)
<1>0. Len(r) \in Nat /\ n - 1 \in Nat /\ n \in 1 .. n
  BY DEF IsSeq
<1>1. \A i \in 1 .. n : i \in 1 .. n - 1 \/ i = n
  BY <1>0
<1>2. \A i \in 1 .. n - 1 : i \in 1 .. n /\ i # n /\ i \in 1 .. Len(evs)
  BY <1>0
<1>3. CASE q = r /\ evs[n].kind \notin K
  BY <1>1, <1>2, <1>3, Zenon DEF Logs
<1>4. ASSUME NEW it, q = Append(r, it),
             IF evs[n].kind \in K THEN it.kind = tag /\ it.id = evs[n].val ELSE it.kind # tag
      PROVE  Logs(q, evs, n, tag, K)
  <2>1. /\ Len(q) = Len(r) + 1 /\ q[Len(r) + 1] = it /\ \A j \in 1 .. Len(r) : q[j] = r[j]
    BY <1>4, AppendIsSeq
  <2> DEFINE z == Len(r) + 1
  <2>2. /\ \A j \in 1 .. Len(q) : j \in 1 .. Len(r) \/ j = z
        /\ \A j \in 1 .. Len(r) : j \in 1 .. Len(q)
        /\ z \in 1 .. Len(q)
    BY <1>0, <2>1
  <2>3. q[z] = it
    BY <2>1, Zenon
  <2> HIDE DEF z
  <2>4. ASSUME NEW i \in 1 .. n, evs[i].kind \in K
        PROVE  \E j \in 1 .. Len(q) : q[j].kind = tag /\ q[j].id = evs[i].val
    <3>1. CASE i = n
      BY <1>4, <2>2, <2>3, <2>4, <3>1, Zenon
    <3>2. CASE i \in 1 .. n - 1
      <4>1. PICK j \in 1 .. Len(r) : r[j].kind = tag /\ r[j].id = evs[i].val
        BY <2>4, <3>2, Zenon DEF Logs
      <4>2. j \in 1 .. Len(q) /\ q[j] = r[j]
        BY <2>1, <2>2, Zenon
      <4> QED
        BY <4>1, <4>2, Zenon
    <3> QED
      BY <1>1, <3>1, <3>2, Zenon
  <2>5. ASSUME NEW j \in 1 .. Len(q), q[j].kind = tag
        PROVE  \E i \in 1 .. n : evs[i].kind \in K /\ evs[i].val = q[j].id
    <3>1. CASE j \in 1 .. Len(r)
      <4>1. PICK i \in 1 .. n - 1 : evs[i].kind \in K /\ evs[i].val = r[j].id
        BY <2>1, <2>5, <3>1, Zenon DEF Logs
      <4> QED
        BY <1>2, <2>1, <3>1, <4>1, Zenon
    <3>2. CASE j = z
      BY <1>0, <1>4, <2>3, <2>5, <3>2, Zenon
    <3> QED
      BY <2>2, <3>1, <3>2, Zenon
  <2>6. ASSUME NEW j \in 1 .. Len(r), it.kind = tag, r[j].kind = tag, r[j].id = it.id PROVE FALSE
    <3>1. PICK i \in 1 .. n - 1 : evs[i].kind \in K /\ evs[i].val = r[j].id
      BY <2>6, Zenon DEF Logs
    <3>2. evs[n].kind \in K /\ evs[n].val = r[j].id
      BY <1>4, <2>6, Zenon
    <3> QED
      BY <1>2, <3>1, <3>2, Zenon DEF OneEach
  <2>7. ASSUME NEW j \in 1 .. Len(q), NEW k \in 1 .. Len(q),
               q[j].kind = tag, q[k].kind = tag, q[j].id = q[k].id
        PROVE  j = k
    <3>1. CASE j \in 1 .. Len(r) /\ k \in 1 .. Len(r)
      BY <2>1, <2>7, <3>1, Zenon DEF Logs
    <3>2. CASE j \in 1 .. Len(r) /\ k = z
      BY <2>1, <2>3, <2>6, <2>7, <3>2, Zenon
    <3>3. CASE j = z /\ k \in 1 .. Len(r)
      BY <2>1, <2>3, <2>6, <2>7, <3>3, Zenon
    <3> QED
      BY <2>2, <3>1, <3>2, <3>3, Zenon
  <2> QED
    BY <2>4, <2>5, <2>7, Zenon DEF Logs
<1> QED
  BY <1>3, <1>4, Zenon DEF Logged

\* The record is a list of items.
Items(r) == IsSeq(r) /\ \A j \in 1 .. Len(r) : r[j] = Item(r[j].kind, r[j].id)

\* What Observe makes of a record.
LEMMA ObserveLogs ==
  ASSUME NEW r, Items(r), NEW e
  PROVE  /\ Items(Observe(r, e))
         /\ Logged(r, e, Observe(r, e), "called", Calling)
         /\ Logged(r, e, Observe(r, e), "returned", {"output"})
<1> DEFINE q == Observe(r, e)
<1>1. ASSUME NEW kind, NEW id PROVE Items(Append(r, Item(kind, id)))
  <2> DEFINE it == Item(kind, id)
             a == Append(r, it)
  <2>1. it = Item(it.kind, it.id)
    BY DEF Item
  <2> HIDE DEF it
  <2>2. /\ IsSeq(a) /\ Len(a) = Len(r) + 1 /\ a[Len(r) + 1] = it /\ \A j \in 1 .. Len(r) : a[j] = r[j]
        /\ Len(r) \in Nat
    BY AppendIsSeq DEF Items, IsSeq
  <2> HIDE DEF a
  <2>3. \A j \in 1 .. Len(a) : j \in 1 .. Len(r) \/ j = Len(r) + 1
    BY <2>2
  <2>4. Items(a)
    BY <2>1, <2>2, <2>3, Zenon DEF Items
  <2> QED
    BY <2>4, Zenon DEF a, it
<1>2. \A kind, id : Item(kind, id).kind = kind /\ Item(kind, id).id = id
  BY DEF Item
<1>3. ASSUME NEW kind, NEW id, q = Append(r, Item(kind, id)),
             IF e.kind \in Calling THEN kind = "called" /\ id = e.val ELSE kind # "called",
             IF e.kind \in {"output"} THEN kind = "returned" /\ id = e.val ELSE kind # "returned"
      PROVE  Items(q) /\ Logged(r, e, q, "called", Calling) /\ Logged(r, e, q, "returned", {"output"})
  <2> DEFINE it == Item(kind, id)
  <2>1. Items(q)
    BY <1>1, <1>3, Zenon
  <2>2. q = Append(r, it) /\ it.kind = kind /\ it.id = id
    BY <1>2, <1>3, Zenon
  <2> HIDE DEF it, q
  <2>3. Logged(r, e, q, "called", Calling)
    BY <1>3, <2>2, Zenon DEF Logged
  <2>4. Logged(r, e, q, "returned", {"output"})
    BY <1>3, <2>2, Zenon DEF Logged
  <2> QED
    BY <2>1, <2>3, <2>4, Zenon
<1>4. \/ q = r /\ e.kind \notin Calling /\ e.kind \notin {"output"}
      \/ q = Append(r, Item("assistant", 0)) /\ e.kind = "message"
      \/ q = Append(r, Item("called", e.val)) /\ e.kind \in Calling
      \/ q = Append(r, Item("returned", e.val)) /\ e.kind = "output"
      \/ q = Append(r, Item("handoff", 0)) /\ e.kind = "handoff"
  BY Zenon DEF Observe, Calling
<1> HIDE DEF q
<1>5. CASE q = r /\ e.kind \notin Calling /\ e.kind \notin {"output"}
  BY <1>5, Zenon DEF Logged, q
<1>6. CASE q = Append(r, Item("assistant", 0)) /\ e.kind = "message"
  BY <1>3, <1>6, Zenon DEF Calling, q
<1>7. CASE q = Append(r, Item("called", e.val)) /\ e.kind \in Calling
  BY <1>3, <1>7, Zenon DEF Calling, q
<1>8. CASE q = Append(r, Item("returned", e.val)) /\ e.kind = "output"
  BY <1>3, <1>8, Zenon DEF Calling, q
<1>9. CASE q = Append(r, Item("handoff", 0)) /\ e.kind = "handoff"
  BY <1>3, <1>9, Zenon DEF Calling, q
<1> QED
  BY <1>4, <1>5, <1>6, <1>7, <1>8, <1>9, Zenon

\* The record of an orderly stream.
LEMMA RecordLogs ==
  ASSUME NEW evs, IsSeq(evs), Orderly(evs)
  PROVE  /\ Items(Recorded(evs))
         /\ Logs(Recorded(evs), evs, Len(evs), "called", Calling)
         /\ Logs(Recorded(evs), evs, Len(evs), "returned", {"output"})
<1>0. Len(evs) \in Nat
  BY Zenon DEF IsSeq
<1> DEFINE N(n) == Noted(evs)[n]
           Right(n) == /\ Items(N(n))
                       /\ Logs(N(n), evs, n, "called", Calling)
                       /\ Logs(N(n), evs, n, "returned", {"output"})
           T == {n \in 0 .. Len(evs) : ~ Right(n)}
<1>1. Right(0)
  <2>1. N(0) = RecordInput
    BY <1>0, NotedGrows, Zenon
  <2>2. Items(RecordInput)
    BY DEF Items, RecordInput, Item, IsSeq
  <2>3. Logs(RecordInput, evs, 0, "called", Calling) /\ Logs(RecordInput, evs, 0, "returned", {"output"})
    BY DEF Logs, RecordInput, Item
  <2> QED
    BY <2>1, <2>2, <2>3, Zenon
<1>2. ASSUME NEW m \in 1 .. Len(evs), Right(m - 1) PROVE Right(m)
  <2> DEFINE r == N(m - 1)
             q == Observe(r, evs[m])
  <2>1. N(m) = q
    BY <1>0, NotedGrows, Zenon
  <2>2. /\ Items(r) /\ IsSeq(r)
        /\ Logs(r, evs, m - 1, "called", Calling)
        /\ Logs(r, evs, m - 1, "returned", {"output"})
    BY <1>2, Zenon DEF Items
  <2>3. OneEach(evs, Calling) /\ OneEach(evs, {"output"})
    BY Zenon DEF Orderly
  <2> HIDE DEF r
  <2>4. /\ Items(q) /\ Logged(r, evs[m], q, "called", Calling)
        /\ Logged(r, evs[m], q, "returned", {"output"})
    BY <2>2, ObserveLogs, Zenon
  <2> HIDE DEF q
  <2>5. Logs(q, evs, m, "called", Calling)
    BY <1>0, <2>2, <2>3, <2>4, LogsGrow, Zenon
  <2>6. Logs(q, evs, m, "returned", {"output"})
    BY <1>0, <2>2, <2>3, <2>4, LogsGrow, Zenon
  <2> QED
    BY <2>1, <2>4, <2>5, <2>6, Zenon
<1> HIDE DEF Right
<1>3. ASSUME T # {} PROVE FALSE
  <2>1. PICK m \in T : \A i \in T : m <= i
    <3>1. T \in SUBSET Nat
      BY <1>0
    <3> QED
      BY <1>3, <3>1, Least
  <2>2. m # 0
    BY <1>1, <2>1, Zenon
  <2>3. m - 1 \in 0 .. Len(evs) /\ m - 1 \notin T /\ m \in 1 .. Len(evs)
    BY <1>0, <2>1, <2>2
  <2> QED
    BY <1>2, <2>1, <2>3, Zenon
<1>4. Len(evs) \in 0 .. Len(evs)
  BY <1>0
<1>5. Right(Len(evs))
  BY <1>3, <1>4, Zenon
<1> QED
  BY <1>5, Zenon DEF Right, Recorded

\* The calls of a log and their results.
CallsOf(d, id) == {i \in DOMAIN d : d[i] = Item("called", id)}
ResultsOf(d, id) == {i \in DOMAIN d : d[i] = Item("returned", id)}

\* Items are told apart by their kind and their id.
LEMMA ItemsTold ==
  \A x, y : /\ Item("returned", y) # Item("called", x)
            /\ Item("returned", y) = Item("returned", x) <=> y = x
<1> SUFFICES ASSUME NEW x, NEW y
             PROVE  /\ Item("returned", y) # Item("called", x)
                    /\ Item("returned", y) = Item("returned", x) <=> y = x
  BY Zenon
<1>1. /\ Item("returned", y).kind = "returned" /\ Item("called", x).kind = "called"
      /\ Item("returned", y).id = y /\ Item("returned", x).id = x
  BY DEF Item
<1> QED
  BY <1>1, Zenon

\* Draining answers each open call, once.
LEMMA DrainAnswers ==
  ASSUME NEW r, Items(r),
         \A j, k \in 1 .. Len(r) : r[j].kind = "called" /\ r[k].kind = "called" /\ r[j].id = r[k].id => j = k,
         \A j, k \in 1 .. Len(r) : r[j].kind = "returned" /\ r[k].kind = "returned" /\ r[j].id = r[k].id => j = k,
         \A j \in 1 .. Len(r) : r[j].kind = "returned" =>
           \E k \in 1 .. Len(r) : r[k].kind = "called" /\ r[k].id = r[j].id,
         NEW id
  PROVE  /\ \A i, j \in CallsOf(Drain(r), id) : i = j
         /\ \A i, j \in ResultsOf(Drain(r), id) : i = j
         /\ CallsOf(Drain(r), id) = {} <=> ResultsOf(Drain(r), id) = {}
<1> DEFINE returned == {r[i].id : i \in {j \in DOMAIN r : r[j].kind = "returned"}}
           P == {j \in DOMAIN r : r[j].kind = "called" /\ r[j].id \notin returned}
           open == ElementsAt(r, P)
           added == [i \in 1 .. Len(open) |-> Item("returned", open[i].id)]
           d == r \o added
<1>0. IsSeq(r) /\ Len(r) \in Nat /\ DOMAIN r = 1 .. Len(r)
  BY Zenon DEF Items, IsSeq
<1>1. Drain(r) = d
  BY Zenon DEF Drain
<1>2. /\ \A x : x \in returned <=> \E j \in 1 .. Len(r) : r[j].kind = "returned" /\ r[j].id = x
      /\ \A j : j \in P <=> j \in 1 .. Len(r) /\ r[j].kind = "called" /\ r[j].id \notin returned
  BY <1>0, Zenon
<1> HIDE DEF returned, P
<1>3. PICK f : Picks(f, open, r, P, Len(r))
  BY <1>0, Picked, Zenon
<1>4. IsSeq(open)
  BY <1>0, PickedIsSeq, Zenon
<1> HIDE DEF open
<1>4a. Len(open) \in Nat
  BY <1>4, Zenon DEF IsSeq
<1>5. /\ added = [i \in 1 .. Len(open) |-> added[i]]
      /\ \A i \in 1 .. Len(open) : added[i] = Item("returned", open[i].id)
  BY Zenon
<1> HIDE DEF added
<1>6. IsSeq(added) /\ Len(added) = Len(open)
  BY <1>4, <1>4a, <1>5, ListIsSeq, Zenon
<1>7. /\ IsSeq(d) /\ Len(d) = Len(r) + Len(added)
      /\ \A i \in 1 .. Len(r) + Len(added) : d[i] = IF i <= Len(r) THEN r[i] ELSE added[i - Len(r)]
  BY <1>0, <1>6, ConcatIsSeq, Zenon
<1> HIDE DEF d
<1>8. /\ DOMAIN d = 1 .. Len(d)
      /\ \A i \in 1 .. Len(r) : i \in DOMAIN d /\ d[i] = r[i]
      /\ \A i \in 1 .. Len(open) : Len(r) + i \in DOMAIN d /\ d[Len(r) + i] = added[i]
      /\ \A i \in DOMAIN d : i \in 1 .. Len(r) \/ \E j \in 1 .. Len(open) : i = Len(r) + j
  <2>0. DOMAIN d = 1 .. Len(d)
    BY <1>7, Zenon DEF IsSeq
  <2>1. ASSUME NEW i \in 1 .. Len(open) PROVE Len(r) + i \in 1 .. Len(d) /\ d[Len(r) + i] = added[i]
    <3>1. Len(r) + i \in 1 .. Len(d) /\ ~(Len(r) + i <= Len(r)) /\ Len(r) + i - Len(r) = i
      BY <1>0, <1>4, <1>4a, <1>6, <1>7
    <3> QED
      BY <1>7, <3>1
  <2>2. ASSUME NEW i \in 1 .. Len(d), i \notin 1 .. Len(r) PROVE \E j \in 1 .. Len(open) : i = Len(r) + j
    <3>1. i - Len(r) \in 1 .. Len(open) /\ i = Len(r) + (i - Len(r))
      BY <1>0, <1>4, <1>4a, <1>6, <1>7, <2>2
    <3> QED
      BY <3>1, Zenon
  <2>3. \A i \in 1 .. Len(r) : i \in 1 .. Len(d) /\ d[i] = r[i]
    BY <1>0, <1>4, <1>4a, <1>6, <1>7
  <2> QED
    BY <2>0, <2>1, <2>2, <2>3, Zenon
<1>9. \A kind, x : Item(kind, x).kind = kind /\ Item(kind, x).id = x
  BY DEF Item
<1>10. \A kind, x : \A j \in 1 .. Len(r) : r[j] = Item(kind, x) <=> r[j].kind = kind /\ r[j].id = x
  <2> SUFFICES ASSUME NEW kind, NEW x, NEW j \in 1 .. Len(r)
               PROVE  r[j] = Item(kind, x) <=> r[j].kind = kind /\ r[j].id = x
    BY Zenon
  <2>1. r[j] = Item(r[j].kind, r[j].id)
    BY Zenon DEF Items
  <2>2. r[j] = Item(kind, x) => r[j].kind = kind /\ r[j].id = x
    BY <1>9
  <2> QED
    BY <2>1, <2>2, Zenon
<1>11. ASSUME NEW k \in 1 .. Len(open)
       PROVE  /\ f[k] \in 1 .. Len(r) /\ open[k] = r[f[k]] /\ r[f[k]].kind = "called"
              /\ r[f[k]].id \notin returned
  <2>1. f[k] \in P /\ open[k] = r[f[k]]
    BY <1>3, Zenon DEF Picks
  <2> QED
    BY <1>2, <2>1, Zenon
<1>12. \A k \in 1 .. Len(open) : \A x :
         /\ added[k] # Item("called", x)
         /\ added[k] = Item("returned", x) <=> r[f[k]].id = x
  <2> SUFFICES ASSUME NEW k \in 1 .. Len(open), NEW x
               PROVE  /\ added[k] # Item("called", x)
                      /\ added[k] = Item("returned", x) <=> r[f[k]].id = x
    BY Zenon
  <2>1. added[k] = Item("returned", open[k].id) /\ open[k] = r[f[k]]
    BY <1>5, <1>11, Zenon
  <2> DEFINE y == r[f[k]].id
  <2>2. open[k].id = y
    BY <2>1
  <2> HIDE DEF y
  <2>3. added[k] = Item("returned", y)
    BY <2>1, <2>2
  <2>4. /\ Item("returned", y) # Item("called", x)
        /\ Item("returned", y) = Item("returned", x) <=> y = x
    BY ItemsTold, Zenon
  <2>5. added[k] # Item("called", x) /\ (added[k] = Item("returned", x) <=> y = x)
    BY <2>3, <2>4
  <2> QED
    BY <2>5, Zenon DEF y
<1>13. \A i : i \in CallsOf(d, id) <=> i \in 1 .. Len(r) /\ r[i].kind = "called" /\ r[i].id = id
  <2>1. ASSUME NEW i \in DOMAIN d, d[i] = Item("called", id) PROVE i \in 1 .. Len(r)
    BY <1>8, <1>12, <2>1
  <2> QED
    BY <1>8, <1>10, <2>1 DEF CallsOf
<1>14. /\ \A i \in ResultsOf(d, id) : \/ i \in 1 .. Len(r) /\ r[i].kind = "returned" /\ r[i].id = id
                                 \/ \E k \in 1 .. Len(open) : i = Len(r) + k /\ r[f[k]].id = id
       /\ \A i \in 1 .. Len(r) : r[i].kind = "returned" /\ r[i].id = id => i \in ResultsOf(d, id)
       /\ \A k \in 1 .. Len(open) : r[f[k]].id = id => Len(r) + k \in ResultsOf(d, id)
  <2>1. ASSUME NEW i \in ResultsOf(d, id)
        PROVE  \/ i \in 1 .. Len(r) /\ r[i].kind = "returned" /\ r[i].id = id
               \/ \E k \in 1 .. Len(open) : i = Len(r) + k /\ r[f[k]].id = id
    <3>1. i \in DOMAIN d /\ d[i] = Item("returned", id)
      BY Zenon DEF ResultsOf
    <3>2. CASE i \in 1 .. Len(r)
      BY <1>8, <1>10, <3>1, <3>2
    <3>3. ASSUME NEW k \in 1 .. Len(open), i = Len(r) + k PROVE r[f[k]].id = id
      BY <1>8, <1>12, <3>1, <3>3
    <3> QED
      BY <1>8, <3>1, <3>2, <3>3, Zenon
  <2>2. ASSUME NEW i \in 1 .. Len(r), r[i].kind = "returned", r[i].id = id PROVE i \in ResultsOf(d, id)
    BY <1>8, <1>10, <2>2 DEF ResultsOf
  <2>3. ASSUME NEW k \in 1 .. Len(open), r[f[k]].id = id PROVE Len(r) + k \in ResultsOf(d, id)
    BY <1>8, <1>12, <2>3 DEF ResultsOf
  <2> QED
    BY <2>1, <2>2, <2>3, Zenon
<1>15. \A i, j \in CallsOf(d, id) : i = j
  BY <1>13, Zenon
<1>16. ASSUME NEW i \in ResultsOf(d, id), NEW j \in ResultsOf(d, id) PROVE i = j
  <2>1. CASE /\ i \in 1 .. Len(r) /\ r[i].kind = "returned" /\ r[i].id = id
             /\ j \in 1 .. Len(r) /\ r[j].kind = "returned" /\ r[j].id = id
    BY <2>1, Zenon
  <2>2. ASSUME NEW l \in 1 .. Len(r), r[l].kind = "returned", r[l].id = id,
               NEW k \in 1 .. Len(open), r[f[k]].id = id
        PROVE  FALSE
    BY <1>2, <1>11, <2>2
  <2>3. ASSUME NEW k \in 1 .. Len(open), i = Len(r) + k, r[f[k]].id = id,
               NEW l \in 1 .. Len(open), j = Len(r) + l, r[f[l]].id = id
        PROVE  i = j
    <3>1. f[k] = f[l] /\ f[k] \in 1 .. Len(r) /\ f[l] \in 1 .. Len(r)
      BY <1>11, <2>3, Zenon
    <3>2. k < l => f[k] < f[l]
      BY <1>3, Zenon DEF Picks
    <3>3. l < k => f[l] < f[k]
      BY <1>3, Zenon DEF Picks
    <3>4. k = l
      BY <1>4, <1>4a, <3>1, <3>2, <3>3
    <3> QED
      BY <2>3, <3>4, Zenon
  <2> QED
    BY <1>14, <2>1, <2>2, <2>3
<1>17. ASSUME NEW i \in CallsOf(d, id) PROVE ResultsOf(d, id) # {}
  <2>1. i \in 1 .. Len(r) /\ r[i].kind = "called" /\ r[i].id = id
    BY <1>13, Zenon
  <2>2. CASE id \in returned
    BY <1>2, <1>14, <2>2, Zenon
  <2>3. CASE id \notin returned
    <3>1. i \in P
      BY <1>2, <2>1, <2>3, Zenon
    <3>2. PICK k \in 1 .. Len(open) : f[k] = i
      BY <1>3, <2>1, <3>1, Zenon DEF Picks
    <3> QED
      BY <1>14, <2>1, <3>2, Zenon
  <2> QED
    BY <2>2, <2>3, Zenon
<1>18. ASSUME NEW i \in ResultsOf(d, id) PROVE CallsOf(d, id) # {}
  <2>1. CASE i \in 1 .. Len(r) /\ r[i].kind = "returned" /\ r[i].id = id
    <3>1. PICK k \in 1 .. Len(r) : r[k].kind = "called" /\ r[k].id = id
      BY <2>1, Zenon
    <3> QED
      BY <1>13, <3>1, Zenon
  <2>2. ASSUME NEW k \in 1 .. Len(open), r[f[k]].id = id PROVE CallsOf(d, id) # {}
    BY <1>11, <1>13, <2>2, Zenon
  <2> QED
    BY <1>14, <2>1, <2>2, Zenon
<1>19. CallsOf(d, id) = {} <=> ResultsOf(d, id) = {}
  BY <1>17, <1>18, Zenon
<1> QED
  BY <1>1, <1>15, <1>16, <1>19, Zenon
=============================================================================
