-------------------------- MODULE AgentCoreProofs ---------------------------
(***************************************************************************)
(* The AgentCore runtime: invocations, for any number of requests and any  *)
(* channel capacity; and A2A tasks, for any number of tasks, messages,     *)
(* cancel requests and streams, and stores and logs of any size.           *)
(***************************************************************************)
EXTENDS A2ATasks, Invocations, TLAPS

-----------------------------------------------------------------------------
(* One invocation.                                                           *)

\* What was received, and what is in the channel of a response that is being
\* served, is the run's stream in order; the driver holds at most its last event.
InOrder(c) ==
  LET got == Len(received[c])  queued == Len(channel[c])  all == Len(yielded[c])
  IN  /\ got <= all /\ \A i \in 1 .. got : received[c][i] = yielded[c][i]
      /\ handler[c] # "serving" => channel[c] = <<>>
      /\ \A i \in 1 .. queued : got + i <= all /\ channel[c][i] = yielded[c][got + i]
      /\ handler[c] = "serving" => got + queued + Len(in_hand[c]) = all
      /\ Len(in_hand[c]) <= 1
      /\ in_hand[c] # <<>> => all > 0 /\ in_hand[c][1] = yielded[c][all]

\* An ending is the last event of a run, shown after the turn was finalized unless
\* the run never started.
EndsLast(c) ==
  LET all == Len(yielded[c])
  IN  /\ \A i \in 1 .. all : yielded[c][i] \in Closing => i = all /\ task[c] \in {"ending", "over"}
      /\ task[c] \in {"ending", "over"} =>
           all > 0 /\ yielded[c][all] \in Closing /\ (finalized[c] \/ yielded[c] = <<"failed">>)
      /\ task[c] \in {"over", "panicked"} => in_hand[c] = <<>>
      /\ task[c] \in {"none", "loading"} => yielded[c] = <<>>
      /\ accept[c] = "json" => all <= 1 /\ (task[c] \in {"running", "panicked"} => yielded[c] = <<>>)

\* Before its launch an invocation has run nothing; a response ends only with a run
\* that ended, and then it is complete.
HandlerRight(c) ==
  /\ handler[c] \in {"new", "resolving", "refused"} => task[c] = "none"
  /\ handler[c] = "over" =>
       /\ task[c] \in {"ending", "over", "panicked"} /\ in_hand[c] = <<>>
       /\ Len(received[c]) = Len(yielded[c])

AnswerTypes ==
  /\ accept \in [Clients -> {"json", "sse"}]
  /\ handler \in [Clients -> {"new", "resolving", "refused", "serving", "over", "gone"}]
  /\ task \in [Clients -> {"none", "loading", "running", "ending", "over", "panicked"}]
  /\ finalized \in [Clients -> BOOLEAN]
  /\ yielded \in [Clients -> Seq(Event)] /\ in_hand \in [Clients -> Seq(Event)]
  /\ channel \in [Clients -> Seq(Event)] /\ received \in [Clients -> Seq(Event)]

ClientInv(c) == InOrder(c) /\ EndsLast(c) /\ HandlerRight(c)

AnswerInv == AnswerTypes /\ \A c \in Clients : ClientInv(c)

-----------------------------------------------------------------------------
(* An invocation keeps its invariant.                                        *)

\* A step of request c changes nothing that belongs to another one.
OnlyOf(c) ==
  \A d \in Clients \ {c} :
    /\ accept'[d] = accept[d] /\ handler'[d] = handler[d] /\ task'[d] = task[d]
    /\ finalized'[d] = finalized[d] /\ yielded'[d] = yielded[d] /\ in_hand'[d] = in_hand[d]
    /\ channel'[d] = channel[d] /\ received'[d] = received[d]

\* A step of one client leaves what holds of the others.
LEMMA OnlyOfKeeps ==
  ASSUME AnswerInv, NEW c \in Clients, OnlyOf(c), AnswerTypes', ClientInv(c)'
  PROVE  AnswerInv'
<1>1. ASSUME NEW d \in Clients \ {c} PROVE ClientInv(d)'
  <2>1. ClientInv(d)
    BY Zenon DEF AnswerInv
  <2>2. InOrder(d)'
    BY <2>1, Zenon DEF OnlyOf, ClientInv, InOrder
  <2>3. EndsLast(d)'
    BY <2>1, SMTT(30) DEF OnlyOf, ClientInv, EndsLast
  <2>4. HandlerRight(d)'
    BY <2>1, Zenon DEF OnlyOf, ClientInv, HandlerRight
  <2> QED
    BY <2>2, <2>3, <2>4, Zenon DEF ClientInv
<1> QED
  BY <1>1, Zenon DEF AnswerInv

\* Every step keeps the types and touches one client.
LEMMA StepTypes ==
  ASSUME AnswerInv, NEW c \in Clients
  PROVE  /\ Validate(c) \/ Launch(c) \/ ClientLeaves(c) \/ Closes(c) => AnswerTypes' /\ OnlyOf(c)
         /\ TaskEnds(c) \/ TaskPanics(c) => AnswerTypes' /\ OnlyOf(c)
         /\ Starts(c) \/ Yields(c) \/ Ends(c) => AnswerTypes' /\ OnlyOf(c)
<1>1. AnswerTypes /\ <<>> \in Seq(Event)
  BY DEF AnswerInv
<1>2. ASSUME Validate(c) \/ Launch(c) \/ Closes(c) PROVE AnswerTypes' /\ OnlyOf(c)
  BY <1>1, <1>2, ZenonT(40) DEF Validate, Launch, Closes, Becomes, taskVars, AnswerTypes, OnlyOf
<1>3. ASSUME ClientLeaves(c) PROVE AnswerTypes' /\ OnlyOf(c)
  BY <1>1, <1>3, Zenon DEF ClientLeaves, Becomes, AnswerTypes, OnlyOf
<1>4. ASSUME TaskEnds(c) \/ TaskPanics(c) PROVE AnswerTypes' /\ OnlyOf(c)
  BY <1>1, <1>4, Zenon DEF TaskEnds, TaskPanics, Becomes, AnswerTypes, OnlyOf
<1>5. \A e \in Event : <<e>> \in Seq(Event)
  OBVIOUS
<1>6. \A e \in Event : Append(yielded[c], e) \in Seq(Event)
  BY <1>1 DEF AnswerTypes
<1>7. "failed" \in Event /\ "event" \in Event /\ \A e \in Closing : e \in Event
  BY Zenon DEF Event, Closing
<1>8. ASSUME Starts(c) PROVE AnswerTypes' /\ OnlyOf(c)
  BY <1>1, <1>5, <1>7, <1>8, ZenonT(40) DEF Starts, Becomes, AnswerTypes, OnlyOf
<1>9. ASSUME Yields(c) PROVE AnswerTypes' /\ OnlyOf(c)
  BY <1>1, <1>5, <1>6, <1>7, <1>9, Zenon DEF Yields, Becomes, AnswerTypes, OnlyOf
<1>10. ASSUME Ends(c) PROVE AnswerTypes' /\ OnlyOf(c)
  BY <1>1, <1>5, <1>6, <1>7, <1>10 DEF Ends, Becomes, AnswerTypes, OnlyOf
<1> QED
  BY <1>2, <1>3, <1>4, <1>8, <1>9, <1>10, Zenon

\* Before a run yields anything, nothing is on the way.
LEMMA NothingYet ==
  ASSUME AnswerInv, NEW c \in Clients, yielded[c] = <<>>
  PROVE  in_hand[c] = <<>> /\ received[c] = <<>> /\ channel[c] = <<>>
<1>1. /\ InOrder(c) /\ received[c] \in Seq(Event) /\ channel[c] \in Seq(Event)
      /\ Len(received[c]) \in Nat /\ Len(channel[c]) \in Nat /\ Len(yielded[c]) = 0
  BY DEF AnswerInv, AnswerTypes, ClientInv
<1>2. in_hand[c] = <<>> /\ Len(received[c]) = 0
  BY <1>1 DEF InOrder
<1>3. Len(channel[c]) = 0
  <2>1. SUFFICES ASSUME 1 \in 1 .. Len(channel[c]) PROVE FALSE
    BY <1>1
  <2> QED
    BY <1>1, <1>2, <2>1 DEF InOrder
<1> QED
  BY <1>1, <1>2, <1>3

\* The steps of a handler keep what holds of its client.
LEMMA HandlerKeeps ==
  ASSUME AnswerInv, NEW c \in Clients, Validate(c) \/ Launch(c) \/ ClientLeaves(c) \/ Closes(c)
  PROVE  AnswerInv'
<1>0. AnswerTypes /\ AnswerTypes' /\ ClientInv(c) /\ OnlyOf(c)
  BY StepTypes, Zenon DEF AnswerInv
<1>1. CASE Validate(c)
  <2>1. /\ handler[c] = "new" /\ handler'[c] \in {"resolving", "refused"}
        /\ UNCHANGED <<accept, taskVars, received>>
    BY <1>0, <1>1, Zenon DEF Validate, Becomes, AnswerTypes
  <2>2. ClientInv(c)'
    BY <1>0, <2>1, Zenon DEF ClientInv, InOrder, EndsLast, HandlerRight, taskVars
  <2> QED
    BY <1>0, <2>2, OnlyOfKeeps, Zenon
<1>2. CASE Launch(c)
  <2>1. /\ handler[c] = "resolving" /\ UNCHANGED <<yielded, in_hand, channel, received, finalized>>
        /\ \/ handler'[c] = "refused" /\ task'[c] = task[c] /\ accept'[c] = accept[c]
           \/ handler'[c] = "serving" /\ task'[c] = "loading"
    BY <1>0, <1>2 DEF Launch, Becomes, AnswerTypes
  <2>2. /\ task[c] = "none" /\ yielded[c] = <<>>
        /\ in_hand[c] = <<>> /\ received[c] = <<>> /\ channel[c] = <<>>
    BY <1>0, <2>1, NothingYet, Zenon DEF ClientInv, HandlerRight, EndsLast
  <2>3. ClientInv(c)'
    <3>1. InOrder(c)'
      BY <1>0, <2>1, <2>2, SMTT(30) DEF ClientInv, InOrder
    <3>2. EndsLast(c)'
      BY <1>0, <2>1, <2>2, SMTT(30) DEF ClientInv, EndsLast
    <3>3. HandlerRight(c)'
      BY <1>0, <2>1, <2>2, Zenon DEF ClientInv, HandlerRight
    <3> QED
      BY <3>1, <3>2, <3>3, Zenon DEF ClientInv
  <2> QED
    BY <1>0, <2>3, OnlyOfKeeps, Zenon
<1>3. CASE ClientLeaves(c)
  <2>1. /\ handler'[c] = "gone" /\ channel'[c] = <<>>
        /\ UNCHANGED <<accept, task, yielded, in_hand, received, finalized>>
    BY <1>0, <1>3, Zenon DEF ClientLeaves, Becomes, AnswerTypes
  <2>2. ClientInv(c)'
    <3>1. InOrder(c)'
      BY <1>0, <2>1, SMTT(30) DEF ClientInv, InOrder
    <3>2. EndsLast(c)'
      BY <1>0, <2>1, Zenon DEF ClientInv, EndsLast
    <3>3. HandlerRight(c)'
      BY <1>0, <2>1, Zenon DEF ClientInv, HandlerRight
    <3> QED
      BY <3>1, <3>2, <3>3, Zenon DEF ClientInv
  <2> QED
    BY <1>0, <2>2, OnlyOfKeeps, Zenon
<1>4. CASE Closes(c)
  <2>1. /\ handler[c] = "serving" /\ channel[c] = <<>> /\ task[c] \in {"over", "panicked"}
        /\ handler'[c] = "over" /\ UNCHANGED <<accept, taskVars, received>>
    BY <1>0, <1>4, Zenon DEF Closes, Becomes, AnswerTypes
  <2>2. in_hand[c] = <<>> /\ Len(received[c]) = Len(yielded[c])
    <3>1. in_hand[c] = <<>> /\ Len(channel[c]) = 0 /\ Len(in_hand[c]) = 0
      BY <1>0, <2>1, Zenon DEF ClientInv, EndsLast
    <3>2. Len(received[c]) \in Nat /\ Len(received[c]) + Len(channel[c]) + Len(in_hand[c]) = Len(yielded[c])
      BY <1>0, <2>1, SMTT(30) DEF ClientInv, InOrder, AnswerTypes
    <3> QED
      BY <3>1, <3>2
  <2>3. ClientInv(c)'
    <3>1. InOrder(c)'
      BY <1>0, <2>1, <2>2, Zenon DEF ClientInv, InOrder, taskVars
    <3>2. EndsLast(c)'
      BY <1>0, <2>1, <2>2, Zenon DEF ClientInv, EndsLast, taskVars
    <3>3. HandlerRight(c)'
      BY <1>0, <2>1, <2>2, Zenon DEF ClientInv, HandlerRight, taskVars
    <3> QED
      BY <3>1, <3>2, <3>3, Zenon DEF ClientInv
  <2> QED
    BY <1>0, <2>3, OnlyOfKeeps, Zenon
<1> QED
  BY <1>1, <1>2, <1>3, <1>4, Zenon

\* What the driver takes from the run's stream, it has in hand.
LEMMA YieldedKeeps ==
  ASSUME AnswerInv, NEW c \in Clients, NEW e \in Event, in_hand[c] = <<>>, handler[c] # "over",
         yielded'[c] = Append(yielded[c], e), in_hand'[c] = <<e>>,
         handler'[c] = handler[c], channel'[c] = channel[c], received'[c] = received[c]
  PROVE  InOrder(c)'
<1>1. /\ yielded[c] \in Seq(Event) /\ Len(yielded[c]) \in Nat /\ InOrder(c)
      /\ received[c] \in Seq(Event) /\ Len(received[c]) \in Nat
      /\ channel[c] \in Seq(Event) /\ Len(channel[c]) \in Nat
  BY DEF AnswerInv, AnswerTypes, ClientInv
<1>2. /\ Len(yielded'[c]) = Len(yielded[c]) + 1 /\ yielded'[c][Len(yielded[c]) + 1] = e
      /\ \A i \in 1 .. Len(yielded[c]) : yielded'[c][i] = yielded[c][i]
      /\ Len(in_hand'[c]) = 1 /\ in_hand'[c][1] = e /\ Len(in_hand[c]) = 0
  BY <1>1
<1>3. \A i \in 1 .. Len(received[c]) : received[c][i] = yielded'[c][i]
  BY <1>1, <1>2 DEF InOrder
<1>4. ASSUME NEW i \in 1 .. Len(channel[c])
      PROVE  /\ Len(received[c]) + i <= Len(yielded[c]) + 1
             /\ channel[c][i] = yielded'[c][Len(received[c]) + i]
  <2>1. /\ Len(received[c]) + i <= Len(yielded[c])
        /\ channel[c][i] = yielded[c][Len(received[c]) + i]
    BY <1>1, Zenon DEF InOrder
  <2>2. Len(received[c]) + i \in 1 .. Len(yielded[c])
    BY <1>1, <2>1
  <2> QED
    BY <1>1, <1>2, <2>1, <2>2, SMTT(30)
<1>5. /\ Len(received[c]) <= Len(yielded'[c])
      /\ handler[c] # "serving" => channel[c] = <<>>
      /\ handler[c] = "serving" => Len(received[c]) + Len(channel[c]) + 1 = Len(yielded'[c])
  <2>1. /\ Len(received[c]) <= Len(yielded[c]) /\ (handler[c] # "serving" => channel[c] = <<>>)
        /\ handler[c] = "serving" => Len(received[c]) + Len(channel[c]) + Len(in_hand[c]) = Len(yielded[c])
    BY <1>1, Zenon DEF InOrder
  <2>2. /\ Len(received[c]) \in Nat /\ Len(channel[c]) \in Nat /\ Len(yielded[c]) \in Nat
        /\ Len(in_hand[c]) = 0 /\ Len(yielded'[c]) = Len(yielded[c]) + 1
    BY <1>1, <1>2, Zenon
  <2>3. Len(received[c]) <= Len(yielded'[c])
    BY <2>1, <2>2
  <2>4. ASSUME handler[c] = "serving"
        PROVE  Len(received[c]) + Len(channel[c]) + 1 = Len(yielded'[c])
    <3> DEFINE g == Len(received[c])
               n == Len(channel[c])
               all == Len(yielded[c])
    <3>1. g \in Nat /\ n \in Nat /\ all \in Nat /\ g + n + Len(in_hand[c]) = all
      BY <2>1, <2>2, <2>4, Zenon
    <3>2. g + n + 0 = all
      BY <2>2, <3>1, Zenon
    <3> HIDE DEF g, n, all
    <3>3. g + n + 1 = all + 1
      BY <3>1, <3>2
    <3> QED
      BY <2>2, <3>3, Zenon DEF g, n, all
  <2> QED
    BY <2>1, <2>3, <2>4, Zenon
<1>6. /\ Len(yielded'[c]) > 0 /\ in_hand'[c][1] = yielded'[c][Len(yielded'[c])]
      /\ Len(in_hand'[c]) <= 1
  BY <1>1, <1>2
<1>7. Len(received'[c]) = Len(received[c]) /\ Len(channel'[c]) = Len(channel[c])
  BY Zenon
<1> QED
  BY <1>2, <1>3, <1>4, <1>5, <1>6, <1>7, Zenon DEF InOrder

\* The steps of the run behind a handler keep what holds of its client.
LEMMA RunKeeps ==
  ASSUME AnswerInv, NEW c \in Clients, Starts(c) \/ Yields(c) \/ Ends(c)
  PROVE  AnswerInv'
<1>0. /\ AnswerTypes /\ AnswerTypes' /\ ClientInv(c) /\ OnlyOf(c)
      /\ yielded[c] \in Seq(Event) /\ Len(yielded[c]) \in Nat
  <2>1. AnswerTypes /\ AnswerTypes' /\ ClientInv(c) /\ OnlyOf(c)
    BY StepTypes, Zenon DEF AnswerInv
  <2>2. yielded[c] \in Seq(Event)
    BY <2>1, Zenon DEF AnswerTypes
  <2> QED
    BY <2>1, <2>2
<1>1. CASE Starts(c)
  <2>1. /\ task[c] = "loading" /\ UNCHANGED <<accept, handler, channel, received, finalized>>
        /\ \/ task'[c] = "running" /\ yielded'[c] = yielded[c] /\ in_hand'[c] = in_hand[c]
           \/ task'[c] = "ending" /\ yielded'[c] = <<"failed">> /\ in_hand'[c] = <<"failed">>
    BY <1>0, <1>1, Zenon DEF Starts, Becomes, AnswerTypes
  <2>2. /\ yielded[c] = <<>> /\ in_hand[c] = <<>> /\ handler[c] # "over"
        /\ handler[c] \notin {"new", "resolving", "refused"}
    BY <1>0, <2>1, NothingYet, Zenon DEF ClientInv, EndsLast, HandlerRight
  <2>3. CASE task'[c] = "running" /\ yielded'[c] = yielded[c] /\ in_hand'[c] = in_hand[c]
    <3>1. ClientInv(c)'
      BY <1>0, <2>1, <2>2, <2>3, Zenon DEF ClientInv, InOrder, EndsLast, HandlerRight
    <3> QED
      BY <1>0, <3>1, OnlyOfKeeps, Zenon
  <2>4. CASE task'[c] = "ending" /\ yielded'[c] = <<"failed">> /\ in_hand'[c] = <<"failed">>
    <3>1. yielded'[c] = Append(yielded[c], "failed") /\ "failed" \in Event /\ "failed" \in Closing
      BY <2>2, <2>4 DEF Event, Closing
    <3>2. InOrder(c)'
      BY <2>1, <2>2, <2>4, <3>1, YieldedKeeps, Zenon
    <3>3. EndsLast(c)' /\ HandlerRight(c)'
      BY <2>1, <2>2, <2>4, <3>1 DEF EndsLast, HandlerRight
    <3> QED
      BY <1>0, <3>2, <3>3, OnlyOfKeeps, Zenon DEF ClientInv
  <2> QED
    BY <2>1, <2>3, <2>4, Zenon
<1>2. CASE Yields(c)
  <2>1. /\ task[c] = "running" /\ accept[c] = "sse" /\ in_hand[c] = <<>>
        /\ UNCHANGED <<accept, handler, task, channel, received, finalized>>
        /\ yielded'[c] = Append(yielded[c], "event") /\ in_hand'[c] = <<"event">>
        /\ handler[c] # "over"
    BY <1>0, <1>2, Zenon DEF Yields, Becomes, AnswerTypes, ClientInv, HandlerRight
  <2>2. InOrder(c)'
    BY <2>1, YieldedKeeps, Zenon DEF Event
  <2>3. /\ Len(yielded'[c]) = Len(yielded[c]) + 1 /\ yielded'[c][Len(yielded[c]) + 1] = "event"
        /\ \A i \in 1 .. Len(yielded[c]) : yielded'[c][i] = yielded[c][i]
    BY <1>0, <2>1
  <2>4. \A i \in 1 .. Len(yielded'[c]) : yielded'[c][i] \notin Closing
    <3>1. \A i \in 1 .. Len(yielded[c]) : yielded[c][i] \notin Closing
      BY <1>0, <2>1, Zenon DEF ClientInv, EndsLast
    <3> QED
      BY <1>0, <2>3, <3>1, SMTT(30) DEF Closing
  <2>5. EndsLast(c)' /\ HandlerRight(c)'
    BY <1>0, <2>1, <2>4, Zenon DEF ClientInv, EndsLast, HandlerRight
  <2> QED
    BY <1>0, <2>2, <2>5, OnlyOfKeeps, Zenon DEF ClientInv
<1>3. CASE Ends(c)
  <2>1. PICK e \in Closing :
          /\ task[c] = "running" /\ in_hand[c] = <<>> /\ task'[c] = "ending" /\ finalized'[c] = TRUE
          /\ yielded'[c] = Append(yielded[c], e) /\ in_hand'[c] = <<e>>
          /\ UNCHANGED <<accept, handler, channel, received>>
    BY <1>0, <1>3, Zenon DEF Ends, Becomes, AnswerTypes
  <2>2. handler[c] # "over" /\ e \in Event /\ handler[c] \notin {"new", "resolving", "refused"}
    BY <1>0, <2>1, Zenon DEF ClientInv, HandlerRight, Event
  <2>3. InOrder(c)'
    BY <2>1, <2>2, YieldedKeeps, Zenon
  <2>4. /\ Len(yielded'[c]) = Len(yielded[c]) + 1 /\ yielded'[c][Len(yielded[c]) + 1] = e
        /\ \A i \in 1 .. Len(yielded[c]) : yielded'[c][i] = yielded[c][i]
    BY <1>0, <2>1
  <2>5. /\ \A i \in 1 .. Len(yielded[c]) : yielded[c][i] \notin Closing
        /\ accept[c] = "json" => Len(yielded[c]) = 0
    BY <1>0, <2>1, Zenon DEF ClientInv, EndsLast
  <2>6. EndsLast(c)'
    BY <1>0, <2>1, <2>4, <2>5 DEF EndsLast
  <2>7. HandlerRight(c)'
    BY <2>1, <2>2, Zenon DEF HandlerRight
  <2> QED
    BY <1>0, <2>3, <2>6, <2>7, OnlyOfKeeps, Zenon DEF ClientInv
<1> QED
  BY <1>1, <1>2, <1>3, Zenon

\* So does the end of its task.
LEMMA TaskOverKeeps ==
  ASSUME AnswerInv, NEW c \in Clients, TaskEnds(c) \/ TaskPanics(c)
  PROVE  AnswerInv'
<1>0. AnswerTypes /\ AnswerTypes' /\ ClientInv(c) /\ OnlyOf(c)
  BY StepTypes, Zenon DEF AnswerInv
<1>1. /\ in_hand[c] = <<>> /\ UNCHANGED <<accept, handler, yielded, in_hand, channel, received, finalized>>
      /\ \/ task[c] = "ending" /\ task'[c] = "over"
         \/ task[c] \in {"loading", "running"} /\ task'[c] = "panicked"
  BY <1>0, Zenon DEF TaskEnds, TaskPanics, Becomes, AnswerTypes
<1>2. InOrder(c)' /\ HandlerRight(c)'
  BY <1>0, <1>1, Zenon DEF ClientInv, InOrder, HandlerRight
<1>3. EndsLast(c)'
  BY <1>0, <1>1, Zenon DEF ClientInv, EndsLast
<1> QED
  BY <1>0, <1>2, <1>3, OnlyOfKeeps, Zenon DEF ClientInv

\* What concatenation does to sequences of events.
LEMMA JoinIs ==
  ASSUME NEW a \in Seq(Event), NEW b \in Seq(Event)
  PROVE  /\ a \o b \in Seq(Event) /\ Len(a \o b) = Len(a) + Len(b)
         /\ \A i \in 1 .. Len(a) + Len(b) : (a \o b)[i] = IF i <= Len(a) THEN a[i] ELSE b[i - Len(a)]
  OBVIOUS

\* A sequence without elements.
LEMMA EmptyIs ==
  ASSUME NEW a \in Seq(Event), Len(a) = 0 PROVE a = <<>>
  OBVIOUS

\* The facts about one request that the steps of its channel need.
LEMMA ChannelFacts ==
  ASSUME AnswerInv, NEW c \in Clients
  PROVE  /\ ClientInv(c) /\ InOrder(c)
         /\ yielded[c] \in Seq(Event) /\ Len(yielded[c]) \in Nat
         /\ in_hand[c] \in Seq(Event) /\ Len(in_hand[c]) \in Nat
         /\ received[c] \in Seq(Event) /\ Len(received[c]) \in Nat
         /\ channel[c] \in Seq(Event) /\ Len(channel[c]) \in Nat
<1>1. ClientInv(c) /\ InOrder(c)
  BY Zenon DEF AnswerInv, ClientInv
<1>2. /\ yielded[c] \in Seq(Event) /\ in_hand[c] \in Seq(Event)
      /\ received[c] \in Seq(Event) /\ channel[c] \in Seq(Event)
  BY Zenon DEF AnswerInv, AnswerTypes
<1> QED
  BY <1>1, <1>2

\* So does a frame put into the channel.
LEMMA SendsKeeps ==
  ASSUME AnswerInv, NEW c \in Clients, Sends(c) PROVE AnswerInv'
<1> DEFINE got == Len(received[c])
           queued == Len(channel[c])
           all == Len(yielded[c])
           ch == channel[c] \o in_hand[c]
<1>0. AnswerTypes
  BY Zenon DEF AnswerInv
<1>1. /\ UNCHANGED <<accept, handler, task, yielded, received, finalized>>
      /\ in_hand[c] # <<>> /\ in_hand'[c] = <<>>
      /\ handler[c] = "serving" => channel' = [channel EXCEPT ![c] = ch]
      /\ handler[c] # "serving" => channel' = channel
      /\ in_hand' = [in_hand EXCEPT ![c] = <<>>]
  BY <1>0, Zenon DEF Sends, Becomes, AnswerTypes
<1>2. /\ ch \in Seq(Event) /\ Len(ch) = queued + Len(in_hand[c])
      /\ \A i \in 1 .. queued : ch[i] = channel[c][i]
      /\ ch[queued + 1] = in_hand[c][1] /\ Len(in_hand[c]) = 1
  <2>1. Len(in_hand[c]) = 1
    <3> DEFINE n == Len(in_hand[c])
    <3>1. n <= 1
      BY ChannelFacts, Zenon DEF InOrder
    <3>2. n \in Nat /\ n # 0
      BY <1>1, ChannelFacts
    <3> HIDE DEF n
    <3>3. n = 1
      BY <3>1, <3>2
    <3> QED
      BY <3>3, Zenon DEF n
  <2>2. /\ ch \in Seq(Event) /\ Len(ch) = queued + Len(in_hand[c])
        /\ \A i \in 1 .. queued + Len(in_hand[c]) :
             ch[i] = IF i <= queued THEN channel[c][i] ELSE in_hand[c][i - queued]
    BY ChannelFacts, JoinIs, Zenon
  <2>3. queued \in Nat
    BY ChannelFacts, Zenon
  <2> HIDE DEF ch, queued
  <2>4. \A i \in 1 .. queued : ch[i] = channel[c][i]
    BY <2>1, <2>2, <2>3
  <2>5. queued + 1 \in 1 .. queued + Len(in_hand[c]) /\ ~(queued + 1 <= queued) /\ (queued + 1) - queued = 1
    BY <2>1, <2>3
  <2> QED
    BY <2>1, <2>2, <2>4, <2>5, Zenon
<1>3. AnswerTypes' /\ OnlyOf(c)
  <2>1. ch \in Seq(Event) /\ <<>> \in Seq(Event)
    BY <1>2
  <2> HIDE DEF ch
  <2>2. /\ channel' \in [Clients -> Seq(Event)] /\ in_hand' \in [Clients -> Seq(Event)]
        /\ \A d \in Clients \ {c} : channel'[d] = channel[d] /\ in_hand'[d] = in_hand[d]
    BY <1>0, <1>1, <2>1, Zenon DEF AnswerTypes
  <2> QED
    BY <1>0, <1>1, <2>2, Zenon DEF AnswerTypes, OnlyOf
<1>4. InOrder(c)'
  <2>1. /\ got \in Nat /\ queued \in Nat /\ all \in Nat /\ got <= all
        /\ \A i \in 1 .. got : received[c][i] = yielded[c][i]
        /\ \A i \in 1 .. queued : got + i <= all /\ channel[c][i] = yielded[c][got + i]
        /\ handler[c] = "serving" => got + queued + Len(in_hand[c]) = all
        /\ handler[c] # "serving" => channel[c] = <<>>
        /\ in_hand[c][1] = yielded[c][all]
    BY <1>1, ChannelFacts, Zenon DEF InOrder
  <2>2. CASE handler[c] = "serving"
    <3>1. channel'[c] = ch /\ Len(channel'[c]) = queued + 1
      BY <1>0, <1>1, <1>2, <2>2, Zenon DEF AnswerTypes
    <3>2. got + (queued + 1) + 0 = all
      <4>1. got + queued + 1 = all
        BY <1>2, <2>1, <2>2, Zenon
      <4> HIDE DEF got, queued, all
      <4> QED
        BY <2>1, <4>1
    <3>3. ASSUME NEW i \in 1 .. queued + 1 PROVE got + i <= all /\ ch[i] = yielded[c][got + i]
      <4> HIDE DEF ch, got, queued, all
      <4>1. CASE i \in 1 .. queued
        BY <1>2, <2>1, <4>1, Zenon
      <4>2. CASE i = queued + 1
        <5>1. got + (queued + 1) = all /\ got + (queued + 1) <= all
          BY <2>1, <3>2
        <5>2. ch[queued + 1] = yielded[c][all]
          BY <1>2, <2>1, Zenon
        <5> QED
          BY <4>2, <5>1, <5>2, Zenon
      <4> QED
        BY <2>1, <4>1, <4>2
    <3>4. Len(in_hand'[c]) = 0
      BY <1>1, Zenon
    <3> HIDE DEF ch
    <3>5. /\ received'[c] = received[c] /\ yielded'[c] = yielded[c] /\ handler'[c] = "serving"
          /\ in_hand'[c] = <<>> /\ Len(in_hand'[c]) <= 1
      BY <1>1, <2>2, <3>4
    <3>6. \A i \in 1 .. Len(channel'[c]) : got + i <= all /\ channel'[c][i] = yielded[c][got + i]
      BY <3>1, <3>3, Zenon
    <3> QED
      BY <2>1, <3>1, <3>2, <3>4, <3>5, <3>6, Zenon DEF InOrder
  <2>3. CASE handler[c] # "serving"
    <3>1. /\ received'[c] = received[c] /\ yielded'[c] = yielded[c] /\ handler'[c] = handler[c]
          /\ in_hand'[c] = <<>> /\ Len(in_hand'[c]) <= 1 /\ channel'[c] = channel[c]
      BY <1>1, <2>3
    <3> QED
      BY <2>1, <2>3, <3>1, Zenon DEF InOrder
  <2> QED
    BY <2>2, <2>3, Zenon
<1>5. EndsLast(c)' /\ HandlerRight(c)'
  BY <1>1, ChannelFacts, Zenon DEF ClientInv, EndsLast, HandlerRight
<1> QED
  BY <1>3, <1>4, <1>5, OnlyOfKeeps, Zenon DEF ClientInv

\* So does a frame taken out of it.
LEMMA ReceivesKeeps ==
  ASSUME AnswerInv, NEW c \in Clients, Receives(c) PROVE AnswerInv'
<1> DEFINE got == Len(received[c])
           queued == Len(channel[c])
           all == Len(yielded[c])
           frame == Head(channel[c])
<1>0. AnswerTypes
  BY Zenon DEF AnswerInv
<1>1. /\ UNCHANGED <<accept, task, yielded, in_hand, finalized>>
      /\ handler[c] = "serving" /\ channel[c] # <<>>
      /\ received' = [received EXCEPT ![c] = Append(received[c], frame)]
      /\ channel' = [channel EXCEPT ![c] = Tail(channel[c])]
      /\ accept[c] = "json" => handler' = [handler EXCEPT ![c] = "over"]
      /\ accept[c] # "json" => handler' = handler
  BY Zenon DEF Receives, Becomes
<1>2. /\ got \in Nat /\ queued \in Nat /\ all \in Nat /\ queued > 0
      /\ frame \in Event /\ frame = channel[c][1]
      /\ Tail(channel[c]) \in Seq(Event) /\ Len(Tail(channel[c])) = queued - 1
      /\ \A i \in 1 .. queued - 1 : Tail(channel[c])[i] = channel[c][i + 1]
  BY <1>1, ChannelFacts
<1> HIDE DEF frame
<1>3. /\ Append(received[c], frame) \in Seq(Event) /\ Len(Append(received[c], frame)) = got + 1
      /\ Append(received[c], frame)[got + 1] = frame
      /\ \A i \in 1 .. got : Append(received[c], frame)[i] = received[c][i]
  BY <1>2, ChannelFacts, SMTT(30)
<1>4. AnswerTypes' /\ OnlyOf(c)
  BY <1>0, <1>1, <1>2, <1>3, Zenon DEF AnswerTypes, OnlyOf
<1>5. /\ received'[c] = Append(received[c], frame) /\ channel'[c] = Tail(channel[c])
      /\ accept[c] = "json" => handler'[c] = "over"
      /\ accept[c] # "json" => handler'[c] = "serving"
  BY <1>0, <1>1, Zenon DEF AnswerTypes
<1>6. /\ got <= all /\ \A i \in 1 .. got : received[c][i] = yielded[c][i]
      /\ \A i \in 1 .. queued : got + i <= all /\ channel[c][i] = yielded[c][got + i]
      /\ got + queued + Len(in_hand[c]) = all /\ Len(in_hand[c]) <= 1
      /\ in_hand[c] # <<>> => all > 0 /\ in_hand[c][1] = yielded[c][all]
      /\ Len(in_hand[c]) \in Nat
  BY <1>1, ChannelFacts, Zenon DEF InOrder
<1>7. accept[c] = "json" =>
        /\ got + 1 = all /\ queued = 1 /\ Len(in_hand[c]) = 0 /\ task[c] \in {"ending", "over"}
  <2> SUFFICES ASSUME accept[c] = "json"
               PROVE  /\ got + 1 = all /\ queued = 1 /\ Len(in_hand[c]) = 0
                      /\ task[c] \in {"ending", "over"}
    BY Zenon
  <2>1. all <= 1
    BY ChannelFacts, Zenon DEF ClientInv, EndsLast
  <2> DEFINE n == Len(in_hand[c])
  <2>2. got + queued + n = all /\ n \in Nat
    BY <1>6, Zenon
  <2> HIDE DEF got, queued, all, n
  <2>3. got + 1 = all /\ queued = 1 /\ n = 0 /\ all = 1
    BY <1>2, <2>1, <2>2
  <2>4. yielded[c] # <<>>
    BY <2>3 DEF all
  <2>5. task[c] \in {"none", "loading", "running", "ending", "over", "panicked"}
    BY <1>0, Zenon DEF AnswerTypes
  <2>6. task[c] \in {"ending", "over"}
    BY <2>4, <2>5, ChannelFacts, Zenon DEF ClientInv, EndsLast
  <2> QED
    BY <2>3, <2>6, Zenon DEF n
<1>8. InOrder(c)'
  <2>1. \A i \in 1 .. got + 1 : received'[c][i] = yielded[c][i]
    <3>1. 1 \in 1 .. queued /\ frame = yielded[c][got + 1]
      BY <1>2, <1>6
    <3>2. received'[c][got + 1] = yielded[c][got + 1]
      BY <1>3, <1>5, <3>1, Zenon
    <3>3. ASSUME NEW i \in 1 .. got PROVE received'[c][i] = yielded[c][i]
      <4>1. received'[c][i] = received[c][i]
        BY <1>3, <1>5
      <4>2. received[c][i] = yielded[c][i]
        BY <1>6, Zenon
      <4> QED
        BY <4>1, <4>2, Zenon
    <3>4. \A i \in 1 .. got + 1 : i = got + 1 \/ i \in 1 .. got
      BY <1>2
    <3> QED
      BY <3>2, <3>3, <3>4, Zenon
  <2>2. ASSUME NEW i \in 1 .. queued - 1
        PROVE  (got + 1) + i <= all /\ channel'[c][i] = yielded[c][(got + 1) + i]
    <3> HIDE DEF got, queued, all
    <3>1. i + 1 \in 1 .. queued /\ got + (i + 1) = (got + 1) + i
      BY <1>2
    <3>2. got + (i + 1) <= all /\ channel[c][i + 1] = yielded[c][got + (i + 1)]
      BY <1>6, <3>1, Zenon
    <3>3. channel'[c][i] = channel[c][i + 1]
      BY <1>2, <1>5
    <3> QED
      BY <3>1, <3>2, <3>3, Zenon
  <2>3. Len(received'[c]) = got + 1 /\ Len(channel'[c]) = queued - 1
    BY <1>2, <1>3, <1>5, Zenon
  <2>4. (got + 1) + (queued - 1) + Len(in_hand[c]) = all /\ got + 1 <= all
    <3> DEFINE n == Len(in_hand[c])
    <3>1. got + queued + n = all /\ n \in Nat
      BY <1>6, Zenon
    <3> HIDE DEF got, queued, all, n
    <3>2. (got + 1) + (queued - 1) + n = all /\ got + 1 <= all
      BY <1>2, <3>1
    <3> QED
      BY <3>2, Zenon DEF n
  <2>5. handler'[c] # "serving" => channel'[c] = <<>>
    <3>1. ASSUME accept[c] = "json" PROVE Tail(channel[c]) = <<>>
      <4>1. queued = 1 /\ Len(Tail(channel[c])) = queued - 1 /\ Tail(channel[c]) \in Seq(Event)
        BY <1>2, <1>7, <3>1, Zenon
      <4> HIDE DEF queued
      <4>2. Len(Tail(channel[c])) = 0
        BY <4>1
      <4> QED
        BY <4>1, <4>2, EmptyIs, Zenon
    <3> QED
      BY <1>5, <3>1, Zenon
  <2> QED
    BY <1>1, <1>6, <2>1, <2>2, <2>3, <2>4, <2>5, ZenonT(40) DEF InOrder
<1>9. EndsLast(c)'
  BY <1>1, ChannelFacts, Zenon DEF ClientInv, EndsLast
<1>10. HandlerRight(c)'
  <2>1. Len(received'[c]) = got + 1 /\ (Len(in_hand[c]) = 0 => in_hand[c] = <<>>)
    BY <1>3, <1>5, ChannelFacts
  <2> QED
    BY <1>1, <1>5, <1>7, <2>1, Zenon DEF HandlerRight
<1> QED
  BY <1>4, <1>8, <1>9, <1>10, OnlyOfKeeps, Zenon DEF ClientInv

\* The invariant holds before the first request.
LEMMA AnswerStarts == InvocationInit => AnswerInv
<1> SUFFICES ASSUME InvocationInit PROVE AnswerInv
  BY Zenon
<1>1. AnswerTypes
  BY DEF InvocationInit, AnswerTypes
<1>2. ASSUME NEW c \in Clients PROVE ClientInv(c)
  <2>1. /\ yielded[c] = <<>> /\ in_hand[c] = <<>> /\ channel[c] = <<>> /\ received[c] = <<>>
        /\ handler[c] = "new" /\ task[c] = "none"
    BY Zenon DEF InvocationInit
  <2> QED
    BY <2>1 DEF ClientInv, InOrder, EndsLast, HandlerRight
<1> QED
  BY <1>1, <1>2, Zenon DEF AnswerInv

\* Every step keeps the invariant of the answers.
LEMMA AnswerStep ==
  ASSUME AnswerInv, [InvocationNext]_invocationVars PROVE AnswerInv'
<1>1. CASE UNCHANGED <<accept, handler, taskVars, received>>
  <2>1. AnswerTypes'
    BY <1>1, Zenon DEF AnswerInv, AnswerTypes, taskVars
  <2>2. ASSUME NEW c \in Clients PROVE ClientInv(c)'
    <3>1. ClientInv(c)
      BY Zenon DEF AnswerInv
    <3> QED
      BY <1>1, <3>1, Zenon DEF ClientInv, InOrder, EndsLast, HandlerRight, taskVars
  <2> QED
    BY <2>1, <2>2, Zenon DEF AnswerInv
<1>2. ASSUME NEW c \in Clients, ResolveSession(c) PROVE AnswerInv'
  BY <1>1, <1>2, Zenon DEF ResolveSession
<1>3. ASSUME UNCHANGED invocationVars PROVE AnswerInv'
  BY <1>1, <1>3, Zenon DEF invocationVars, taskVars
<1> QED
  BY <1>2, <1>3, HandlerKeeps, RunKeeps, TaskOverKeeps, SendsKeeps, ReceivesKeeps, Zenon
  DEF InvocationNext, TaskStep

\* The invariant gives AnswersTruthful.
LEMMA InvTruthful == AnswerInv => AnswersTruthful
<1> SUFFICES ASSUME AnswerInv, NEW c \in Clients
             PROVE  LET started == yielded[c] # <<"failed">> \/ finalized[c]
                    IN  /\ accept[c] = "sse" => SubSeq(yielded[c], 1, Len(received[c])) = received[c]
                        /\ \A i \in DOMAIN received[c] :
                             received[c][i] \in Closing /\ started => finalized[c]
                        /\ handler[c] = "over" /\ task[c] # "panicked" =>
                             /\ received[c] # <<>>
                             /\ received[c][Len(received[c])] = yielded[c][Len(yielded[c])]
                        /\ handler[c] = "refused" => task[c] = "none"
                        /\ task[c] = "over" /\ started => finalized[c]
  BY Zenon DEF AnswersTruthful
<1>1. /\ Len(received[c]) <= Len(yielded[c])
      /\ \A i \in 1 .. Len(received[c]) : received[c][i] = yielded[c][i]
      /\ DOMAIN received[c] = 1 .. Len(received[c])
  <2>1. DOMAIN received[c] = 1 .. Len(received[c])
    BY ChannelFacts
  <2> QED
    BY <2>1, ChannelFacts, Zenon DEF InOrder
<1>2. SubSeq(yielded[c], 1, Len(received[c])) = received[c]
  <2> DEFINE q == SubSeq(yielded[c], 1, Len(received[c]))
             n == Len(received[c])
  <2>0. n \in Nat /\ n <= Len(yielded[c]) /\ Len(yielded[c]) \in Nat
    BY <1>1, ChannelFacts, Zenon
  <2>1. n \in 0 .. Len(yielded[c]) /\ yielded[c] \in Seq(Event) /\ received[c] \in Seq(Event)
    BY <2>0, ChannelFacts
  <2> HIDE DEF n
  <2>2. q \in Seq(Event) /\ Len(q) = n /\ \A i \in 1 .. n : q[i] = yielded[c][i]
    BY <2>1 DEF n
  <2> HIDE DEF q
  <2>3. q = received[c]
    BY <1>1, <2>1, <2>2 DEF n
  <2> QED
    BY <2>3, Zenon DEF q
<1>3. \A i \in 1 .. Len(received[c]) :
        received[c][i] \in Closing => finalized[c] \/ yielded[c] = <<"failed">>
  <2> SUFFICES ASSUME NEW i \in 1 .. Len(received[c]), received[c][i] \in Closing
               PROVE  finalized[c] \/ yielded[c] = <<"failed">>
    BY Zenon
  <2>1. i \in 1 .. Len(yielded[c]) /\ yielded[c][i] \in Closing
    BY <1>1, ChannelFacts
  <2> QED
    BY <2>1, ChannelFacts, Zenon DEF ClientInv, EndsLast
<1>4. handler[c] = "over" /\ task[c] # "panicked" =>
        received[c] # <<>> /\ received[c][Len(received[c])] = yielded[c][Len(yielded[c])]
  <2> SUFFICES ASSUME handler[c] = "over", task[c] # "panicked"
               PROVE  received[c] # <<>> /\ received[c][Len(received[c])] = yielded[c][Len(yielded[c])]
    BY Zenon
  <2>1. task[c] \in {"ending", "over"} /\ Len(received[c]) = Len(yielded[c]) /\ Len(yielded[c]) > 0
    BY ChannelFacts, Zenon DEF ClientInv, EndsLast, HandlerRight
  <2>2. Len(received[c]) \in 1 .. Len(received[c])
    BY <2>1, ChannelFacts
  <2> QED
    BY <1>1, <2>1, <2>2
<1>5. /\ handler[c] = "refused" => task[c] = "none"
      /\ task[c] = "over" => finalized[c] \/ yielded[c] = <<"failed">>
  BY ChannelFacts, Zenon DEF ClientInv, EndsLast, HandlerRight
<1> QED
  BY <1>1, <1>2, <1>3, <1>4, <1>5, Zenon

\* What a client was told is so, and no run that started is over without its turn,
\* for any number of invocations and any capacity of the channel (run_json, run_sse).
THEOREM AnswersAreTruthful == InvocationSpec => []AnswersTruthful
<1> QED
  BY AnswerStarts, AnswerStep, InvTruthful, PTL DEF InvocationSpec

-----------------------------------------------------------------------------
(* A2A tasks.                                                               *)

States == {"submitted", "working", "completed", "canceled", "failed"}
Frames == [state : States, final : BOOLEAN]
Places == {"new", "resolved", "spawned", "announce", "run", "store", "swap", "report",
           "append", "remove", "done", "panicked"}
Answers == {"new", "fire", "swap_submitted", "swap_working", "canceled", "beaten",
            "not_found", "terminal", "no_run", "internal"}
Phases == {"new", "idle", "registered", "parking", "waiting", "evicted", "ended"}

Types ==
  /\ order \in Seq(Tasks) /\ state \in [Tasks -> States]
  /\ log \in [Tasks -> Seq(Frames)] /\ first \in [Tasks -> Nat]
  /\ at \in [Messages -> Places] /\ outcome \in [Messages -> States]
  /\ target \in [Messages \union Cancels -> Tasks \union {None}]
  /\ answer \in [Cancels -> Answers]
  /\ sub \in [Subs -> Tasks \union {None}] /\ cursor \in [Subs -> Nat]
  /\ phase \in [Subs -> Phases] /\ waiters \subseteq Subs

\* Tasks that some message was resolved to: ids that are not minted again.
Minted == {target[m] : m \in Messages} \intersect Tasks

\* The store holds minted tasks, each once; a task that is not in it, or new in
\* it, has an empty log; a log that lost a frame is not empty.
StoreInv ==
  /\ \A i, j \in 1 .. Len(order) : order[i] = order[j] => i = j
  /\ Stored \subseteq Minted
  /\ \A t \in Tasks : t \notin Stored => log[t] = <<>> /\ first[t] = 0
  /\ \A t \in Tasks : log[t] = <<>> => first[t] = 0

\* What a driver knows of its task as long as the task is stored.
Drives(m) ==
  /\ at[m] = "new" <=> target[m] \notin Tasks
  /\ at[m] \in {"store", "swap"} => outcome[m] \in {"completed", "failed"}
  /\ target[m] \in Stored =>
       /\ at[m] \notin {"new", "resolved", "spawned", "done"} => state[target[m]] # "submitted"
       /\ at[m] \in {"report", "append"} => IsTerminal(state[target[m]])
       /\ at[m] = "append" => outcome[m] = state[target[m]]
DriveInv == \A m \in Messages : Drives(m)

\* What a cancel request knows of its task.
Cancelling(c) ==
  /\ answer[c] \in {"swap_submitted", "swap_working", "canceled", "beaten"} =>
       target[c] \in Minted /\ fired # {}
  /\ answer[c] = "fire" => target[c] \in Minted
  /\ target[c] \in Stored =>
       /\ answer[c] = "swap_working" => state[target[c]] # "submitted"
       /\ answer[c] = "canceled" => state[target[c]] = "canceled"
       /\ answer[c] = "beaten" => IsTerminal(state[target[c]])
CancelInv == \A c \in Cancels : Cancelling(c)

\* A cursor is never ahead of its log, and a stream that is going to sleep and was
\* not notified has seen all of it.
SubInv ==
  \A s \in Subs :
    /\ phase[s] = "new" => cursor[s] = 0
    /\ phase[s] # "new" => sub[s] \in Minted
    /\ phase[s] # "new" /\ sub[s] \in Stored => cursor[s] <= NextSeq(sub[s])
    /\ phase[s] \in {"parking", "waiting"} /\ s \in waiters =>
         /\ sub[s] \in Stored /\ ~IsTerminal(state[sub[s]])
         /\ cursor[s] = NextSeq(sub[s])

TasksInv ==
  Types /\ StoreInv /\ FinalFrameIsStoredState /\ DriveInv /\ CancelInv /\ SubInv

-----------------------------------------------------------------------------
\* The initial states satisfy the inductive invariant.
LEMMA TasksInitially ==
  TaskInit => TasksInv
<1> SUFFICES ASSUME TaskInit PROVE TasksInv
  BY Zenon
<1> USE A2AAssumption DEF TaskInit
<1>1. Types
  <2>1. order \in Seq(Tasks) /\ log \in [Tasks -> Seq(Frames)]
    OBVIOUS
  <2>2. state \in [Tasks -> States] /\ outcome \in [Messages -> States]
    BY Zenon DEF States
  <2>3. first \in [Tasks -> Nat] /\ cursor \in [Subs -> Nat] /\ waiters \subseteq Subs
    BY Zenon
  <2>4. /\ at \in [Messages -> Places] /\ answer \in [Cancels -> Answers]
        /\ phase \in [Subs -> Phases]
    BY Zenon DEF Places, Answers, Phases
  <2>5. /\ target \in [Messages \union Cancels -> Tasks \union {None}]
        /\ sub \in [Subs -> Tasks \union {None}]
    BY Zenon
  <2> QED
    BY <2>1, <2>2, <2>3, <2>4, <2>5, Zenon DEF Types
<1>2. Stored = {}
  BY DEF Stored
<1>3. StoreInv /\ FinalFrameIsStoredState
  BY <1>2 DEF StoreInv, FinalFrameIsStoredState
<1>4. DriveInv /\ CancelInv /\ SubInv
  BY <1>2, Zenon DEF DriveInv, Drives, CancelInv, Cancelling, SubInv
<1> QED
  BY <1>1, <1>3, <1>4, Zenon DEF TasksInv

-----------------------------------------------------------------------------
(* What the three operations of the store do.                               *)

\* update_state changes the state of its task if that is the expected one, and
\* then leaves no waiter of the task asleep.
LEMMA UpdateEffect ==
  ASSUME Types, NEW t \in Tasks, NEW e \in States, NEW n \in States, UpdateState(t, e, n)
  PROVE  /\ order' = order /\ log' = log /\ first' = first /\ Stored' = Stored
         /\ state' \in [Tasks -> States] /\ waiters' \subseteq waiters
         /\ \A u \in Tasks : u # t \/ ~Swaps(t, e) => state'[u] = state[u]
         /\ Swaps(t, e) => state'[t] = n /\ \A s \in waiters' : sub[s] # t
BY Zenon DEF UpdateState, Swaps, Notify, storeVars, Stored, Types

\* append_event adds one frame at the end of the log of a stored task, and then
\* leaves no waiter of the task asleep.
LEMMA AppendEffect ==
  ASSUME Types, NEW t \in Tasks, NEW f \in Frames, AppendEvent(t, f)
  PROVE  /\ order' = order /\ state' = state /\ Stored' = Stored
         /\ log' \in [Tasks -> Seq(Frames)] /\ first' \in [Tasks -> Nat]
         /\ waiters' \subseteq waiters
         /\ \A u \in Tasks : u # t \/ t \notin Stored => log'[u] = log[u] /\ first'[u] = first[u]
         /\ t \in Stored =>
              /\ log'[t] # <<>> /\ NextSeq(t)' = NextSeq(t) + 1
              /\ \A i \in 1 .. Len(log'[t]) :
                   log'[t][i] = f \/ \E j \in 1 .. Len(log[t]) : log'[t][i] = log[t][j]
              /\ \A s \in waiters' : sub[s] # t
<1>1. CASE t \notin Stored
  BY <1>1, Zenon DEF AppendEvent, storeVars, Stored, Types
<1>2. CASE t \in Stored /\ Len(log[t]) = MaxLog
  <2>1. /\ log' = [log EXCEPT ![t] = Append(Tail(log[t]), f)]
        /\ first' = [first EXCEPT ![t] = first[t] + 1]
        /\ waiters' = {s \in waiters : sub[s] # t} /\ order' = order /\ state' = state
    BY <1>2, Zenon DEF AppendEvent, Notify
  <2>2. log[t] \in Seq(Frames) /\ log[t] # <<>> /\ first[t] \in Nat
    BY <1>2, A2AAssumption, Zenon DEF Types
  <2>3. PICK l : l = Append(Tail(log[t]), f)
    BY Zenon
  <2>4. /\ l \in Seq(Frames) /\ Len(l) = Len(log[t]) /\ l # <<>> /\ Len(log[t]) \in Nat
        /\ \A i \in 1 .. Len(l) : l[i] = f \/ \E j \in 1 .. Len(log[t]) : l[i] = log[t][j]
    BY <2>2, <2>3
  <2>5. log' \in [Tasks -> Seq(Frames)] /\ first' \in [Tasks -> Nat]
    <3>1. log' = [log EXCEPT ![t] = l] /\ l \in Seq(Frames)
      BY <2>1, <2>3, <2>4, Zenon
    <3>2. log' \in [Tasks -> Seq(Frames)]
      BY <3>1, Zenon DEF Types
    <3> QED
      BY <2>1, <2>2, <3>2 DEF Types
  <2>6. /\ log'[t] = l /\ first'[t] = first[t] + 1
        /\ \A u \in Tasks : u # t => log'[u] = log[u] /\ first'[u] = first[u]
    BY <2>1, <2>3, Zenon DEF Types
  <2>7. NextSeq(t)' = NextSeq(t) + 1
    <3>1. NextSeq(t)' = first'[t] + Len(l) /\ NextSeq(t) = first[t] + Len(log[t])
      BY <2>6, Zenon DEF NextSeq
    <3>2. first'[t] = first[t] + 1 /\ first[t] \in Nat /\ Len(l) = Len(log[t]) /\ Len(log[t]) \in Nat
      BY <2>2, <2>4, <2>6, Zenon
    <3> QED
      BY <3>1, <3>2
  <2>8. Stored' = Stored
    BY <2>1, Zenon DEF Stored
  <2> QED
    BY <1>2, <2>1, <2>4, <2>5, <2>6, <2>7, <2>8
<1>3. CASE t \in Stored /\ Len(log[t]) # MaxLog
  <2>1. /\ log' = [log EXCEPT ![t] = Append(log[t], f)] /\ first' = first
        /\ waiters' = {s \in waiters : sub[s] # t} /\ order' = order /\ state' = state
    BY <1>3, Zenon DEF AppendEvent, Notify
  <2>2. log[t] \in Seq(Frames) /\ first[t] \in Nat
    BY Zenon DEF Types
  <2>3. PICK l : l = Append(log[t], f)
    BY Zenon
  <2>4. /\ l \in Seq(Frames) /\ Len(l) = Len(log[t]) + 1 /\ l # <<>> /\ Len(log[t]) \in Nat
        /\ \A i \in 1 .. Len(l) : l[i] = f \/ \E j \in 1 .. Len(log[t]) : l[i] = log[t][j]
    BY <2>2, <2>3
  <2>5. log' \in [Tasks -> Seq(Frames)] /\ first' \in [Tasks -> Nat]
    <3>1. log' = [log EXCEPT ![t] = l] /\ l \in Seq(Frames)
      BY <2>1, <2>3, <2>4, Zenon
    <3>2. log' \in [Tasks -> Seq(Frames)]
      BY <3>1, Zenon DEF Types
    <3> QED
      BY <2>1, <2>2, <3>2, Zenon DEF Types
  <2>6. /\ log'[t] = l /\ first'[t] = first[t]
        /\ \A u \in Tasks : u # t => log'[u] = log[u] /\ first'[u] = first[u]
    BY <2>1, <2>3, Zenon DEF Types
  <2>7. NextSeq(t)' = NextSeq(t) + 1
    <3>1. NextSeq(t)' = first'[t] + Len(l) /\ NextSeq(t) = first[t] + Len(log[t])
      BY <2>6, Zenon DEF NextSeq
    <3>2. first'[t] = first[t] /\ first[t] \in Nat /\ Len(l) = Len(log[t]) + 1 /\ Len(log[t]) \in Nat
      BY <2>2, <2>4, <2>6, Zenon
    <3> QED
      BY <3>1, <3>2
  <2>8. Stored' = Stored
    BY <2>1, Zenon DEF Stored
  <2> QED
    BY <1>3, <2>1, <2>4, <2>5, <2>6, <2>7, <2>8
<1> QED
  BY <1>1, <1>2, <1>3, Zenon

\* create stores a fresh task and may drop another one, whose waiters it wakes.
LEMMA CreateEffect ==
  ASSUME Types, StoreInv, NEW t \in Tasks, CreateTask(t)
  PROVE  /\ t \notin Minted /\ Stored' \subseteq Stored \union {t}
         /\ order' \in Seq(Tasks) /\ state' \in [Tasks -> States]
         /\ log' \in [Tasks -> Seq(Frames)] /\ first' \in [Tasks -> Nat]
         /\ waiters' \subseteq waiters
         /\ \A i, j \in 1 .. Len(order') : order'[i] = order'[j] => i = j
         /\ \A u \in Tasks : u \in Stored' \/ u \notin Stored =>
              log'[u] = log[u] /\ first'[u] = first[u]
         /\ \A u \in Stored' : state'[u] = state[u]
         /\ \A u \in Tasks : u \notin Stored' => log'[u] = <<>> /\ first'[u] = 0
         /\ \A s \in waiters' : sub[s] \in Stored => sub[s] \in Stored'
<1>1. t \notin Minted /\ t \notin Stored
  BY Zenon DEF CreateTask, Minted, StoreInv
<1>2. PICK q : q = Append(order, t)
  BY Zenon
<1> order \in Seq(Tasks)
  BY Zenon DEF Types
<1>3. /\ q \in Seq(Tasks) /\ Len(q) = Len(order) + 1 /\ Len(order) \in Nat /\ q # <<>>
      /\ \A i \in 1 .. Len(order) : q[i] = order[i]
      /\ q[Len(order) + 1] = t
  BY <1>2
<1>4. \A i, j \in 1 .. Len(q) : q[i] = q[j] => i = j
  BY <1>1, <1>3 DEF StoreInv, Stored
<1>5. CASE Len(order) < MaxTasks
  <2>1. order' = q /\ UNCHANGED <<state, log, first, waiters>>
    BY <1>2, <1>5, Zenon DEF CreateTask
  <2>2. Stored' = Stored \union {t}
    BY <1>3, <2>1 DEF Stored
  <2> QED
    BY <1>1, <1>3, <1>4, <2>1, <2>2, Zenon DEF Types, StoreInv
<1>6. CASE ~(Len(order) < MaxTasks)
  <2> Len(order) >= 1
    BY <1>3, <1>6, A2AAssumption
  <2>1. PICK o : o = order[1]
    BY Zenon
  <2>2. o = q[1] /\ o = Head(q) /\ o \in Stored /\ o \in Tasks
    BY <1>3, <2>1 DEF Stored
  <2>3. /\ order' = Tail(q) /\ waiters' = {s \in waiters : sub[s] # o}
        /\ state' = [state EXCEPT ![o] = "submitted"]
        /\ log' = [log EXCEPT ![o] = <<>>] /\ first' = [first EXCEPT ![o] = 0]
    BY <1>2, <1>6, <2>1, <2>2, Zenon DEF CreateTask, Notify
  <2>4. /\ order' \in Seq(Tasks) /\ Len(order') = Len(order)
        /\ \A i \in 1 .. Len(order') : order'[i] = q[i + 1]
    BY <1>3, <2>3
  <2>5. Stored' = (Stored \ {o}) \union {t}
    <3>1. ASSUME NEW u \in Stored' PROVE u \in (Stored \ {o}) \union {t}
      BY <1>3, <1>4, <2>1, <2>2, <2>4 DEF Stored
    <3>2. ASSUME NEW u \in Stored \ {o} PROVE u \in Stored'
      <4>1. PICK i \in 1 .. Len(order) : u = order[i]
        BY Zenon DEF Stored
      <4>2. i - 1 \in 1 .. Len(order')
        BY <1>3, <2>1, <2>4, <4>1
      <4>3. order'[i - 1] = q[(i - 1) + 1] /\ (i - 1) + 1 = i
        BY <2>4, <4>2
      <4>4. order'[i - 1] = u
        BY <1>3, <4>1, <4>3, Zenon
      <4> QED
        BY <4>2, <4>4, Zenon DEF Stored
    <3>3. t \in Stored'
      <4>1. Len(order) \in 1 .. Len(order') /\ order'[Len(order)] = t
        BY <1>3, <1>6, <2>4, A2AAssumption
      <4> QED
        BY <4>1, Zenon DEF Stored
    <3> QED
      BY <3>1, <3>2, <3>3, Zenon
  <2>6. \A i, j \in 1 .. Len(order') : order'[i] = order'[j] => i = j
    BY <1>3, <1>4, <2>4
  <2>7. /\ state' \in [Tasks -> States] /\ log' \in [Tasks -> Seq(Frames)]
        /\ first' \in [Tasks -> Nat]
    BY <2>1, <2>2, <2>3 DEF Types, States
  <2>8. /\ \A u \in Tasks \ {o} : state'[u] = state[u] /\ log'[u] = log[u] /\ first'[u] = first[u]
        /\ log'[o] = <<>> /\ first'[o] = 0
    BY <2>2, <2>3, Zenon DEF Types
  <2>9. Stored' \subseteq Tasks \ {o} /\ Stored \subseteq Tasks
    <3>1. Stored \subseteq Tasks
      BY DEF Stored
    <3> QED
      BY <1>1, <2>2, <2>5, <3>1, Zenon
  <2>10. \A u \in Tasks : u \notin Stored' => log'[u] = <<>> /\ first'[u] = 0
    BY <2>5, <2>8, Zenon DEF StoreInv
  <2> QED
    BY <1>1, <2>2, <2>3, <2>4, <2>5, <2>6, <2>7, <2>8, <2>9, <2>10, Zenon
<1> QED
  BY <1>5, <1>6, Zenon

-----------------------------------------------------------------------------
(* What a step of the store leaves standing of the rest.                    *)

\* The state of a stored task only moves on: it does not return to submitted, and
\* a terminal one stays.  Nothing that was dropped from the store comes back.
MovesOn ==
  /\ Minted \subseteq Minted' /\ Stored' \subseteq Tasks
  /\ Stored' \intersect Minted \subseteq Stored
  /\ \A t \in Stored' \intersect Stored :
       /\ state[t] # "submitted" => state'[t] # "submitted"
       /\ IsTerminal(state[t]) => state'[t] = state[t]

\* A swap of a state that is not terminal keeps the store, its logs and the streams
\* in order: the task has no final frame yet, and its sleepers are woken.
LEMMA UpdateKeeps ==
  ASSUME TasksInv, NEW t \in Tasks, NEW e \in {"submitted", "working"},
         NEW n \in States \ {"submitted"}, UpdateState(t, e, n),
         UNCHANGED <<target, sub, cursor, phase>>
  PROVE  StoreInv' /\ FinalFrameIsStoredState' /\ SubInv' /\ MovesOn
<1> USE DEF TasksInv
<1>1. e \in States /\ n \in States
  BY Zenon DEF States
<1>2. /\ order' = order /\ log' = log /\ first' = first /\ Stored' = Stored /\ Minted' = Minted
      /\ waiters' \subseteq waiters
      /\ \A u \in Tasks : u # t \/ ~Swaps(t, e) => state'[u] = state[u]
      /\ Swaps(t, e) => state'[t] = n /\ \A s \in waiters' : sub[s] # t
  BY <1>1, UpdateEffect DEF Minted
<1>3. Stored \subseteq Tasks
  BY Zenon DEF StoreInv, Minted
<1>4. Swaps(t, e) => ~IsTerminal(state[t])
  BY Zenon DEF Swaps, IsTerminal
<1>5. StoreInv'
  BY <1>2, Zenon DEF StoreInv
<1>6. FinalFrameIsStoredState'
  BY <1>2, <1>3, <1>4, Zenon DEF FinalFrameIsStoredState
<1>7. SubInv'
  BY <1>2, <1>3, Zenon DEF SubInv, NextSeq, Types
<1>8. MovesOn
  BY <1>2, <1>3, <1>4, Zenon DEF MovesOn
<1> QED
  BY <1>5, <1>6, <1>7, <1>8, Zenon

\* So does a frame that says nothing final, or the stored terminal state.
LEMMA AppendKeeps ==
  ASSUME TasksInv, NEW t \in Tasks, NEW f \in Frames, AppendEvent(t, f),
         t \in Stored /\ f.final => f.state = state[t] /\ IsTerminal(state[t]),
         UNCHANGED <<target, sub, cursor, phase>>
  PROVE  StoreInv' /\ FinalFrameIsStoredState' /\ SubInv' /\ MovesOn
<1> USE DEF TasksInv
<1>1. /\ order' = order /\ state' = state /\ Stored' = Stored /\ Minted' = Minted
      /\ waiters' \subseteq waiters
      /\ \A u \in Tasks : u # t \/ t \notin Stored => log'[u] = log[u] /\ first'[u] = first[u]
      /\ t \in Stored =>
           /\ log'[t] # <<>> /\ NextSeq(t)' = NextSeq(t) + 1
           /\ \A i \in 1 .. Len(log'[t]) :
                log'[t][i] = f \/ \E j \in 1 .. Len(log[t]) : log'[t][i] = log[t][j]
           /\ \A s \in waiters' : sub[s] # t
  <2>1. Minted' = Minted
    BY Zenon DEF Minted
  <2> HIDE DEF TasksInv, Minted
  <2>2. Types
    BY Zenon DEF TasksInv
  <2> QED
    BY <2>1, <2>2, AppendEffect, Zenon
<1>2. Stored \subseteq Tasks
  BY Zenon DEF StoreInv, Minted
<1>3. StoreInv'
  BY <1>1, Zenon DEF StoreInv
<1>4. FinalFrameIsStoredState'
  BY <1>1, <1>2 DEF FinalFrameIsStoredState
<1>5. SubInv'
  <2> SUFFICES ASSUME NEW s \in Subs
               PROVE  /\ phase[s] = "new" => cursor[s] = 0
                      /\ phase[s] # "new" => sub[s] \in Minted
                      /\ phase[s] # "new" /\ sub[s] \in Stored => cursor[s] <= NextSeq(sub[s])'
                      /\ phase[s] \in {"parking", "waiting"} /\ s \in waiters' =>
                           /\ sub[s] \in Stored /\ ~IsTerminal(state[sub[s]])
                           /\ cursor[s] = NextSeq(sub[s])'
    BY <1>1, Zenon DEF SubInv, NextSeq
  <2>1. CASE t \in Stored /\ sub[s] = t
    <3>1. NextSeq(t) \in Int /\ cursor[s] \in Int
      BY DEF NextSeq, Types
    <3>2. /\ phase[s] = "new" => cursor[s] = 0
          /\ phase[s] # "new" => sub[s] \in Minted
          /\ phase[s] # "new" => cursor[s] <= NextSeq(t)
          /\ NextSeq(t)' = NextSeq(t) + 1 /\ s \notin waiters'
      BY <1>1, <2>1, Zenon DEF SubInv
    <3>3. cursor[s] <= NextSeq(t) => cursor[s] <= NextSeq(t) + 1
      BY <3>1
    <3> QED
      BY <2>1, <3>2, <3>3, Zenon
  <2>2. CASE ~(t \in Stored /\ sub[s] = t)
    <3>1. sub[s] \in Tasks => NextSeq(sub[s])' = NextSeq(sub[s])
      BY <1>1, <2>2, Zenon DEF NextSeq
    <3> QED
      BY <1>1, <1>2, <2>2, <3>1, Zenon DEF SubInv, Minted
  <2> QED
    BY <2>1, <2>2, Zenon
<1>6. MovesOn
  BY <1>1, <1>2, Zenon DEF MovesOn
<1> QED
  BY <1>3, <1>4, <1>5, <1>6, Zenon

\* A fresh task starts with an empty log and has no stream yet; the task it drives
\* out takes its log with it.
LEMMA CreateKeeps ==
  ASSUME TasksInv, NEW m \in Messages, NEW t \in Tasks, at[m] = "new", CreateTask(t),
         target' = [target EXCEPT ![m] = t], UNCHANGED <<sub, cursor, phase>>
  PROVE  StoreInv' /\ FinalFrameIsStoredState' /\ SubInv' /\ MovesOn
<1> USE DEF TasksInv
<1>1. /\ t \notin Minted /\ Stored' \subseteq Stored \union {t}
      /\ waiters' \subseteq waiters
      /\ \A i, j \in 1 .. Len(order') : order'[i] = order'[j] => i = j
      /\ \A u \in Tasks : u \in Stored' \/ u \notin Stored =>
           log'[u] = log[u] /\ first'[u] = first[u]
      /\ \A u \in Stored' : state'[u] = state[u]
      /\ \A u \in Tasks : u \notin Stored' => log'[u] = <<>> /\ first'[u] = 0
      /\ \A s \in waiters' : sub[s] \in Stored => sub[s] \in Stored'
  BY CreateEffect, Zenon
<1>2. Minted' = Minted \union {t}
  BY DEF Minted, DriveInv, Drives, Types
<1>3. Stored \subseteq Minted /\ Minted \subseteq Tasks
  BY Zenon DEF StoreInv, Minted
<1>4. StoreInv'
  <2>1. Stored' \subseteq Minted'
    BY <1>1, <1>2, <1>3, Zenon
  <2> QED
    BY <1>1, <2>1, Zenon DEF StoreInv
<1>5. FinalFrameIsStoredState'
  <2> SUFFICES ASSUME NEW u \in Stored', NEW i \in 1 .. Len(log'[u]), log'[u][i].final
               PROVE  log'[u][i].state = state'[u] /\ IsTerminal(state'[u])
    BY Zenon DEF FinalFrameIsStoredState
  <2>1. u \in Tasks /\ log'[u] = log[u] /\ state'[u] = state[u]
    BY <1>1, <1>3, Zenon
  <2>2. u \in Stored
    BY <2>1 DEF StoreInv
  <2> QED
    BY <2>1, <2>2, Zenon DEF FinalFrameIsStoredState
<1>6. SubInv'
  <2>1. \A u \in Stored' \intersect Minted :
          u \in Stored /\ state'[u] = state[u] /\ NextSeq(u)' = NextSeq(u)
    BY <1>1, <1>3, Zenon DEF NextSeq
  <2> QED
    BY <1>1, <1>2, <2>1, Zenon DEF SubInv, NextSeq
<1>7. MovesOn
  BY <1>1, <1>2, <1>3, Zenon DEF MovesOn
<1> QED
  BY <1>4, <1>5, <1>6, <1>7, Zenon

\* A driver that does not move keeps what it knows.
LEMMA DriverKeeps ==
  ASSUME TasksInv, MovesOn, NEW m \in Messages,
         at'[m] = at[m], outcome'[m] = outcome[m], target'[m] = target[m]
  PROVE  Drives(m)'
<1>1. Drives(m)
  BY Zenon DEF TasksInv, DriveInv
<1>2. target[m] \in Stored' => target[m] \in Stored
  BY Zenon DEF MovesOn, Minted
<1> QED
  BY <1>1, <1>2, Zenon DEF Drives, MovesOn, IsTerminal

\* So does a cancel request.
LEMMA CancelKeeps ==
  ASSUME TasksInv, MovesOn, NEW c \in Cancels,
         answer'[c] = answer[c], target'[c] = target[c], fired \subseteq fired'
  PROVE  Cancelling(c)'
<1>1. Cancelling(c)
  BY Zenon DEF TasksInv, CancelInv
<1>2. target[c] \in Minted /\ target[c] \in Stored' => target[c] \in Stored
  BY Zenon DEF MovesOn
<1> QED
  BY <1>1, <1>2, Zenon DEF Cancelling, MovesOn, IsTerminal

\* A step that leaves the store and the targets alone.
LEMMA QuietStore ==
  ASSUME TasksInv, UNCHANGED <<order, state, log, first, target>>
  PROVE  /\ Stored' = Stored /\ Minted' = Minted /\ MovesOn
         /\ StoreInv' /\ FinalFrameIsStoredState'
<1>1. Stored' = Stored /\ Minted' = Minted
  BY Zenon DEF Stored, Minted
<1>2. StoreInv' /\ FinalFrameIsStoredState'
  BY <1>1, Zenon DEF TasksInv, StoreInv, FinalFrameIsStoredState
<1>3. MovesOn
  BY <1>1, Zenon DEF TasksInv, StoreInv, Minted, MovesOn
<1> QED
  BY <1>1, <1>2, <1>3, Zenon

\* Without a step of the streams or the store nothing changes for a stream.
LEMMA QuietStreams ==
  ASSUME TasksInv, UNCHANGED <<order, state, log, first, target, sub, cursor, phase, waiters>>
  PROVE  SubInv'
BY QuietStore, Zenon DEF TasksInv, SubInv, NextSeq

-----------------------------------------------------------------------------
(* The steps of the drivers.                                                *)

\* message/send and message/stream resolve their task.
LEMMA ResolveStep ==
  ASSUME TasksInv, NEW m \in Messages, NEW t \in Tasks,
         ResolveNew(m, t) \/ ResolveExisting(m, t)
  PROVE  TasksInv'
<1>1. at[m] = "new" /\ target' = [target EXCEPT ![m] = t] /\ at' = [at EXCEPT ![m] = "resolved"]
      /\ UNCHANGED <<fired, outcome, answer, sub, cursor, phase>>
  BY Zenon DEF ResolveNew, ResolveExisting, Goto, cancelVars, subVars
<1>2. StoreInv' /\ FinalFrameIsStoredState' /\ SubInv' /\ MovesOn /\ Types'
  <2>1. CASE ResolveNew(m, t)
    <3>1. CreateTask(t)
      BY <2>1, Zenon DEF ResolveNew
    <3>2. Types'
      BY <1>1, <3>1, CreateEffect, Zenon DEF TasksInv, Types, Places
    <3> QED
      BY <1>1, <3>1, <3>2, CreateKeeps, Zenon
  <2>2. CASE ResolveExisting(m, t)
    <3>1. t \in Stored /\ UNCHANGED <<order, state, log, first, waiters>>
      BY <2>2, Zenon DEF ResolveExisting, storeVars, subVars
    <3>2. Types'
      BY <1>1, <3>1, Zenon DEF TasksInv, Types, Places
    <3>3. Stored' = Stored /\ Stored \subseteq Minted /\ Stored \subseteq Tasks
      BY <3>1, Zenon DEF TasksInv, StoreInv, Stored, Minted
    <3>4. Minted \subseteq Minted'
      BY <1>1, Zenon DEF TasksInv, Types, DriveInv, Drives, Minted
    <3>5. StoreInv' /\ FinalFrameIsStoredState' /\ MovesOn
      BY <3>1, <3>3, <3>4, Zenon DEF TasksInv, StoreInv, FinalFrameIsStoredState, MovesOn
    <3>6. SubInv'
      BY <1>1, <3>1, <3>3, <3>4, Zenon DEF TasksInv, SubInv, NextSeq
    <3> QED
      BY <3>2, <3>5, <3>6, Zenon
  <2> QED
    BY <2>1, <2>2, Zenon
<1>3. DriveInv'
  <2>1. \A k \in Messages \ {m} : Drives(k)'
    BY <1>1, <1>2, DriverKeeps, Zenon DEF TasksInv, Types
  <2>2. Drives(m)'
    BY <1>1, Zenon DEF TasksInv, Types, Drives
  <2> QED
    BY <2>1, <2>2, Zenon DEF DriveInv
<1>4. CancelInv'
  <2>1. \A c \in Cancels : target'[c] = target[c]
    BY <1>1, A2AAssumption, Zenon DEF TasksInv, Types
  <2> QED
    BY <1>1, <1>2, <2>1, CancelKeeps, Zenon DEF CancelInv
<1> QED
  BY <1>2, <1>3, <1>4, Zenon DEF TasksInv

\* Steps of a driver that do not call the store, or only set the artifacts.
LEMMA QuietDriverStep ==
  ASSUME TasksInv, NEW m \in Messages,
         \/ StartFails(m) \/ StartRun(m) \/ DriveStreamEnds(m) \/ DrivePanics(m)
         \/ DriveStores(m) \/ DriveReads(m) \/ DriveRemoves(m)
  PROVE  TasksInv'
<1>1. UNCHANGED <<order, state, log, first, target, fired, answer, sub, cursor, phase, waiters>>
  BY Zenon DEF StartFails, StartRun, DriveStreamEnds, DrivePanics, DriveStores, DriveReads,
         DriveRemoves, storeVars, cancelVars, subVars
<1>2. /\ at' \in [Messages -> Places] /\ outcome' \in [Messages -> States]
      /\ \A k \in Messages \ {m} : at'[k] = at[k] /\ outcome'[k] = outcome[k]
  <2>1. PICK p \in Places, o \in States :
          /\ at' = [at EXCEPT ![m] = p]
          /\ outcome' = [outcome EXCEPT ![m] = o]
    <3> USE DEF Goto, TasksInv, Types, Places, States
    <3>1. CASE StartFails(m) \/ StartRun(m) \/ DrivePanics(m) \/ DriveStores(m)
      <4>1. outcome' = [outcome EXCEPT ![m] = outcome[m]]
        BY <3>1, Zenon DEF StartFails, StartRun, DrivePanics, DriveStores
      <4> QED
        BY <3>1, <4>1, Zenon DEF StartFails, StartRun, DrivePanics, DriveStores
    <3>2. CASE DriveStreamEnds(m) \/ DriveRemoves(m)
      BY <3>2, Zenon DEF DriveStreamEnds, DriveRemoves
    <3>3. CASE DriveReads(m)
      <4>1. CASE target[m] \in Stored
        <5>1. state[target[m]] \in States
          BY <4>1, Zenon DEF StoreInv, Minted
        <5> QED
          BY <3>3, <4>1, <5>1, Zenon DEF DriveReads
      <4>2. CASE target[m] \notin Stored
        <5>1. outcome' = [outcome EXCEPT ![m] = outcome[m]] /\ outcome[m] \in States
          BY <3>3, <4>2, Zenon DEF DriveReads
        <5> QED
          BY <3>3, <5>1, Zenon DEF DriveReads
      <4> QED
        BY <4>1, <4>2, Zenon
    <3> QED
      BY <3>1, <3>2, <3>3, Zenon
  <2> QED
    BY <2>1, Zenon DEF TasksInv, Types
<1>3. Types' /\ StoreInv' /\ FinalFrameIsStoredState' /\ SubInv' /\ MovesOn
  BY <1>1, <1>2, QuietStore, QuietStreams, Zenon DEF TasksInv, Types
<1>4. Drives(m)'
  <2>1. Drives(m) /\ Stored' = Stored /\ state' = state /\ target' = target
    BY <1>1, QuietStore, Zenon DEF TasksInv, DriveInv
  <2> QED
    BY <2>1, Zenon DEF StartFails, StartRun, DriveStreamEnds, DrivePanics, DriveStores, DriveReads,
         DriveRemoves, Goto, TasksInv, Types, Drives
<1>5. DriveInv'
  BY <1>1, <1>2, <1>3, <1>4, DriverKeeps, Zenon DEF DriveInv
<1>6. CancelInv'
  BY <1>1, <1>3, CancelKeeps, Zenon DEF CancelInv
<1> QED
  BY <1>3, <1>5, <1>6, Zenon DEF TasksInv

\* update_state by a driver: to `working`, and to the outcome of the run.
LEMMA DriverSwapStep ==
  ASSUME TasksInv, NEW m \in Messages, DriveWorking(m) \/ DriveSwaps(m)
  PROVE  TasksInv'
<1>1. Drives(m) /\ target[m] \in Tasks
  BY Zenon DEF TasksInv, DriveInv, Drives, DriveWorking, DriveSwaps
<1>2. PICK e \in {"submitted", "working"}, n \in States \ {"submitted"}, p \in {"announce", "report"} :
        /\ UpdateState(target[m], e, n) /\ at' = [at EXCEPT ![m] = p]
        /\ p = "announce" => e = "submitted"
        /\ p = "report" => e = "working" /\ n \in {"completed", "failed"} /\ at[m] = "swap"
  BY <1>1, Zenon DEF DriveWorking, DriveSwaps, Drives, Goto, States
<1>3. UNCHANGED <<target, outcome, fired, answer, sub, cursor, phase>>
  BY Zenon DEF DriveWorking, DriveSwaps, cancelVars
<1>4. StoreInv' /\ FinalFrameIsStoredState' /\ SubInv' /\ MovesOn
  BY <1>1, <1>2, <1>3, UpdateKeeps, Zenon
<1>5. /\ order' = order /\ log' = log /\ first' = first /\ Stored' = Stored
      /\ state' \in [Tasks -> States] /\ waiters' \subseteq waiters
      /\ ~Swaps(target[m], e) => state'[target[m]] = state[target[m]]
      /\ Swaps(target[m], e) => state'[target[m]] = n
  <2>1. Types /\ target[m] \in Tasks /\ e \in States /\ n \in States
    BY <1>1, <1>2, Zenon DEF TasksInv, States
  <2> DEFINE t == target[m]
  <2>2. t \in Tasks /\ UpdateState(t, e, n)
    BY <1>2, <2>1, Zenon
  <2> HIDE DEF t
  <2>3. /\ order' = order /\ log' = log /\ first' = first /\ Stored' = Stored
        /\ state' \in [Tasks -> States] /\ waiters' \subseteq waiters
        /\ \A u \in Tasks : u # t \/ ~Swaps(t, e) => state'[u] = state[u]
        /\ Swaps(t, e) => state'[t] = n
    BY <2>1, <2>2, UpdateEffect, Zenon
  <2> QED
    BY <2>2, <2>3, Zenon DEF t
<1>6. Types'
  BY <1>2, <1>3, <1>5, Zenon DEF TasksInv, Types, Places
<1>7. Drives(m)'
  <2>1. at'[m] = p /\ target'[m] = target[m]
    BY <1>2, <1>3, Zenon DEF TasksInv, Types
  <2>2. target[m] \in Stored => state'[target[m]] # "submitted"
    BY <1>1, <1>2, <1>5, Zenon DEF Swaps, Drives
  <2>3. p = "report" /\ target[m] \in Stored => IsTerminal(state'[target[m]])
    <3>1. p = "report" /\ target[m] \in Stored => state[target[m]] # "submitted"
      BY <1>1, <1>2, Zenon DEF Drives
    <3> QED
      BY <1>1, <1>2, <1>5, <3>1, Zenon DEF Swaps, IsTerminal, TasksInv, Types, States
  <2> QED
    BY <1>1, <1>2, <1>5, <2>1, <2>2, <2>3, Zenon DEF Drives
<1>8. DriveInv'
  <2>1. \A k \in Messages \ {m} : at'[k] = at[k]
    BY <1>2, Zenon DEF TasksInv, Types
  <2> QED
    BY <1>3, <1>4, <1>7, <2>1, DriverKeeps, Zenon DEF DriveInv
<1>9. CancelInv'
  BY <1>3, <1>4, CancelKeeps, Zenon DEF CancelInv
<1> QED
  BY <1>4, <1>6, <1>8, <1>9, Zenon DEF TasksInv

\* append_event by a driver: `working`, artifacts, and the final status.
LEMMA DriverAppendStep ==
  ASSUME TasksInv, NEW m \in Messages,
         DriveAnnounces(m) \/ DriveArtifact(m) \/ DriveFinal(m)
  PROVE  TasksInv'
<1>1. Drives(m) /\ target[m] \in Tasks
  BY Zenon DEF TasksInv, DriveInv, Drives, DriveAnnounces, DriveArtifact, DriveFinal
<1>2. PICK f \in Frames, p \in {"run", "remove"} :
        /\ AppendEvent(target[m], f) /\ at' = [at EXCEPT ![m] = p]
        /\ f.final => at[m] = "append" /\ f.state = outcome[m]
        /\ at[m] \in {"announce", "run", "append"}
  <2>1. CASE DriveAnnounces(m)
    BY <2>1, Zenon DEF DriveAnnounces, Goto, Update, Frames, States
  <2>2. CASE DriveArtifact(m)
    <3>1. at' = [at EXCEPT ![m] = "run"]
      BY <2>2, Zenon DEF DriveArtifact, TasksInv, Types
    <3> QED
      BY <2>2, <3>1, Zenon DEF DriveArtifact, Update, Frames, States
  <2>3. CASE DriveFinal(m)
    BY <2>3, Zenon DEF DriveFinal, Goto, FinalStatus, Frames, TasksInv, Types
  <2> QED
    BY <2>1, <2>2, <2>3, Zenon
<1>3. UNCHANGED <<target, outcome, fired, answer, sub, cursor, phase>>
  BY Zenon DEF DriveAnnounces, DriveArtifact, DriveFinal, cancelVars
<1>4. StoreInv' /\ FinalFrameIsStoredState' /\ SubInv' /\ MovesOn
  BY <1>1, <1>2, <1>3, AppendKeeps, Zenon DEF Drives
<1>5. /\ order' = order /\ state' = state /\ Stored' = Stored
      /\ log' \in [Tasks -> Seq(Frames)] /\ first' \in [Tasks -> Nat]
      /\ waiters' \subseteq waiters
  BY <1>1, <1>2, AppendEffect, Zenon DEF TasksInv
<1>6. Types'
  BY <1>2, <1>3, <1>5, Zenon DEF TasksInv, Types, Places
<1>7. Drives(m)'
  <2>1. at'[m] = p /\ target'[m] = target[m]
    BY <1>2, <1>3, Zenon DEF TasksInv, Types
  <2> QED
    BY <1>1, <1>2, <1>5, <2>1, Zenon DEF Drives
<1>8. DriveInv'
  <2>1. \A k \in Messages \ {m} : at'[k] = at[k]
    BY <1>2, Zenon DEF TasksInv, Types
  <2> QED
    BY <1>3, <1>4, <1>7, <2>1, DriverKeeps, Zenon DEF DriveInv
<1>9. CancelInv'
  BY <1>3, <1>4, CancelKeeps, Zenon DEF CancelInv
<1> QED
  BY <1>4, <1>6, <1>8, <1>9, Zenon DEF TasksInv

-----------------------------------------------------------------------------
(* The steps of tasks/cancel.                                               *)

\* A look at the task, and the token.
LEMMA CancelQuietStep ==
  ASSUME TasksInv, NEW c \in Cancels, (\E t \in Tasks : CancelLooks(c, t)) \/ CancelFires(c)
  PROVE  TasksInv'
<1>1. /\ UNCHANGED <<order, state, log, first, at, outcome, sub, cursor, phase, waiters>>
      /\ fired \subseteq fired'
  BY Zenon DEF CancelLooks, CancelFires, storeVars, cancelVars, driveVars, subVars
<1>2. /\ target' \in [Messages \union Cancels -> Tasks \union {None}]
      /\ answer' \in [Cancels -> Answers]
      /\ \A k \in Cancels \ {c} : target'[k] = target[k] /\ answer'[k] = answer[k]
      /\ \A m \in Messages : target'[m] = target[m]
  <2>1. PICK t \in Tasks \union {None}, a \in Answers :
          target' = [target EXCEPT ![c] = t] /\ answer' = [answer EXCEPT ![c] = a]
    <3>1. CASE \E t \in Tasks : CancelLooks(c, t)
      BY <3>1, Zenon DEF CancelLooks, Answer, Answers
    <3>2. CASE CancelFires(c)
      <4>1. target' = [target EXCEPT ![c] = target[c]] /\ target[c] \in Tasks \union {None}
        BY <3>2, Zenon DEF CancelFires, TasksInv, Types
      <4> QED
        BY <3>2, <4>1, Zenon DEF CancelFires, Answer, Answers
    <3> QED
      BY <3>1, <3>2, Zenon
  <2> QED
    BY <2>1, A2AAssumption, Zenon DEF TasksInv, Types
<1>3. Stored' = Stored /\ Minted' = Minted /\ Stored \subseteq Minted /\ Stored \subseteq Tasks
  BY <1>1, <1>2 DEF Stored, Minted, TasksInv, StoreInv
<1>4. StoreInv' /\ FinalFrameIsStoredState' /\ MovesOn
  BY <1>1, <1>3, Zenon DEF TasksInv, StoreInv, FinalFrameIsStoredState, MovesOn
<1>5. SubInv'
  BY <1>1, <1>3, Zenon DEF TasksInv, SubInv, NextSeq
<1>6. Types'
  BY <1>1, <1>2, Zenon DEF TasksInv, Types
<1>7. DriveInv'
  BY <1>1, <1>2, <1>4, DriverKeeps, Zenon DEF DriveInv
<1>8. Cancelling(c)'
  <2>1. CASE \E t \in Tasks : CancelLooks(c, t)
    <3>1. PICK t \in Tasks : CancelLooks(c, t)
      BY <2>1, Zenon
    <3>2. target'[c] = t /\ answer'[c] \in {"not_found", "terminal", "fire"}
          /\ (answer'[c] = "fire" => t \in Stored)
      BY <3>1, Zenon DEF CancelLooks, Answer, TasksInv, Types
    <3> QED
      BY <1>3, <3>2, Zenon DEF Cancelling
  <2>2. CASE CancelFires(c)
    <3>1. Cancelling(c) /\ answer[c] = "fire" /\ target'[c] = target[c]
      BY <2>2, Zenon DEF CancelFires, TasksInv, CancelInv
    <3>2. answer'[c] = "no_run" \/ (answer'[c] = "swap_submitted" /\ fired' # {})
      BY <2>2, Zenon DEF CancelFires, Answer, TasksInv, Types
    <3> QED
      BY <1>3, <3>1, <3>2, Zenon DEF Cancelling
  <2> QED
    BY <2>1, <2>2, Zenon
<1>9. CancelInv'
  BY <1>1, <1>2, <1>4, <1>8, CancelKeeps, Zenon DEF CancelInv
<1> QED
  BY <1>4, <1>5, <1>6, <1>7, <1>9, Zenon DEF TasksInv

\* One swap of the walk over the states that are not terminal.
LEMMA CancelSwapStep ==
  ASSUME TasksInv, NEW c \in Cancels, CancelWalks(c)
  PROVE  TasksInv'
<1>1. Cancelling(c) /\ target[c] \in Tasks /\ target[c] \in Minted /\ fired # {}
  BY Zenon DEF TasksInv, CancelInv, Cancelling, CancelWalks, Minted
<1>2. PICK e \in {"submitted", "working"}, otherwise \in {"swap_working", "beaten"} :
        /\ CancelSwaps(c, e, otherwise)
        /\ \/ e = "submitted" /\ otherwise = "swap_working"
           \/ e = "working" /\ otherwise = "beaten" /\ answer[c] = "swap_working"
  <2>1. CASE answer[c] = "swap_submitted" /\ CancelSwaps(c, "submitted", "swap_working")
    BY <2>1, Zenon
  <2>2. CASE answer[c] = "swap_working" /\ CancelSwaps(c, "working", "beaten")
    BY <2>2, Zenon
  <2> QED
    BY <2>1, <2>2, Zenon DEF CancelWalks
<1>3. /\ UpdateState(target[c], e, "canceled")
      /\ UNCHANGED <<target, fired, at, outcome, sub, cursor, phase>>
  BY <1>2, Zenon DEF CancelSwaps, cancelVars, driveVars
<1>4. StoreInv' /\ FinalFrameIsStoredState' /\ SubInv' /\ MovesOn
  <2>1. "canceled" \in States \ {"submitted"}
    BY Zenon DEF States
  <2> QED
    BY <1>1, <1>3, <2>1, UpdateKeeps, Zenon
<1>5. /\ order' = order /\ log' = log /\ first' = first /\ Stored' = Stored
      /\ state' \in [Tasks -> States] /\ waiters' \subseteq waiters
      /\ ~Swaps(target[c], e) => state'[target[c]] = state[target[c]]
      /\ Swaps(target[c], e) => state'[target[c]] = "canceled"
  BY <1>1, <1>3, UpdateEffect DEF TasksInv, States
<1>6. PICK a \in Answers :
        /\ answer' = [answer EXCEPT ![c] = a]
        /\ a \in {"internal", "canceled", otherwise}
        /\ target[c] \in Stored =>
             IF Swaps(target[c], e) THEN a = "canceled" ELSE a = otherwise
  <2> "internal" \in Answers /\ "canceled" \in Answers /\ otherwise \in Answers
    BY Zenon DEF Answers
  <2>1. CASE target[c] \notin Stored
    <3>1. answer' = [answer EXCEPT ![c] = "internal"]
      BY <1>2, <2>1, Zenon DEF CancelSwaps, Answer, Swaps
    <3> QED
      BY <2>1, <3>1, Zenon
  <2>2. CASE target[c] \in Stored /\ Swaps(target[c], e)
    <3>1. answer' = [answer EXCEPT ![c] = "canceled"]
      BY <1>2, <2>2, Zenon DEF CancelSwaps, Answer
    <3> QED
      BY <2>2, <3>1, Zenon
  <2>3. CASE target[c] \in Stored /\ ~Swaps(target[c], e)
    <3>1. answer' = [answer EXCEPT ![c] = otherwise]
      BY <1>2, <2>3, Zenon DEF CancelSwaps, Answer
    <3> QED
      BY <2>3, <3>1, Zenon
  <2> QED
    BY <2>1, <2>2, <2>3, Zenon
<1>7. Types'
  BY <1>3, <1>5, <1>6, Zenon DEF TasksInv, Types
<1>8. DriveInv'
  BY <1>3, <1>4, DriverKeeps, Zenon DEF DriveInv
<1>9. Cancelling(c)'
  <2>1. answer'[c] = a /\ target'[c] = target[c] /\ fired' # {} /\ Minted \subseteq Minted'
    BY <1>1, <1>3, <1>4, <1>6, Zenon DEF TasksInv, Types, MovesOn
  <2>2. target[c] \in Stored /\ a = "beaten" => IsTerminal(state'[target[c]])
    BY <1>1, <1>2, <1>5, <1>6, Zenon DEF Swaps, Cancelling, IsTerminal, TasksInv, Types, States
  <2>3. target[c] \in Stored /\ a = "swap_working" => state'[target[c]] # "submitted"
    BY <1>1, <1>2, <1>5, <1>6, Zenon DEF Swaps
  <2>4. target[c] \in Stored /\ a = "canceled" => state'[target[c]] = "canceled"
    BY <1>2, <1>5, <1>6, Zenon
  <2> QED
    BY <1>1, <1>2, <1>5, <1>6, <2>1, <2>2, <2>3, <2>4, Zenon DEF Cancelling
<1>10. CancelInv'
  <2>1. \A k \in Cancels \ {c} : answer'[k] = answer[k]
    BY <1>6, Zenon DEF TasksInv, Types
  <2> QED
    BY <1>3, <1>4, <1>9, <2>1, CancelKeeps, Zenon DEF CancelInv
<1> QED
  BY <1>4, <1>7, <1>8, <1>10, Zenon DEF TasksInv

-----------------------------------------------------------------------------
(* The steps of the streams.                                                *)

\* What a read returns: nothing exactly when the cursor is at the end of the log.
LEMMA ReadEffect ==
  ASSUME TasksInv, NEW s \in Subs, phase[s] # "new", sub[s] \in Stored,
         Backlog(sub[s], cursor[s]) = <<>>
  PROVE  cursor[s] = NextSeq(sub[s])
<1>1. sub[s] \in Tasks
  BY Zenon DEF TasksInv, StoreInv, Minted
<1>2. PICK l, f, k : l = log[sub[s]] /\ f = first[sub[s]] /\ k = cursor[s]
  BY Zenon
<1>3. /\ l \in Seq(Frames) /\ f \in Nat /\ k \in Nat /\ Len(l) \in Nat
      /\ k <= f + Len(l) /\ (l = <<>> => f = 0)
  BY <1>1, <1>2 DEF TasksInv, Types, StoreInv, SubInv, NextSeq
<1>4. SubSeq(l, (IF k < f THEN 0 ELSE k - f) + 1, Len(l)) = <<>>
  BY <1>2, Zenon DEF Backlog
<1>5. CASE k < f
  <2>1. SubSeq(l, 1, Len(l)) = <<>>
    BY <1>3, <1>4, <1>5
  <2>2. Len(SubSeq(l, 1, Len(l))) = Len(l)
    BY <1>3
  <2> QED
    BY <1>3, <1>5, <2>1, <2>2
<1>6. CASE ~(k < f)
  <2>1. PICK b : b = SubSeq(l, k - f + 1, Len(l))
    BY Zenon
  <2>2. k - f + 1 <= Len(l) => Len(b) = Len(l) - (k - f)
    BY <1>3, <1>6, <2>1
  <2>3. ~(k - f + 1 <= Len(l))
    <3>1. b = <<>>
      BY <1>3, <1>4, <1>6, <2>1, Zenon
    <3> QED
      BY <1>3, <1>6, <2>2, <3>1
  <2>4. k = f + Len(l)
    BY <1>3, <1>6, <2>3
  <2> QED
    BY <1>2, <2>4, Zenon DEF NextSeq
<1> QED
  BY <1>5, <1>6, Zenon

\* What is known of a stream on task u with cursor c in phase p; asleep says that
\* nothing has notified it.
Reading(u, c, p, asleep) ==
  /\ p = "new" => c = 0
  /\ p # "new" => u \in Minted
  /\ p # "new" /\ u \in Stored => c <= NextSeq(u)
  /\ p \in {"parking", "waiting"} /\ asleep =>
       u \in Stored /\ ~IsTerminal(state[u]) /\ c = NextSeq(u)

\* A step that moves one stream keeps the invariant if it keeps what is known of it.
LEMMA StreamMoves ==
  ASSUME TasksInv, NEW s \in Subs, NEW u \in Tasks \union {None}, NEW c \in Nat, NEW p \in Phases,
         UNCHANGED <<order, state, log, first, target, fired, at, outcome, answer>>,
         sub' = [sub EXCEPT ![s] = u], cursor' = [cursor EXCEPT ![s] = c],
         phase' = [phase EXCEPT ![s] = p], waiters' \subseteq waiters \union {s},
         Reading(u, c, p, s \in waiters')
  PROVE  TasksInv'
<1>1. /\ Stored' = Stored /\ Minted' = Minted /\ MovesOn
      /\ StoreInv' /\ FinalFrameIsStoredState'
  BY QuietStore, Zenon
<1>2. DriveInv' /\ CancelInv'
  BY <1>1, DriverKeeps, CancelKeeps, Zenon DEF DriveInv, CancelInv
<1>3. Types'
  BY Zenon DEF TasksInv, Types
<1>4. SubInv'
  <2>1. /\ sub'[s] = u /\ cursor'[s] = c /\ phase'[s] = p
        /\ \A k \in Subs \ {s} : /\ sub'[k] = sub[k] /\ cursor'[k] = cursor[k]
                                 /\ phase'[k] = phase[k] /\ (k \in waiters' => k \in waiters)
    BY Zenon DEF TasksInv, Types
  <2>2. \A t : NextSeq(t)' = NextSeq(t)
    BY Zenon DEF NextSeq
  <2> SUFFICES ASSUME NEW k \in Subs
               PROVE  Reading(sub[k], cursor[k], phase[k], k \in waiters)'
    BY Zenon DEF SubInv, Reading
  <2>3. CASE k = s
    BY <1>1, <2>1, <2>2, <2>3 DEF Reading
  <2>4. CASE k # s
    <3>1. Reading(sub[k], cursor[k], phase[k], k \in waiters)
      BY Zenon DEF TasksInv, SubInv, Reading
    <3> QED
      BY <1>1, <2>1, <2>2, <2>4, <3>1 DEF Reading
  <2> QED
    BY <2>3, <2>4, Zenon
<1> QED
  BY <1>1, <1>2, <1>3, <1>4, Zenon DEF TasksInv

\* Every step of a stream: it subscribes, delivers, registers, reads, sleeps, wakes.
LEMMA StreamStep ==
  ASSUME TasksInv, NEW s \in Subs, (\E t \in Tasks : Subscribe(s, t)) \/ SubStep(s)
  PROVE  TasksInv'
<1>1. UNCHANGED <<order, state, log, first, target, fired, at, outcome, answer>>
  BY Zenon DEF Subscribe, SubStep, Deliver, Register, Read, Park, Wake, storeVars, cancelVars, driveVars
<1>2. Stored \subseteq Minted /\ Minted \subseteq Tasks /\ \A t \in Tasks : NextSeq(t) \in Nat
  BY DEF TasksInv, StoreInv, Minted, NextSeq, Types
<1>3. /\ sub[s] \in Tasks \union {None} /\ cursor[s] \in Nat /\ phase[s] \in Phases
      /\ sub = [sub EXCEPT ![s] = sub[s]] /\ cursor = [cursor EXCEPT ![s] = cursor[s]]
      /\ phase = [phase EXCEPT ![s] = phase[s]]
  BY Zenon DEF TasksInv, Types
<1>4. Reading(sub[s], cursor[s], phase[s], s \in waiters)
  BY Zenon DEF TasksInv, SubInv, Reading
<1>5. CASE \E t \in Tasks : Subscribe(s, t)
  <2>1. PICK t \in Tasks : Subscribe(s, t)
    BY <1>5, Zenon
  <2>2. /\ sub' = [sub EXCEPT ![s] = t] /\ phase' = [phase EXCEPT ![s] = "idle"]
        /\ cursor' = [cursor EXCEPT ![s] = cursor[s]] /\ waiters' = waiters
        /\ t \in Stored /\ phase[s] = "new"
    BY <1>3, <2>1, Zenon DEF Subscribe
  <2>3. Reading(t, cursor[s], "idle", s \in waiters')
    BY <1>2, <1>4, <2>2 DEF Reading
  <2>4. "idle" \in Phases
    BY Zenon DEF Phases
  <2> QED
    BY <1>1, <1>3, <2>2, <2>3, <2>4, StreamMoves, Zenon
<1>6. CASE Deliver(s)
  <2>1. /\ sub' = [sub EXCEPT ![s] = sub[s]] /\ cursor' = [cursor EXCEPT ![s] = cursor[s]]
        /\ phase' = [phase EXCEPT ![s] = phase[s]] /\ waiters' = waiters
    BY <1>3, <1>6, Zenon DEF Deliver
  <2> QED
    BY <1>1, <1>3, <1>4, <2>1, StreamMoves, Zenon
<1>7. CASE Register(s) \/ Park(s) \/ Wake(s)
  <2>1. PICK p \in {"registered", "waiting", "idle"} :
          /\ sub' = [sub EXCEPT ![s] = sub[s]] /\ cursor' = [cursor EXCEPT ![s] = cursor[s]]
          /\ phase' = [phase EXCEPT ![s] = p] /\ waiters' \subseteq waiters \union {s}
          /\ p = "waiting" => phase[s] = "parking" /\ waiters' = waiters
          /\ phase[s] # "new"
    BY <1>3, <1>7, Zenon DEF Register, Park, Wake
  <2>2. Reading(sub[s], cursor[s], p, s \in waiters')
    BY <1>4, <2>1, Zenon DEF Reading
  <2>3. p \in Phases
    BY Zenon DEF Phases
  <2> QED
    BY <1>1, <1>3, <2>1, <2>2, <2>3, StreamMoves, Zenon
<1>8. CASE Read(s)
  <2>1. /\ phase[s] = "registered" /\ sub' = [sub EXCEPT ![s] = sub[s]]
        /\ waiters' \subseteq waiters \union {s}
    BY <1>3, <1>8, Zenon DEF Read
  <2>2. CASE sub[s] \in Stored /\ Backlog(sub[s], cursor[s]) # <<>>
    <3>1. phase' = [phase EXCEPT ![s] = "idle"]
          /\ cursor' = [cursor EXCEPT ![s] = NextSeq(sub[s])]
      BY <1>8, <2>2, Zenon DEF Read
    <3>2. Reading(sub[s], NextSeq(sub[s]), "idle", s \in waiters') /\ NextSeq(sub[s]) \in Nat
      BY <1>2, <1>4, <2>1, <2>2 DEF Reading
    <3>3. "idle" \in Phases
      BY Zenon DEF Phases
    <3> QED
      BY <1>1, <1>3, <2>1, <3>1, <3>2, <3>3, StreamMoves, Zenon
  <2>3. CASE ~(sub[s] \in Stored /\ Backlog(sub[s], cursor[s]) # <<>>)
    <3>1. PICK p \in {"evicted", "ended", "parking"} :
            /\ phase' = [phase EXCEPT ![s] = p] /\ cursor' = [cursor EXCEPT ![s] = cursor[s]]
            /\ p = "parking" => /\ sub[s] \in Stored /\ ~IsTerminal(state[sub[s]])
                               /\ Backlog(sub[s], cursor[s]) = <<>>
      <4>1. CASE sub[s] \notin Stored
        BY <1>3, <1>8, <4>1, Zenon DEF Read
      <4>2. CASE sub[s] \in Stored /\ IsTerminal(state[sub[s]])
        BY <1>3, <1>8, <2>3, <4>2, Zenon DEF Read
      <4>3. CASE sub[s] \in Stored /\ ~IsTerminal(state[sub[s]])
        BY <1>3, <1>8, <2>3, <4>3, Zenon DEF Read
      <4> QED
        BY <4>1, <4>2, <4>3, Zenon
    <3>2. p = "parking" => cursor[s] = NextSeq(sub[s])
      BY <2>1, <3>1, ReadEffect, Zenon
    <3>3. Reading(sub[s], cursor[s], p, s \in waiters')
      BY <1>4, <2>1, <3>1, <3>2, Zenon DEF Reading
    <3>4. p \in Phases
      BY Zenon DEF Phases
    <3> QED
      BY <1>1, <1>3, <2>1, <3>1, <3>3, <3>4, StreamMoves, Zenon
  <2> QED
    BY <2>2, <2>3, Zenon
<1> QED
  BY <1>5, <1>6, <1>7, <1>8, Zenon DEF SubStep

-----------------------------------------------------------------------------
(* The theorems.                                                            *)

\* Every step keeps the inductive invariant.
LEMMA TasksStep ==
  TasksInv /\ [TaskNext]_a2aVars => TasksInv'
<1> SUFFICES ASSUME TasksInv, [TaskNext]_a2aVars PROVE TasksInv'
  BY Zenon
<1>1. ASSUME NEW m \in Messages, NEW t \in Tasks, ResolveNew(m, t) \/ ResolveExisting(m, t)
      PROVE  TasksInv'
  BY <1>1, ResolveStep, Zenon
<1>2. ASSUME NEW m \in Messages, StartFails(m) \/ StartRun(m) \/ DriveStep(m) \/ DrivePanics(m)
      PROVE  TasksInv'
  BY <1>2, QuietDriverStep, DriverSwapStep, DriverAppendStep, Zenon DEF DriveStep
<1>3. ASSUME NEW c \in Cancels,
             (\E t \in Tasks : CancelLooks(c, t)) \/ CancelFires(c) \/ CancelWalks(c)
      PROVE  TasksInv'
  BY <1>3, CancelQuietStep, CancelSwapStep, Zenon
<1>4. ASSUME NEW s \in Subs, (\E t \in Tasks : Subscribe(s, t)) \/ SubStep(s)
      PROVE  TasksInv'
  BY <1>4, StreamStep, Zenon
<1>5. CASE UNCHANGED a2aVars
  <2>1. UNCHANGED <<order, state, log, first, target, fired, at, outcome, answer,
                    sub, cursor, phase, waiters>>
    BY <1>5, Zenon DEF a2aVars, storeVars, cancelVars, driveVars, subVars
  <2>2. StoreInv' /\ FinalFrameIsStoredState' /\ MovesOn /\ SubInv'
    BY <2>1, QuietStore, QuietStreams, Zenon
  <2>3. DriveInv' /\ CancelInv'
    BY <2>1, <2>2, DriverKeeps, CancelKeeps, Zenon DEF DriveInv, CancelInv
  <2> QED
    BY <2>1, <2>2, <2>3, Zenon DEF TasksInv, Types
<1> QED
  BY <1>1, <1>2, <1>3, <1>4, <1>5, Zenon DEF TaskNext

\* The invariant holds of every behaviour.
LEMMA TasksInvariant ==
  TaskSpec => []TasksInv
BY TasksInitially, TasksStep, PTL DEF TaskSpec

\* tasks/cancel never says `canceled` of a task that is stored in another state,
\* nor "reached a terminal state" of one that did not.
THEOREM TasksCancelIsTruthful ==
  TaskSpec => []CancelIsTruthful
<1>1. TasksInv => CancelIsTruthful
  BY Zenon DEF TasksInv, CancelInv, Cancelling, CancelIsTruthful
<1> QED
  BY <1>1, TasksInvariant, PTL

\* A final frame always carries the stored, terminal state, whichever drivers and
\* cancel requests raced for it.
THEOREM TasksFinalFrame ==
  TaskSpec => []FinalFrameIsStoredState
<1>1. TasksInv => FinalFrameIsStoredState
  BY Zenon DEF TasksInv
<1> QED
  BY <1>1, TasksInvariant, PTL

\* A subscription never sleeps on something it has not seen.
THEOREM TasksSleepers ==
  TaskSpec => []SleepersMissNothing
<1>1. TasksInv => SleepersMissNothing
  BY Zenon DEF TasksInv, SubInv, SleepersMissNothing
<1> QED
  BY <1>1, TasksInvariant, PTL

\* A stream ends by itself only at the end of the log of a terminal task.
THEOREM TasksStreamsDrain ==
  TaskSpec => StreamsDrain
<1> DEFINE Drains == \A s \in Subs : phase'[s] = "ended" /\ phase[s] # "ended" =>
                       /\ IsTerminal(state[sub[s]]) /\ cursor[s] = NextSeq(sub[s])
<1>1. TasksInv /\ TaskNext => Drains
  <2> SUFFICES ASSUME TasksInv, TaskNext, NEW s \in Subs, phase'[s] = "ended", phase[s] # "ended"
               PROVE  IsTerminal(state[sub[s]]) /\ cursor[s] = NextSeq(sub[s])
    BY Zenon
  <2>1. phase \in [Subs -> Phases]
    BY Zenon DEF TasksInv, Types
  <2>2. PICK k \in Subs : (\E t \in Tasks : Subscribe(k, t)) \/ SubStep(k)
    BY Zenon DEF TaskNext, ResolveNew, ResolveExisting, StartFails, StartRun, DriveStep, DriveWorking,
           DriveAnnounces, DriveArtifact, DriveStreamEnds, DriveStores, DriveSwaps, DriveReads,
           DriveFinal, DriveRemoves, DrivePanics, CancelLooks, CancelFires, CancelWalks,
           CancelSwaps, subVars
  <2>3. Read(s)
    BY <2>1, <2>2, Zenon DEF SubStep, Subscribe, Deliver, Register, Park, Wake, Read
  <2>4. /\ sub[s] \in Stored /\ IsTerminal(state[sub[s]]) /\ phase[s] # "new"
        /\ Backlog(sub[s], cursor[s]) = <<>>
    BY <2>1, <2>3, Zenon DEF Read
  <2> QED
    BY <2>4, ReadEffect, Zenon
<1>2. TasksInv /\ [TaskNext]_a2aVars => [Drains]_a2aVars
  BY <1>1, Zenon
<1> QED
  BY <1>2, TasksInvariant, PTL DEF TaskSpec, StreamsDrain
=============================================================================
