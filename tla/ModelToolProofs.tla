-------------------------- MODULE ModelToolProofs ---------------------------
(***************************************************************************)
(* What an agent calls.  Models: RetryingModel and the end of a model      *)
(* stream, for any number of attempts, wire events, call ids and names.    *)
(* Tools, for every timeout, cap and limit and any number of concurrent    *)
(* runs and calls: the shell command (Exec), the microVM backend           *)
(* (Sandboxes), outbound web access (WebAccess), and the way of a call     *)
(* from the model through the rules of its run and back (ToolPipeline).    *)
(***************************************************************************)
EXTENDS ModelStream, Exec, Sandboxes, WebAccess, ToolPipeline, Integers, TLAPS

\* A counter that counts on, and a deadline in the future.
LEMMA Later ==
  \A m, n \in Nat : m + 1 \in Nat /\ m + n \in Nat /\ m <= m + n /\ m + n <= m + n
  OBVIOUS

-----------------------------------------------------------------------------
(* What redaction does to an output.                                         *)

\* The key scan (redact_line): a line without a secret name at its first `=` or `:` is
\* kept, and one with such a name ends there, with its value hidden if it has one.
LEMMA LineRedacted ==
  ASSUME NEW l \in Seq(Field)
  PROVE  LET k == RedactLine(l)
         IN /\ \A i \in DOMAIN k :
                 i \in DOMAIN l /\ k[i] \in Field /\ k[i].sep = l[i].sep /\ k[i].key = l[i].key
            /\ \/ k = l /\ SecretAt(l, "=") = {} /\ SecretAt(l, ":") = {}
               \/ \E at \in SecretAt(l, "=") \union SecretAt(l, ":") :
                    at \in Nat /\ DOMAIN k = 1 .. at /\ k[at].value \in {REDACTED, Empty}
<1> DEFINE k == RedactLine(l)
           hits == IF SecretAt(l, "=") # {} THEN SecretAt(l, "=") ELSE SecretAt(l, ":")
<1>0. DOMAIN l = 1 .. Len(l) /\ Len(l) \in Nat /\ \A i \in DOMAIN l : l[i] \in Field
  OBVIOUS
<1>1. CASE hits = {}
  BY <1>0, <1>1, Zenon DEF RedactLine
<1>2. CASE hits # {}
  <2>0. PICK at : at = (CHOOSE i \in hits : TRUE)
    BY Zenon
  <2>1. at \in SecretAt(l, "=") \union SecretAt(l, ":")
    BY <1>2, <2>0, Zenon
  <2>2. at \in 1 .. Len(l)
    BY <1>0, <2>1, Zenon DEF SecretAt
  <2>3. at \in Nat /\ at \in 1 .. at /\ ~ (at < at) /\ \A i \in 1 .. at : i \in DOMAIN l
    BY <1>0, <2>2
  <2>4. CASE at = Len(l) /\ l[at].value = Empty
    <3>1. k = l
      BY <2>4, <2>0, Zenon DEF RedactLine
    <3> QED
      BY <1>0, <2>1, <2>3, <2>4, <3>1, Zenon
  <2>5. CASE ~ (at = Len(l) /\ l[at].value = Empty)
    <3>1. k = [i \in 1 .. at |-> IF i < at THEN l[i] ELSE [l[i] EXCEPT !.value = REDACTED]]
      BY <1>2, <2>0, <2>5, Zenon DEF RedactLine
    <3>2. \A f \in Field : LET g == [f EXCEPT !.value = REDACTED]
                           IN g \in Field /\ g.value = REDACTED /\ g.sep = f.sep /\ g.key = f.key
      BY LengthsAssumption DEF Field
    <3> HIDE DEF k
    <3>3. DOMAIN k = 1 .. at /\ k[at].value = REDACTED
      BY <3>1, <2>3, <3>2, <1>0, Zenon
    <3>4. \A i \in DOMAIN k :
            i \in DOMAIN l /\ k[i] \in Field /\ k[i].sep = l[i].sep /\ k[i].key = l[i].key
      BY <3>1, <2>3, <3>2, <1>0, Zenon
    <3> QED
      BY <2>1, <2>3, <3>3, <3>4, Zenon DEF k
  <2> QED
    BY <2>4, <2>5, Zenon
<1> QED
  BY <1>1, <1>2, Zenon

\* Both scans (redact_str) together leave no value that is looked for, and none in a
\* line with one assignment under a secret name.
LEMMA StringRedacted ==
  ASSUME NEW l \in Seq(Field), NEW secrets, REDACTED \notin secrets
  PROVE  LET r == RedactStr(l, secrets)
         IN (\A i \in DOMAIN r : r[i].value \notin secrets) /\ AssignmentHidden(r)
<1> DEFINE k == RedactLine(l)
           r == RedactStr(l, secrets)
<1>1. \A i \in DOMAIN k :
        i \in DOMAIN l /\ k[i] \in Field /\ k[i].sep = l[i].sep /\ k[i].key = l[i].key
  BY LineRedacted, Zenon
<1>2. \A f \in Field : LET g == [f EXCEPT !.value = REDACTED]
                       IN g.value = REDACTED /\ g.sep = f.sep /\ g.key = f.key
  BY DEF Field
<1>3. r = [i \in DOMAIN k |-> IF k[i].value \in secrets
                                THEN [k[i] EXCEPT !.value = REDACTED] ELSE k[i]]
  BY Zenon DEF RedactStr
<1>4. DOMAIN l = 1 .. Len(l) /\ Len(l) \in Nat /\ \A i \in DOMAIN l : l[i] \in Field
  OBVIOUS
<1>5. \/ k = l /\ SecretAt(l, "=") = {} /\ SecretAt(l, ":") = {}
      \/ \E at \in SecretAt(l, "=") \union SecretAt(l, ":") :
           at \in Nat /\ DOMAIN k = 1 .. at /\ k[at].value \in {REDACTED, Empty}
  BY LineRedacted, Zenon
<1> HIDE DEF k, r
<1>6. DOMAIN r = DOMAIN k
  BY <1>3, Zenon
<1>7. \A i \in DOMAIN r :
        /\ r[i].value \notin secrets /\ r[i].value \in {k[i].value, REDACTED}
        /\ r[i].sep = l[i].sep /\ r[i].key = l[i].key /\ i \in DOMAIN l
  BY <1>1, <1>2, <1>3, Zenon
<1>8. ASSUME NEW i \in DOMAIN r, r[i].sep # "none", r[i].key = "secret",
             \A j \in DOMAIN r : j # i => r[j].sep = "none"
      PROVE  (\A j \in DOMAIN r : j <= i) /\ r[i].value \in {REDACTED, Empty}
  <2>1. CASE k = l /\ SecretAt(l, "=") = {} /\ SecretAt(l, ":") = {}
    <3>1. l[i].sep \in {"=", ":"} /\ l[i].key = "secret" /\ i \in DOMAIN l
      BY <1>4, <1>7, <1>8 DEF Field
    <3>2. \A j \in 1 .. i - 1 : j \in DOMAIN l /\ j # i
      BY <1>4, <3>1
    <3>3. \A j \in 1 .. i - 1 : l[j].sep = "none"
      BY <1>6, <1>7, <1>8, <2>1, <3>2, Zenon
    <3>4. i \in SecretAt(l, "=") \/ i \in SecretAt(l, ":")
      BY <3>1, <3>3 DEF SecretAt
    <3> QED
      BY <2>1, <3>4, Zenon
  <2>2. CASE \E at \in SecretAt(l, "=") \union SecretAt(l, ":") :
               at \in Nat /\ DOMAIN k = 1 .. at /\ k[at].value \in {REDACTED, Empty}
    <3>1. PICK at \in SecretAt(l, "=") \union SecretAt(l, ":") :
                 at \in Nat /\ DOMAIN k = 1 .. at /\ k[at].value \in {REDACTED, Empty}
      BY <2>2, Zenon
    <3>2. at \in DOMAIN l /\ l[at].sep \in {"=", ":"}
      BY <3>1, Zenon DEF SecretAt
    <3>3. at \in DOMAIN r /\ \A j \in DOMAIN r : j <= at
      BY <1>4, <1>6, <3>1, <3>2
    <3>4. i = at
      BY <1>7, <1>8, <3>2, <3>3, Zenon
    <3> QED
      BY <1>7, <3>1, <3>3, <3>4, Zenon
  <2> QED
    BY <1>5, <2>1, <2>2, Zenon
<1> QED
  BY <1>7, <1>8, Zenon DEF AssignmentHidden, r

\* Redaction of an output: what the scans promise holds of each of its lines, with the
\* values the redactor looks for (SecretSet::from_env_and_extra) as the secrets.
LEMMA OutputIsRedacted ==
  ASSUME NEW o, IsOutput(o), NEW extra, NEW line \in Redact(o, SecretSet(extra)).text
  PROVE  (\A i \in DOMAIN line : line[i].value \notin SecretSet(extra)) /\ AssignmentHidden(line)
<1>1. REDACTED \notin SecretSet(extra)
  BY LengthsAssumption DEF SecretSet, MIN_SECRET_LEN
<1> DEFINE secrets == SecretSet(extra)
<1> HIDE DEF secrets
<1>2. o = [text |-> o.text, bare |-> o.bare] /\ o.text \subseteq Seq(Field)
  BY Zenon DEF IsOutput
<1>3. Redact(o, secrets).text = {RedactStr(l, secrets) : l \in o.text}
  BY <1>2, Zenon DEF Redact
<1>4. PICK l \in o.text : line = RedactStr(l, secrets)
  BY <1>3, Zenon DEF secrets
<1>5. l \in Seq(Field)
  BY <1>2, Zenon
<1> QED
  BY <1>1, <1>4, <1>5, StringRedacted, Zenon DEF secrets

\* A replacement that a chain of hooks comes to is one that a hook of the chain made
\* (Interceptors::fire).
LEMMA HooksReplace ==
  ASSUME NEW R, NEW v \in Fired(R), v.kind = "replace" PROVE v.value \in R
<1>1. PICK n \in 0 .. 2 : \E ds \in [1 .. n -> {Verdict(k) : k \in {"allow", "deny", "inject"}}
                                            \union {Replace(x) : x \in R}] : v = Fire(ds)
  BY Zenon DEF Fired, HookChains
<1>2. PICK ds \in [1 .. n -> {Verdict(k) : k \in {"allow", "deny", "inject"}}
                              \union {Replace(x) : x \in R}] : v = Fire(ds)
  BY <1>1, Zenon
<1> DEFINE swaps == {i \in DOMAIN ds : ds[i].kind = "replace"}
<1>3. Verdict("deny").kind = "deny" /\ Verdict("allow").kind = "allow"
  BY Zenon DEF Verdict
<1>4. swaps # {} /\ v = ds[CHOOSE i \in swaps : \A j \in swaps : j <= i]
  BY <1>2, <1>3, Zenon DEF Fire
<1>5. \E i \in swaps : \A j \in swaps : j <= i
  <2>1. swaps \subseteq 1 .. 2
    BY <1>2
  <2>2. CASE 2 \in swaps
    BY <2>1, <2>2
  <2>3. CASE 2 \notin swaps
    BY <1>4, <2>1, <2>3
  <2> QED
    BY <2>2, <2>3, Zenon
<1>6. PICK i \in swaps : v = ds[i]
  BY <1>4, <1>5, Zenon
<1>7. ds[i] \in {Verdict(k) : k \in {"allow", "deny", "inject"}} \union {Replace(x) : x \in R}
  BY <1>2, <1>6, Zenon
<1>8. \A k \in {"allow", "deny", "inject"} : Verdict(k).kind # "replace"
  BY DEF Verdict
<1>9. PICK x \in R : v = Replace(x)
  BY <1>6, <1>7, <1>8, Zenon
<1> QED
  BY <1>9, Zenon DEF Replace

-----------------------------------------------------------------------------
(* Retries.                                                                  *)

AccFields == {"calls", "finish_reason", "finishes", "late", "from"}

\* Nothing was handed on while another attempt can follow, and all the agent has
\* comes from the attempt being made.
RetryInv ==
  /\ attempt \in Nat /\ attempt < MaxAttempts /\ started \in BOOLEAN
  /\ phase \in {"invoke", "open", "backoff", "ended"}
  /\ phase = "backoff" => attempt < MaxAttempts - 1
  /\ phase \in {"invoke", "backoff"} => ~started
  /\ ~started => acc = AccNew
  /\ acc = [f \in AccFields |-> acc[f]] /\ acc.from \subseteq {attempt}

\* Observing an event marks the attempt it came from.
LEMMA ObserveMarks ==
  ASSUME NEW a, NEW ev, NEW n, a = [f \in AccFields |-> a[f]]
  PROVE  /\ Observe(a, ev, n) = [f \in AccFields |-> Observe(a, ev, n)[f]]
         /\ Observe(a, ev, n).from = a.from \union {n}
         /\ Observe(a, ev, n).late = (a.finishes > 0)
         /\ Observe(a, ev, n).finishes =
              IF ev.kind = "finish" THEN a.finishes + 1 ELSE a.finishes
<1> DEFINE b == [a EXCEPT !.from = @ \union {n}, !.late = a.finishes > 0]
<1>1. /\ b = [f \in AccFields |-> b[f]] /\ b.from = a.from \union {n}
      /\ b.late = (a.finishes > 0) /\ b.finishes = a.finishes
  BY Zenon DEF AccFields
<1>2. Observe(a, ev, n) =
        CASE ev.kind = "call" -> [b EXCEPT !.calls = ObserveCall(@, ev)]
          [] ev.kind = "finish" -> [b EXCEPT !.finish_reason = ev.reason, !.finishes = @ + 1]
          [] OTHER -> b
  BY Zenon DEF Observe
<1> HIDE DEF b
<1>3. CASE ev.kind = "call"
  <2>1. Observe(a, ev, n) = [b EXCEPT !.calls = ObserveCall(@, ev)]
    BY <1>2, <1>3, Zenon
  <2> QED
    BY <1>1, <1>3, <2>1, Zenon DEF AccFields
<1>4. CASE ev.kind = "finish"
  <2>1. Observe(a, ev, n) = [b EXCEPT !.finish_reason = ev.reason, !.finishes = @ + 1]
    BY <1>2, <1>4, Zenon
  <2> QED
    BY <1>1, <1>4, <2>1, Zenon DEF AccFields
<1>5. CASE ev.kind # "call" /\ ev.kind # "finish"
  BY <1>1, <1>2, <1>5, Zenon
<1> QED
  BY <1>3, <1>4, <1>5, Zenon

\* The invariant holds before the first attempt.
LEMMA RetryStarts == Init => RetryInv
<1> SUFFICES ASSUME Init PROVE RetryInv
  BY Zenon
<1>1. acc = AccNew /\ acc.from = {} /\ attempt = 0 /\ phase = "invoke" /\ started = FALSE
  BY Zenon DEF Init, AccNew
<1>2. AccNew = [f \in AccFields |-> AccNew[f]]
  BY Zenon DEF AccNew, AccFields
<1> QED
  <2>1. 0 \in Nat /\ 0 < MaxAttempts
    BY MaxAttemptsIsClamped
  <2>2. acc = [f \in AccFields |-> acc[f]]
    BY <1>1, <1>2, Zenon
  <2> QED
    BY <1>1, <2>1, <2>2, Zenon DEF RetryInv

\* Everything a wire event, a connection or a cancellation does is beneath the
\* retrying model.
LEMMA BeneathRetry ==
  ASSUME Cancel \/ Connect \/ Wire \/ Ended PROVE UNCHANGED <<retry, acc, provider>>
<1>1. CASE Cancel \/ Connect \/ Ended
  BY <1>1, Zenon DEF Cancel, Connect, Ended, Unfed, vars, retry
<1>2. CASE Wire
  BY <1>2, Zenon DEF Wire, OpenAiCallChunk, LiteLlmCallChunk, ChatOtherChunk, ResponsesItem,
              ResponsesResumes, ResponsesEnds, BlockOpens, BlockInput, BlockText, AnthropicFrame,
              BedrockFrame, GeminiChunk, BodyEnds, BodyFails, Unfed
<1> QED
  BY <1>1, <1>2, Zenon

\* A step makes a new attempt only out of a backoff that was not cancelled.
LEMMA RetryStep ==
  ASSUME RetryInv, [Next]_vars
  PROVE  RetryInv' /\ (started \/ cancelled => attempt' = attempt)
<1> USE MaxAttemptsIsClamped
<1>1. CASE UNCHANGED vars \/ Cancel \/ Connect \/ Wire \/ Ended
  <2>1. UNCHANGED <<attempt, phase, started, acc>>
    BY <1>1, BeneathRetry, Zenon DEF vars, retry
  <2> QED
    BY <2>1, Zenon DEF RetryInv
<1>2. CASE Invoke
  BY <1>2, Zenon DEF Invoke, RetryInv
<1>3. ASSUME NEW e \in {"transport", "other"}, InvokeFails(e)
      PROVE RetryInv' /\ attempt' = attempt
  BY <1>3, Zenon DEF InvokeFails, FailedAttempt, CanRetry, RetryInv
<1>4. CASE Backoff
  <2>1. ~started /\ acc = AccNew /\ attempt + 1 < MaxAttempts /\ UNCHANGED <<started, acc>>
    BY <1>4 DEF Backoff, RetryInv
  <2> QED
    BY <1>4, <2>1 DEF Backoff, RetryInv, AccNew, AccFields
<1>5. CASE HandOn
  <2>1. CASE UNCHANGED <<attempt, started, acc>>
    BY <1>5, <2>1, Zenon DEF HandOn, FailedAttempt, CanRetry, RetryInv
  <2>2. CASE ~UNCHANGED <<attempt, started, acc>>
    <3>1. /\ acc' = Observe(acc, Head(queue), attempt) /\ started' = TRUE
          /\ UNCHANGED <<attempt, phase>> /\ phase = "open"
      BY <1>5, <2>2, Zenon DEF HandOn, FailedAttempt
    <3> QED
      BY <3>1, ObserveMarks DEF RetryInv
  <2> QED
    BY <2>1, <2>2, Zenon
<1>6. CASE End
  BY <1>6, Zenon DEF End, RetryInv
<1> QED
  BY <1>1, <1>2, <1>3, <1>4, <1>5, <1>6, Zenon DEF Next

\* A retry is invisible for every number of attempts and whatever the wire sends:
\* none is made after an item was handed on or the token fired, there are never more
\* than max_attempts, and the agent only ever has events of one attempt (retry.rs).
THEOREM RetriesAreInvisible == Spec => RetryInvisible
<1>1. Spec => []RetryInv
  BY RetryStarts, RetryStep, PTL DEF Spec
<1>2. ASSUME RetryInv, RetryInv', [Next]_vars
      PROVE  [/\ started \/ cancelled => attempt' = attempt
              /\ attempt' < MaxAttempts
              /\ acc'.from \subseteq {attempt'}]_vars
  BY <1>2, RetryStep, Zenon DEF RetryInv
<1> QED
  BY <1>1, <1>2, PTL DEF Spec, RetryInvisible

-----------------------------------------------------------------------------
(* The end of an Anthropic or Bedrock stream.                                *)

TrFields == {"blocks", "named", "synthesizing", "synthesized", "real_tool", "stop_reason",
             "terminal", "metadata"}

WireFields == {"sent", "frags", "closed", "untidy", "item", "added", "done", "broken", "reason",
               "stopped", "failed", "metadata", "resumed"}

IsEnd(ev) == ev.kind \in {"finish", "error"}

\* What the provider is yielding: at most two items, of which only the last ends the
\* stream, and then the first is the usage.
QueueShape ==
  \/ queue = <<>>
  \/ queue = <<queue[1]>>
  \/ queue = <<Usage, queue[2]>> /\ IsEnd(queue[2])

EndQueued(kinds) == queue # <<>> /\ queue[Len(queue)].kind \in kinds

\* The terminal item left the translator, or a stop reason waits in it.
Gone == IF provider.name = "anthropic" THEN tr.terminal ELSE wire.stopped /\ wire.metadata

Held == tr.stop_reason # None

\* Between the connection and the end of the body.
BodyRight ==
  /\ tr = [f \in TrFields |-> tr[f]] /\ wire = [f \in WireFields |-> wire[f]]
  /\ {tr.terminal, tr.metadata, wire.reason, wire.stopped, wire.failed, wire.metadata}
       \subseteq BOOLEAN
  /\ ~wire.failed
  /\ Gone => /\ wire.stopped /\ wire.reason
             /\ acc.finishes = 1 \/ EndQueued({"finish", "error"})
  /\ ~Gone => acc.finishes = 0 /\ ~EndQueued({"finish"})
  /\ Held => wire.reason
  /\ wire.reason => Held \/ Gone
  /\ provider.name = "bedrock" =>
       /\ tr.metadata <=> wire.metadata
       /\ Held <=> wire.stopped /\ ~wire.metadata

OpenRight ==
  /\ source \in {"connecting", "body", "over"} /\ QueueShape
  /\ acc.finishes = 1 => queue = <<>> \/ queue[1].kind = "error"
  /\ acc.finishes = 1 \/ EndQueued({"finish"}) => wire.reason
  /\ source # "over" => BodyRight
  /\ source = "over" =>
       /\ wire.reason => acc.finishes = 1 \/ EndQueued({"finish", "error"})
       /\ wire.failed => EndQueued({"error"})

FinishInv ==
  /\ acc.finishes \in {0, 1} /\ acc.late = FALSE
  /\ phase # "ended" => outcome = "none"
  /\ phase = "open" => OpenRight
  /\ phase = "ended" =>
       /\ acc.finishes = 1 => wire.reason
       /\ outcome = "clean" => ~wire.failed /\ (wire.reason => acc.finishes = 1)

BlocksInv == RetryInv /\ (provider.name \in Blocks => FinishInv)

\* The stream is being polled between the connection and the end of the body.
Feeds ==
  /\ provider.name \in Blocks /\ FinishInv /\ Polled /\ source \in {"connecting", "body"}
  /\ UNCHANGED <<provider, retry, acc>>

\* What holds of an open body the stream polls.
LEMMA PolledBody ==
  ASSUME Feeds
  PROVE  /\ phase = "open" /\ queue = <<>> /\ BodyRight /\ OpenRight
         /\ phase' = "open" /\ outcome' = "none" /\ acc' = acc /\ provider' = provider
         /\ acc.finishes \in {0, 1} /\ acc.late = FALSE
         /\ (acc.finishes = 1 <=> Gone)
<1>1. phase = "open" /\ queue = <<>> /\ source # "over"
  BY Zenon DEF Feeds, Polled
<1>2. OpenRight /\ BodyRight
  BY <1>1, Zenon DEF Feeds, FinishInv, OpenRight
<1>3. ~EndQueued({"finish", "error"})
  BY <1>1, Zenon DEF EndQueued
<1>4. Gone \in BOOLEAN
  BY <1>2, Zenon DEF BodyRight, Gone
<1> QED
  BY <1>1, <1>2, <1>3, <1>4 DEF Feeds, FinishInv, BodyRight, retry

\* The translator kept the end of the stream to itself.
LEMMA FedSilently ==
  /\ Feeds /\ source' = "body"
  /\ queue' = <<>> \/ (queue' = <<queue'[1]>> /\ queue'[1].kind \notin {"finish", "error"} /\ ~Gone)
  /\ (tr = [f \in TrFields |-> tr[f]])' /\ (wire = [f \in WireFields |-> wire[f]])'
  /\ UNCHANGED <<tr.terminal, tr.metadata, tr.stop_reason, wire.reason, wire.stopped, wire.failed,
                 wire.metadata>>
  => FinishInv'
<1> SUFFICES
      ASSUME Feeds, source' = "body",
             queue' = <<>> \/ (/\ queue' = <<queue'[1]>>
                               /\ queue'[1].kind \notin {"finish", "error"} /\ ~Gone),
             tr' = [f \in TrFields |-> tr'[f]], wire' = [f \in WireFields |-> wire'[f]],
             UNCHANGED <<tr.terminal, tr.metadata, tr.stop_reason, wire.reason, wire.stopped,
                         wire.failed, wire.metadata>>
      PROVE  FinishInv'
  BY Zenon
<1>1. /\ phase = "open" /\ queue = <<>> /\ BodyRight /\ OpenRight
      /\ phase' = "open" /\ outcome' = "none" /\ acc' = acc /\ provider' = provider
      /\ acc.finishes \in {0, 1} /\ acc.late = FALSE /\ (acc.finishes = 1 <=> Gone)
  BY PolledBody, Zenon
<1>2. QueueShape' /\ ~EndQueued({"finish"})' /\ (queue' # <<>> => acc.finishes = 0)
  BY <1>1, Zenon DEF QueueShape, EndQueued
<1>3. Gone' = Gone /\ Held' = Held
  BY <1>1, Zenon DEF Gone, Held
<1>4. BodyRight'
  BY <1>1, <1>2, <1>3, Zenon DEF BodyRight
<1>5. OpenRight'
  BY <1>1, <1>2, <1>4, Zenon DEF OpenRight
<1> QED
  BY <1>1, <1>5, Zenon DEF FinishInv

\* How a stream comes to its end: with an error, with nothing left to say, or with
\* the finish event the translator still held.
EndsFailing == queue' = <<queue'[1]>> /\ queue'[1].kind = "error" /\ wire'.reason = wire.reason

EndsEmpty == queue' = <<>> /\ UNCHANGED wire /\ (wire.reason => Gone)

EndsFinishing ==
  /\ queue' = <<queue'[1]>> /\ queue'[1].kind = "finish" /\ UNCHANGED wire
  /\ wire.reason /\ ~Gone

\* The last frame of a body: an error, silence after the end, or the finish itself.
LEMMA FedLast ==
  /\ Feeds /\ source' = "over"
  /\ EndsFailing \/ EndsEmpty \/ EndsFinishing
  => FinishInv'
<1> SUFFICES ASSUME Feeds, source' = "over", EndsFailing \/ EndsEmpty \/ EndsFinishing
             PROVE  FinishInv'
  BY Zenon
<1>1. /\ phase = "open" /\ queue = <<>> /\ BodyRight /\ OpenRight
      /\ phase' = "open" /\ outcome' = "none" /\ acc' = acc /\ provider' = provider
      /\ acc.finishes \in {0, 1} /\ acc.late = FALSE /\ (acc.finishes = 1 <=> Gone)
  BY PolledBody, Zenon
<1>2. ~wire.failed /\ (acc.finishes = 1 => wire.reason)
  BY <1>1, Zenon DEF BodyRight
<1>3. QueueShape' /\ (EndQueued({"finish"})' => queue'[1].kind = "finish")
  BY Zenon DEF QueueShape, EndQueued, EndsFailing, EndsEmpty, EndsFinishing
<1>4. /\ queue' # <<>> => EndQueued({"finish", "error"})'
      /\ queue' # <<>> /\ queue'[1].kind = "error" => EndQueued({"error"})'
  BY Zenon DEF EndQueued, EndsFailing, EndsEmpty, EndsFinishing
<1>5. /\ acc.finishes = 1 => queue' = <<>> \/ queue'[1].kind = "error"
      /\ acc.finishes = 1 \/ EndQueued({"finish"})' => wire'.reason
      /\ wire'.reason => acc.finishes = 1 \/ EndQueued({"finish", "error"})'
      /\ wire'.failed => EndQueued({"error"})'
  <2>1. CASE EndsFailing
    BY <1>1, <1>2, <1>3, <1>4, <2>1 DEF EndsFailing
  <2>2. CASE EndsEmpty
    BY <1>1, <1>2, <2>2, Zenon DEF EndQueued, EndsEmpty
  <2>3. CASE EndsFinishing
    <3>1. queue' # <<>> /\ wire' = wire /\ wire.reason /\ acc.finishes # 1
      BY <1>1, <2>3 DEF EndsFinishing
    <3> QED
      BY <1>2, <1>4, <3>1, Zenon
  <2> QED
    BY <2>1, <2>2, <2>3, Zenon
<1>6. OpenRight'
  BY <1>1, <1>3, <1>5, Zenon DEF OpenRight
<1> QED
  BY <1>1, <1>6, Zenon DEF FinishInv

\* The translators touch the end of the stream only where they should.
LEMMA StopEventIsEnd == ASSUME NEW t, NEW r PROVE StopEvent(t, r).kind \in {"finish", "error"}
BY Zenon DEF StopEvent, Finish, Error

\* An input delta says one thing and leaves what the translator knows of the end.
LEMMA InputKeepsEnd ==
  ASSUME NEW t, t = [f \in TrFields |-> t[f]], NEW k, NEW args
  PROVE  LET r == InputDelta(t, k, args)
         IN  /\ r.t = [f \in TrFields |-> r.t[f]] /\ r.t.terminal = t.terminal
             /\ r.t.metadata = t.metadata /\ r.t.stop_reason = t.stop_reason
             /\ r.out = <<r.out[1]>> /\ r.out[1].kind \in {"token", "call"}
<1>1. CASE k = t.synthesized
  BY <1>1, Zenon DEF InputDelta, TokenDelta
<1>2. CASE k # t.synthesized
  <2> DEFINE u == [t EXCEPT !.named = @ \union {k}]
             c == CallDelta(t.blocks[k].id, IF k \in t.named THEN <<>> ELSE t.blocks[k].name, args)
  <2>1. InputDelta(t, k, args) = [t |-> u, out |-> <<c>>]
    BY <1>2, Zenon DEF InputDelta
  <2>2. c.kind = "call"
    BY Zenon DEF CallDelta
  <2>3. /\ u = [f \in TrFields |-> u[f]] /\ u.terminal = t.terminal
        /\ u.metadata = t.metadata /\ u.stop_reason = t.stop_reason
    BY Zenon DEF TrFields
  <2> HIDE DEF u, c
  <2> QED
    BY <2>1, <2>2, <2>3
<1> QED
  BY <1>1, <1>2, Zenon

\* So does a block start, which says nothing.
LEMMA StartKeepsEnd ==
  ASSUME NEW t, t = [f \in TrFields |-> t[f]], NEW k, NEW block
  PROVE  LET r == BlockStart(t, k, block)
         IN  /\ r = [f \in TrFields |-> r[f]] /\ r.terminal = t.terminal
             /\ r.metadata = t.metadata /\ r.stop_reason = t.stop_reason
BY Zenon DEF BlockStart, TrFields

\* A block opens: nothing goes out.
LEMMA BlockOpensStep ==
  ASSUME FinishInv, BlockOpens, RetryInv PROVE FinishInv'
<1>1. /\ Feeds /\ ~wire.stopped /\ source' = "body" /\ queue' = <<>>
      /\ UNCHANGED <<provider, retry, acc>>
  BY Zenon DEF BlockOpens, Feeding, Unfed, Feeds, Polled
<1>2. BodyRight
  BY <1>1, PolledBody, Zenon
<1>3. tr = [f \in TrFields |-> tr[f]] /\ wire = [f \in WireFields |-> wire[f]]
  BY <1>2, Zenon DEF BodyRight
<1>4. \E k, block : tr' = BlockStart(tr, k, block)
  BY Zenon DEF BlockOpens
<1>5. /\ tr' = [f \in TrFields |-> tr'[f]]
      /\ UNCHANGED <<tr.terminal, tr.metadata, tr.stop_reason>>
  BY <1>3, <1>4, StartKeepsEnd
<1>6. /\ wire' = [f \in WireFields |-> wire'[f]]
      /\ UNCHANGED <<wire.reason, wire.stopped, wire.failed, wire.metadata>>
  <2>1. PICK k \in Keys :
          \/ wire' = [wire EXCEPT !.added = @ \union {k}]
          \/ \E id, n : wire' = [wire EXCEPT !.added = @ \union {k},
                                   !.item[k] = IF n = Synthesized THEN @ ELSE id,
                                   !.frags[k] = IF n = Synthesized THEN @ ELSE n]
    BY Zenon DEF BlockOpens
  <2>2. CASE wire' = [wire EXCEPT !.added = @ \union {k}]
    BY <1>3, <2>2, Zenon DEF WireFields
  <2>3. ASSUME NEW id, NEW n,
               wire' = [wire EXCEPT !.added = @ \union {k},
                                    !.item[k] = IF n = Synthesized THEN @ ELSE id,
                                    !.frags[k] = IF n = Synthesized THEN @ ELSE n]
        PROVE  /\ wire' = [f \in WireFields |-> wire'[f]]
               /\ UNCHANGED <<wire.reason, wire.stopped, wire.failed, wire.metadata>>
    BY <1>3, <2>3, Zenon DEF WireFields
  <2> QED
    BY <2>1, <2>2, <2>3, Zenon
<1> QED
  BY <1>1, <1>5, <1>6, FedSilently, Zenon

\* An input delta is content, or, for Anthropic, an error that ends the stream.
LEMMA BlockInputStep ==
  ASSUME FinishInv, BlockInput, RetryInv PROVE FinishInv'
<1>1. Feeds /\ ~wire.stopped /\ source = "body"
  BY Zenon DEF BlockInput, Feeding, Unfed, Feeds, Polled
<1>2. BodyRight
  BY <1>1, PolledBody, Zenon
<1>3. tr = [f \in TrFields |-> tr[f]] /\ wire = [f \in WireFields |-> wire[f]] /\ ~Gone
  BY <1>1, <1>2, Zenon DEF BodyRight
<1>4. PICK k, args :
        LET r == IF provider.name = "anthropic" THEN AnthropicInput(tr, k, args)
                 ELSE BedrockInput(tr, k, args)
        IN  /\ k \in Keys /\ Fed(r) /\ source' = IF r.out = <<Error("transport")>> THEN "over" ELSE source
            /\ wire' = IF wire.item[k] = None THEN wire ELSE [wire EXCEPT !.sent[k] = @ + Len(args)]
  BY Zenon DEF BlockInput
<1>5. /\ wire' = [f \in WireFields |-> wire'[f]]
      /\ UNCHANGED <<wire.reason, wire.stopped, wire.failed, wire.metadata>>
  BY <1>3, <1>4, Zenon DEF WireFields
<1>6. \/ /\ tr' = InputDelta(tr, k, args).t /\ queue' = InputDelta(tr, k, args).out
         /\ source' = IF queue' = <<Error("transport")>> THEN "over" ELSE "body"
      \/ tr' = tr /\ queue' = <<>> /\ source' = "body"
      \/ tr' = tr /\ queue' = <<Error("transport")>> /\ source' = "over"
  <2>1. CASE provider.name = "anthropic"
    BY <1>1, <1>4, <2>1, Zenon DEF AnthropicInput, Fed
  <2>2. CASE provider.name # "anthropic" /\ ~(k = tr.synthesized \/ IsTool(tr, k))
    <3>1. <<>> # <<Error("transport")>>
      BY Zenon
    <3> QED
      BY <1>1, <1>4, <2>2, <3>1, Zenon DEF BedrockInput, Fed
  <2>3. CASE provider.name # "anthropic" /\ (k = tr.synthesized \/ IsTool(tr, k))
    BY <1>1, <1>4, <2>3, Zenon DEF BedrockInput, Fed
  <2> QED
    BY <2>1, <2>2, <2>3, Zenon
<1>7. CASE /\ tr' = InputDelta(tr, k, args).t /\ queue' = InputDelta(tr, k, args).out
           /\ source' = IF queue' = <<Error("transport")>> THEN "over" ELSE "body"
  <2>1. /\ tr' = [f \in TrFields |-> tr'[f]] /\ tr'.terminal = tr.terminal
        /\ tr'.metadata = tr.metadata /\ tr'.stop_reason = tr.stop_reason
        /\ queue' = <<queue'[1]>> /\ queue'[1].kind \in {"token", "call"}
    BY <1>3, <1>7, InputKeepsEnd
  <2>2. queue' # <<Error("transport")>>
    BY <2>1 DEF Error
  <2>3. source' = "body"
    BY <1>7, <2>2, Zenon
  <2> QED
    BY <1>1, <1>3, <1>5, <2>1, <2>3, FedSilently, Zenon
<1>8. CASE tr' = tr /\ queue' = <<>> /\ source' = "body"
  BY <1>1, <1>3, <1>5, <1>8, FedSilently, Zenon
<1>9. CASE queue' = <<Error("transport")>> /\ source' = "over"
  <2>1. EndsFailing
    BY <1>5, <1>9, Zenon DEF EndsFailing, Error
  <2> QED
    BY <1>1, <1>9, <2>1, FedLast, Zenon
<1> QED
  BY <1>6, <1>7, <1>8, <1>9, Zenon

\* Text of a block is one token.
LEMMA BlockTextStep ==
  ASSUME FinishInv, BlockText, RetryInv PROVE FinishInv'
<1>1. /\ Feeds /\ ~wire.stopped /\ source' = "body" /\ queue' = <<TokenDelta>>
      /\ UNCHANGED <<tr, wire>>
  BY Zenon DEF BlockText, Feeding, Unfed, Feeds, Polled, Fed
<1>2. BodyRight
  BY <1>1, PolledBody, Zenon
<1>3. tr = [f \in TrFields |-> tr[f]] /\ wire = [f \in WireFields |-> wire[f]] /\ ~Gone
  BY <1>1, <1>2, Zenon DEF BodyRight
<1>4. queue' = <<queue'[1]>> /\ queue'[1].kind \notin {"finish", "error"}
  BY <1>1, Zenon DEF TokenDelta
<1> QED
  BY <1>1, <1>3, <1>4, FedSilently, Zenon

\* message_start, message_delta, message_stop and error of the Anthropic wire.
LEMMA AnthropicFrameStep ==
  ASSUME FinishInv, AnthropicFrame, RetryInv PROVE FinishInv'
<1>1. /\ Feeds /\ source = "body" /\ provider.name = "anthropic"
      /\ UNCHANGED <<provider, retry, acc>>
  BY Zenon DEF AnthropicFrame, Feeding, Unfed, Feeds, Polled, Blocks
<1>2. /\ phase = "open" /\ queue = <<>> /\ BodyRight /\ OpenRight
      /\ phase' = "open" /\ outcome' = "none" /\ acc' = acc /\ provider' = provider
      /\ acc.finishes \in {0, 1} /\ acc.late = FALSE /\ (acc.finishes = 1 <=> tr.terminal)
  BY <1>1, PolledBody, Zenon DEF Gone
<1>3. /\ tr = [f \in TrFields |-> tr[f]] /\ wire = [f \in WireFields |-> wire[f]]
      /\ tr.terminal \in BOOLEAN /\ wire.reason \in BOOLEAN /\ wire.stopped \in BOOLEAN
      /\ ~wire.failed /\ (tr.terminal => wire.stopped /\ wire.reason)
      /\ (Held => wire.reason) /\ (wire.reason => Held \/ tr.terminal)
      /\ tr.metadata \in BOOLEAN /\ wire.failed \in BOOLEAN /\ wire.metadata \in BOOLEAN
  BY <1>1, <1>2, Zenon DEF BodyRight, Gone
<1>4. CASE ~wire.stopped /\ Fed([t |-> tr, out |-> <<Usage>>]) /\ UNCHANGED <<source, wire>>
  <2>1. queue' = <<queue'[1]>> /\ queue'[1].kind \notin {"finish", "error"} /\ tr' = tr
    BY <1>4, Zenon DEF Fed, Usage
  <2>2. ~Gone
    BY <1>1, <1>3, <1>4, Zenon DEF Gone
  <2> QED
    BY <1>1, <1>3, <1>4, <2>1, <2>2, FedSilently, Zenon
<1>5. ASSUME NEW r \in StopReasons \union {None, "refusal"}, Fed(AnthropicMessageDelta(tr, r)),
             wire' = [wire EXCEPT !.reason = @ \/ r # None], UNCHANGED source
      PROVE  FinishInv'
  <2>1. /\ tr' = [tr EXCEPT !.stop_reason = IF r = None THEN @ ELSE r]
        /\ queue' = IF tr.terminal THEN <<>> ELSE <<Usage>>
    BY <1>5, Zenon DEF Fed, AnthropicMessageDelta
  <2>2. /\ tr' = [f \in TrFields |-> tr'[f]] /\ UNCHANGED <<tr.terminal, tr.metadata>>
        /\ tr'.stop_reason = IF r = None THEN tr.stop_reason ELSE r
    BY <1>3, <2>1, Zenon DEF TrFields
  <2>3. /\ wire' = [f \in WireFields |-> wire'[f]]
        /\ UNCHANGED <<wire.stopped, wire.failed, wire.metadata>>
        /\ wire'.reason = (wire.reason \/ r # None)
    BY <1>3, <1>5, Zenon DEF WireFields
  <2>4. Held' => wire'.reason
    BY <1>3, <2>2, <2>3, Zenon DEF Held
  <2>5. wire'.reason => Held' \/ tr.terminal
    BY <1>3, <2>2, <2>3, Zenon DEF Held
  <2>6. Gone' <=> tr.terminal
    BY <1>1, <1>2, <2>2, Zenon DEF Gone
  <2>7. QueueShape' /\ ~EndQueued({"finish"})' /\ (queue' # <<>> => acc.finishes = 0)
    BY <1>2, <2>1, Zenon DEF QueueShape, EndQueued, Usage
  <2>8. BodyRight'
    BY <1>1, <1>2, <1>3, <2>2, <2>3, <2>4, <2>5, <2>6, <2>7, Zenon DEF BodyRight
  <2>9. OpenRight'
    BY <1>1, <1>2, <1>3, <1>5, <2>3, <2>7, <2>8 DEF OpenRight
  <2> QED
    BY <1>2, <2>9, Zenon DEF FinishInv
<1>6. CASE /\ Fed(AnthropicStop(tr)) /\ wire' = [wire EXCEPT !.stopped = TRUE] /\ UNCHANGED source
  <2>1. /\ wire' = [f \in WireFields |-> wire'[f]] /\ wire'.stopped = TRUE
        /\ UNCHANGED <<wire.reason, wire.failed, wire.metadata>>
    BY <1>3, <1>6, Zenon DEF WireFields
  <2>2. CASE ~Held \/ tr.terminal
    <3>1. tr' = [tr EXCEPT !.stop_reason = None] /\ queue' = <<>>
      BY <1>6, <2>2, Zenon DEF Fed, AnthropicStop, Held
    <3>2. /\ tr' = [f \in TrFields |-> tr'[f]] /\ UNCHANGED <<tr.terminal, tr.metadata>>
          /\ ~Held'
      BY <1>3, <3>1, Zenon DEF TrFields, Held
    <3>3. Gone' <=> tr.terminal
      BY <1>1, <1>2, <3>2, Zenon DEF Gone
    <3>4. QueueShape' /\ ~EndQueued({"finish"})'
      BY <3>1, Zenon DEF QueueShape, EndQueued
    <3>5. BodyRight'
      BY <1>1, <1>2, <1>3, <2>1, <2>2, <3>2, <3>3, <3>4, Zenon DEF BodyRight
    <3>6. OpenRight'
      BY <1>1, <1>2, <1>3, <1>6, <2>1, <3>1, <3>4, <3>5, Zenon DEF OpenRight
    <3> QED
      BY <1>2, <3>6, Zenon DEF FinishInv
  <2>3. CASE Held /\ ~tr.terminal
    <3>1. /\ tr' = [tr EXCEPT !.stop_reason = None, !.terminal = TRUE]
          /\ queue' = <<StopEvent(tr, tr.stop_reason)>>
      BY <1>6, <2>3, Zenon DEF Fed, AnthropicStop, Held
    <3>2. /\ tr' = [f \in TrFields |-> tr'[f]] /\ UNCHANGED tr.metadata /\ tr'.terminal = TRUE
          /\ ~Held'
      BY <1>3, <3>1, Zenon DEF TrFields, Held
    <3>3. Gone'
      BY <1>1, <1>2, <3>2, Zenon DEF Gone
    <3>4. QueueShape' /\ EndQueued({"finish", "error"})' /\ acc.finishes = 0
      BY <1>2, <2>3, <3>1, StopEventIsEnd, Zenon DEF QueueShape, EndQueued
    <3>5. wire'.reason
      BY <1>3, <2>1, <2>3, Zenon
    <3>6. BodyRight'
      BY <1>1, <1>2, <1>3, <2>1, <3>2, <3>3, <3>4, <3>5, Zenon DEF BodyRight
    <3>7. OpenRight'
      BY <1>1, <1>2, <1>6, <3>4, <3>5, <3>6 DEF OpenRight
    <3> QED
      BY <1>2, <3>7, Zenon DEF FinishInv
  <2> QED
    BY <2>2, <2>3, Zenon
<1>7. ASSUME NEW e, Fed([t |-> tr, out |-> <<Error(e)>>]), source' = "over",
             wire' = [wire EXCEPT !.failed = TRUE]
      PROVE  FinishInv'
  <2>1. EndsFailing
    BY <1>3, <1>7, Zenon DEF EndsFailing, Error, Fed, WireFields
  <2> QED
    BY <1>1, <1>7, <2>1, FedLast, Zenon
<1> QED
  BY <1>4, <1>5, <1>6, <1>7, Zenon DEF AnthropicFrame

\* What concatenation does.
LEMMA JoinIs ==
  ASSUME NEW S, NEW a \in Seq(S), NEW b \in Seq(S)
  PROVE  /\ a \o b \in Seq(S) /\ Len(a \o b) = Len(a) + Len(b)
         /\ \A i \in 1 .. Len(a) + Len(b) : (a \o b)[i] = IF i <= Len(a) THEN a[i] ELSE b[i - Len(a)]
  OBVIOUS

\* Two single items one after the other.
LEMMA TwoItems == ASSUME NEW x, NEW y PROVE <<x>> \o <<y>> = <<x, y>>
<1> DEFINE S == {x, y}
           a == <<x>>
           b == <<y>>
<1>1. a \in Seq(S) /\ b \in Seq(S) /\ Len(a) = 1 /\ Len(b) = 1 /\ a[1] = x /\ b[1] = y
  OBVIOUS
<1>2. <<x, y>> \in Seq(S) /\ Len(<<x, y>>) = 2 /\ <<x, y>>[1] = x /\ <<x, y>>[2] = y
  OBVIOUS
<1> HIDE DEF S, a, b
<1> DEFINE c == a \o b
           d == <<x, y>>
<1>3. c \in Seq(S) /\ Len(c) = 2 /\ c[1] = x /\ c[2] = y
  <2>1. /\ c \in Seq(S) /\ Len(c) = Len(a) + Len(b)
        /\ \A i \in 1 .. Len(a) + Len(b) : c[i] = IF i <= Len(a) THEN a[i] ELSE b[i - Len(a)]
    BY <1>1, JoinIs, Zenon
  <2> QED
    BY <1>1, <2>1
<1> HIDE DEF c, d
<1>4. c = d
  BY <1>2, <1>3 DEF d
<1> QED
  BY <1>4, Zenon DEF a, b, c, d

\* MessageStop and Metadata of Bedrock: the one that comes second lets the end out.
LEMMA BedrockFrameStep ==
  ASSUME FinishInv, BedrockFrame, RetryInv PROVE FinishInv'
<1>1. /\ Feeds /\ source = "body" /\ provider.name = "bedrock" /\ provider.name # "anthropic"
      /\ UNCHANGED <<provider, retry, acc, source>>
  BY Zenon DEF BedrockFrame, Feeding, Unfed, Feeds, Polled, Blocks
<1>2. /\ phase = "open" /\ queue = <<>> /\ BodyRight /\ OpenRight
      /\ phase' = "open" /\ outcome' = "none" /\ acc' = acc /\ provider' = provider
      /\ acc.finishes \in {0, 1} /\ acc.late = FALSE
      /\ (acc.finishes = 1 <=> wire.stopped /\ wire.metadata)
  BY <1>1, PolledBody, Zenon DEF Gone
<1>3. /\ tr = [f \in TrFields |-> tr[f]] /\ wire = [f \in WireFields |-> wire[f]]
      /\ tr.terminal \in BOOLEAN /\ wire.reason \in BOOLEAN /\ wire.stopped \in BOOLEAN
      /\ tr.metadata \in BOOLEAN /\ wire.failed \in BOOLEAN /\ wire.metadata \in BOOLEAN
      /\ ~wire.failed /\ (tr.metadata <=> wire.metadata)
      /\ (Held <=> wire.stopped /\ ~wire.metadata)
      /\ (Held => wire.reason) /\ (wire.reason => Held \/ (wire.stopped /\ wire.metadata))
  BY <1>1, <1>2, Zenon DEF BodyRight, Gone, Held
<1>4. ASSUME NEW r \in StopReasons, ~wire.stopped, Fed(BedrockMessageStop(tr, r)),
             wire' = [wire EXCEPT !.stopped = TRUE, !.reason = TRUE], None \notin StopReasons
      PROVE  FinishInv'
  <2>1. /\ wire' = [f \in WireFields |-> wire'[f]] /\ wire'.stopped = TRUE /\ wire'.reason = TRUE
        /\ UNCHANGED <<wire.failed, wire.metadata>>
    BY <1>3, <1>4, Zenon DEF WireFields
  <2>2. CASE tr.metadata
    <3>1. tr' = tr /\ queue' = <<StopEvent(tr, r)>>
      BY <1>4, <2>2, Zenon DEF Fed, BedrockMessageStop
    <3>2. Gone' /\ ~Held'
      BY <1>1, <1>2, <1>3, <1>4, <2>1, <2>2, <3>1, Zenon DEF Gone, Held
    <3>3. QueueShape' /\ EndQueued({"finish", "error"})' /\ acc.finishes = 0
      BY <1>2, <1>4, <3>1, StopEventIsEnd, Zenon DEF QueueShape, EndQueued
    <3>4. BodyRight'
      BY <1>1, <1>2, <1>3, <2>1, <2>2, <3>1, <3>2, <3>3, Zenon DEF BodyRight
    <3>5. OpenRight'
      BY <1>1, <1>2, <2>1, <3>3, <3>4 DEF OpenRight
    <3> QED
      BY <1>2, <3>5, Zenon DEF FinishInv
  <2>3. CASE ~tr.metadata
    <3>1. tr' = [tr EXCEPT !.stop_reason = r] /\ queue' = <<>>
      BY <1>4, <2>3, Zenon DEF Fed, BedrockMessageStop
    <3>2. /\ tr' = [f \in TrFields |-> tr'[f]] /\ UNCHANGED <<tr.terminal, tr.metadata>>
          /\ Held'
      BY <1>3, <1>4, <3>1, Zenon DEF TrFields, Held
    <3>3. ~Gone'
      BY <1>1, <1>2, <1>3, <2>1, <2>3, Zenon DEF Gone
    <3>4. QueueShape' /\ ~EndQueued({"finish"})' /\ acc.finishes = 0
      BY <1>2, <1>4, <3>1, Zenon DEF QueueShape, EndQueued
    <3>5. BodyRight'
      BY <1>1, <1>2, <1>3, <2>1, <2>3, <3>2, <3>3, <3>4, Zenon DEF BodyRight
    <3>6. OpenRight'
      BY <1>1, <1>2, <2>1, <3>4, <3>5 DEF OpenRight
    <3> QED
      BY <1>2, <3>6, Zenon DEF FinishInv
  <2> QED
    BY <1>3, <2>2, <2>3, Zenon
<1>5. CASE /\ ~wire.metadata /\ Fed(BedrockMetadata(tr)) /\ wire' = [wire EXCEPT !.metadata = TRUE]
  <2>1. /\ wire' = [f \in WireFields |-> wire'[f]] /\ wire'.metadata = TRUE
        /\ UNCHANGED <<wire.failed, wire.reason, wire.stopped>>
    BY <1>3, <1>5, Zenon DEF WireFields
  <2>2. /\ tr' = [tr EXCEPT !.metadata = TRUE, !.stop_reason = None]
        /\ queue' = <<Usage>> \o BedrockFinish(tr)
    BY <1>5, Zenon DEF Fed, BedrockMetadata
  <2>3. /\ tr' = [f \in TrFields |-> tr'[f]] /\ tr'.metadata = TRUE /\ UNCHANGED tr.terminal
        /\ ~Held'
    BY <1>3, <2>2, Zenon DEF TrFields, Held
  <2>4. (Gone' <=> wire.stopped) /\ acc.finishes = 0
    BY <1>1, <1>2, <1>5, <2>1, Zenon DEF Gone
  <2>5. CASE Held
    <3>1. queue' = <<Usage>> \o <<StopEvent(tr, tr.stop_reason)>>
      BY <2>2, <2>5, Zenon DEF BedrockFinish, Held
    <3>2. queue' = <<Usage, StopEvent(tr, tr.stop_reason)>>
      BY <3>1, TwoItems, Zenon
    <3>3. QueueShape' /\ EndQueued({"finish", "error"})'
      BY <3>2, StopEventIsEnd, Zenon DEF QueueShape, EndQueued, IsEnd
    <3>4. wire.stopped /\ wire.reason
      BY <1>3, <2>5, Zenon
    <3>5. BodyRight'
      BY <1>1, <1>2, <1>3, <2>1, <2>3, <2>4, <3>3, <3>4, Zenon DEF BodyRight
    <3>6. OpenRight'
      BY <1>1, <1>2, <2>1, <2>4, <3>3, <3>4, <3>5 DEF OpenRight
    <3> QED
      BY <1>2, <3>6, Zenon DEF FinishInv
  <2>6. CASE ~Held
    <3>1. queue' = <<Usage>> \o <<>>
      BY <2>2, <2>6, Zenon DEF BedrockFinish, Held
    <3>2. queue' = <<Usage>>
      BY <3>1
    <3>3. QueueShape' /\ ~EndQueued({"finish"})'
      BY <3>2, Zenon DEF QueueShape, EndQueued, Usage
    <3>4. ~wire.stopped /\ ~wire.reason
      BY <1>3, <1>5, <2>6, Zenon
    <3>5. BodyRight'
      BY <1>1, <1>2, <1>3, <2>1, <2>3, <2>4, <3>3, <3>4, Zenon DEF BodyRight
    <3>6. OpenRight'
      BY <1>1, <1>2, <2>1, <2>4, <3>3, <3>4, <3>5, Zenon DEF OpenRight
    <3> QED
      BY <1>2, <3>6, Zenon DEF FinishInv
  <2> QED
    BY <2>5, <2>6, Zenon
<1> QED
  BY <1>4, <1>5, NoneIsNoReason, Zenon DEF BedrockFrame

\* The request opens the body or fails before it.
LEMMA ConnectStep ==
  ASSUME FinishInv, Connect, RetryInv, provider.name \in Blocks PROVE FinishInv'
<1>1. Feeds /\ UNCHANGED <<tr, wire>>
  BY Zenon DEF Connect, Unfed, Feeds
<1>2. BodyRight
  BY <1>1, PolledBody, Zenon
<1>3. tr = [f \in TrFields |-> tr[f]] /\ wire = [f \in WireFields |-> wire[f]]
  BY <1>2, Zenon DEF BodyRight
<1>4. CASE source' = "body" /\ UNCHANGED queue
  <2>1. queue' = <<>>
    BY <1>1, <1>4, Zenon DEF Feeds, Polled
  <2> QED
    BY <1>1, <1>3, <1>4, <2>1, FedSilently, Zenon
<1>5. ASSUME NEW e, source' = "over", queue' = <<Error(e)>> PROVE FinishInv'
  <2>1. EndsFailing
    BY <1>1, <1>5, Zenon DEF EndsFailing, Error
  <2> QED
    BY <1>1, <1>5, <2>1, FedLast, Zenon
<1> QED
  BY <1>4, <1>5, Zenon DEF Connect

\* Where a lost prefix ends changes nothing else (no block stream is resumed).
LEMMA ResumesStep ==
  ASSUME FinishInv, ResponsesResumes, RetryInv, provider.name \in Blocks PROVE FinishInv'
<1>1. /\ Feeds /\ UNCHANGED <<tr, source>> /\ source' = "body" /\ queue' = <<>>
      /\ wire' = [wire EXCEPT !.resumed = "yes"]
  BY Zenon DEF ResponsesResumes, Unfed, Feeds, Polled
<1>2. BodyRight
  BY <1>1, PolledBody, Zenon
<1>3. tr = [f \in TrFields |-> tr[f]] /\ wire = [f \in WireFields |-> wire[f]]
  BY <1>2, Zenon DEF BodyRight
<1>4. /\ wire' = [f \in WireFields |-> wire'[f]]
      /\ UNCHANGED <<wire.reason, wire.stopped, wire.failed, wire.metadata>>
  BY <1>1, <1>3, Zenon DEF WireFields
<1> QED
  BY <1>1, <1>3, <1>4, FedSilently, Zenon

\* A transport error is the last thing a body yields.
LEMMA BodyFailsStep ==
  ASSUME FinishInv, BodyFails, RetryInv, provider.name \in Blocks PROVE FinishInv'
<1>1. Feeds /\ wire' = [wire EXCEPT !.failed = TRUE] /\ source' = "over"
  BY Zenon DEF BodyFails, Unfed, Feeds
<1>2. BodyRight
  BY <1>1, PolledBody, Zenon
<1>3. wire'.reason = wire.reason
  BY <1>1, <1>2, Zenon DEF BodyRight, WireFields
<1>4. EndsFailing
  BY <1>3 DEF BodyFails, EndsFailing, Error
<1> QED
  BY <1>1, <1>4, FedLast, Zenon

\* The end of the body lets out what the translator still holds.
LEMMA BodyEndsStep ==
  ASSUME FinishInv, BodyEnds, RetryInv, provider.name \in Blocks PROVE FinishInv'
<1>1. /\ Feeds /\ UNCHANGED wire /\ source' = "over" /\ queue' = FinishOf(provider, tr)
  BY Zenon DEF BodyEnds, Unfed, Feeds
<1>2. BodyRight
  BY <1>1, PolledBody, Zenon
<1>3. /\ (Held => wire.reason) /\ (wire.reason => Held \/ Gone) /\ (Gone => wire.reason)
      /\ tr.terminal \in BOOLEAN
  BY <1>2, Zenon DEF BodyRight
<1>4. \/ queue' = <<>> /\ (~Held \/ Gone)
      \/ queue' = <<StopEvent(tr, tr.stop_reason)>> /\ Held /\ ~Gone
  <2>1. CASE provider.name = "anthropic"
    <3>1. queue' = AnthropicStop(tr).out
      BY <1>1, <2>1, Zenon DEF FinishOf, AnthropicFinish
    <3> QED
      BY <1>3, <2>1, <3>1, Zenon DEF AnthropicStop, Held, Gone
  <2>2. CASE provider.name = "bedrock"
    <3>1. queue' = BedrockFinish(tr)
      BY <1>1, <2>2, Zenon DEF FinishOf
    <3>2. Held => ~Gone
      BY <1>2, <2>2, Zenon DEF BodyRight, Gone
    <3> QED
      BY <3>1, <3>2, Zenon DEF BedrockFinish, Held
  <2> QED
    BY <1>1, <2>1, <2>2, Zenon DEF Feeds, Blocks
<1>5. CASE queue' = <<>> /\ (~Held \/ Gone)
  <2>1. EndsEmpty
    BY <1>1, <1>3, <1>5, Zenon DEF EndsEmpty
  <2> QED
    BY <1>1, <2>1, FedLast, Zenon
<1>6. CASE queue' = <<StopEvent(tr, tr.stop_reason)>> /\ Held /\ ~Gone
  <2>1. queue'[1].kind \in {"finish", "error"} /\ queue' = <<queue'[1]>>
    BY <1>6, StopEventIsEnd, Zenon
  <2>2. CASE queue'[1].kind = "finish"
    <3>1. EndsFinishing
      BY <1>1, <1>3, <1>6, <2>1, <2>2, Zenon DEF EndsFinishing
    <3> QED
      BY <1>1, <3>1, FedLast, Zenon
  <2>3. CASE queue'[1].kind = "error"
    <3>1. EndsFailing
      BY <1>1, <2>1, <2>3, Zenon DEF EndsFailing
    <3> QED
      BY <1>1, <3>1, FedLast, Zenon
  <2> QED
    BY <2>1, <2>2, <2>3, Zenon
<1> QED
  BY <1>4, <1>5, <1>6, Zenon

\* An item is handed on: the end only as the last one.
LEMMA HandsOn ==
  /\ RetryInv /\ FinishInv /\ phase = "open" /\ queue # <<>> /\ Head(queue).kind # "error"
  /\ acc' = Observe(acc, Head(queue), attempt) /\ queue' = Tail(queue)
  /\ UNCHANGED <<provider, phase, outcome, source, tr, wire>>
  => FinishInv'
<1> SUFFICES ASSUME RetryInv, FinishInv, phase = "open", queue # <<>>, Head(queue).kind # "error",
                    acc' = Observe(acc, Head(queue), attempt), queue' = Tail(queue),
                    UNCHANGED <<provider, phase, outcome, source, tr, wire>>
             PROVE  FinishInv'
  BY Zenon
<1>1. OpenRight /\ acc.finishes \in {0, 1} /\ outcome = "none"
  BY Zenon DEF FinishInv
<1>2. queue = <<queue[1]>> \/ (queue = <<Usage, queue[2]>> /\ IsEnd(queue[2]))
  BY <1>1, Zenon DEF OpenRight, QueueShape
<1>3. Head(queue) = queue[1]
  BY <1>2
<1>4. acc.finishes = 0
  BY <1>1, <1>3, Zenon DEF OpenRight
<1>5. /\ acc'.late = FALSE
      /\ acc'.finishes = IF queue[1].kind = "finish" THEN 1 ELSE 0
  <2>1. acc = [f \in AccFields |-> acc[f]]
    BY Zenon DEF RetryInv
  <2>2. /\ acc'.late = (acc.finishes > 0)
        /\ acc'.finishes = IF queue[1].kind = "finish" THEN acc.finishes + 1 ELSE acc.finishes
    BY <1>3, <2>1, ObserveMarks
  <2>3. (0 > 0) = FALSE /\ 0 + 1 = 1
    OBVIOUS
  <2>4. acc'.late = (0 > 0)
    BY <1>4, <2>2, Zenon
  <2>5. acc'.finishes = IF queue[1].kind = "finish" THEN 1 ELSE 0
    BY <1>4, <2>2
  <2> QED
    BY <2>3, <2>4, <2>5, Zenon
<1>6. Gone' = Gone /\ Held' = Held
  BY Zenon DEF Gone, Held
<1>7. CASE queue = <<queue[1]>>
  <2>1. queue' = <<>> /\ Len(queue) = 1
    BY <1>7
  <2>2. QueueShape' /\ ~EndQueued({"finish"})' /\ ~EndQueued({"finish", "error"})' /\ ~EndQueued({"error"})'
    BY <2>1, Zenon DEF QueueShape, EndQueued
  <2>3. /\ EndQueued({"finish"}) <=> queue[1].kind = "finish"
        /\ EndQueued({"finish", "error"}) <=> queue[1].kind = "finish"
        /\ ~EndQueued({"error"})
    BY <1>3, <2>1, Zenon DEF EndQueued
  <2>4. BodyRight => BodyRight'
    BY <1>4, <1>5, <1>6, <2>2, <2>3, Zenon DEF BodyRight
  <2>5. OpenRight'
    BY <1>1, <1>4, <1>5, <2>1, <2>2, <2>3, <2>4, Zenon DEF OpenRight
  <2> QED
    BY <1>1, <1>5, <2>5, Zenon DEF FinishInv
<1>8. CASE queue = <<Usage, queue[2]>> /\ IsEnd(queue[2])
  <2>1. queue' = <<queue[2]>> /\ queue[1].kind = "usage" /\ Len(queue) = 2
    <3> DEFINE e == queue[2]
    <3>1. queue = <<Usage, e>>
      BY <1>8, Zenon
    <3> HIDE DEF e
    <3>2. Tail(<<Usage, e>>) = <<e>> /\ Len(<<Usage, e>>) = 2 /\ <<Usage, e>>[1] = Usage
      OBVIOUS
    <3>3. queue' = <<e>> /\ Len(queue) = 2 /\ queue[1] = Usage
      BY <3>1, <3>2, Zenon
    <3>4. Usage.kind = "usage"
      BY Zenon DEF Usage
    <3>5. queue[1].kind = "usage"
      BY <3>3, <3>4, Zenon
    <3> QED
      BY <3>3, <3>5, Zenon DEF e
  <2>2. /\ QueueShape' /\ queue'[1] = queue[2] /\ queue'[Len(queue')] = queue[2] /\ queue' # <<>>
    <3> DEFINE e == queue[2]
    <3>1. queue' = <<e>>
      BY <2>1, Zenon
    <3> HIDE DEF e
    <3>2. <<e>>[1] = e /\ Len(<<e>>) = 1 /\ <<e>> # <<>>
      BY Zenon
    <3>3. queue'[1] = e /\ queue'[Len(queue')] = e /\ queue' # <<>>
      BY <3>1, <3>2, Zenon
    <3>4. QueueShape'
      BY <3>1, <3>3, Zenon DEF QueueShape
    <3> QED
      BY <3>3, <3>4, Zenon DEF e
  <2>3. \A K \in {{"finish"}, {"error"}, {"finish", "error"}} :
          (EndQueued(K)' <=> queue[2].kind \in K) /\ (EndQueued(K) <=> queue[2].kind \in K)
    BY <2>1, <2>2, Zenon DEF EndQueued
  <2>4. acc'.finishes = 0
    BY <1>5, <2>1, Zenon
  <2>5. BodyRight => BodyRight'
    BY <1>4, <1>6, <2>3, <2>4, Zenon DEF BodyRight
  <2>6. OpenRight'
    BY <1>1, <1>4, <2>2, <2>3, <2>4, <2>5, Zenon DEF OpenRight
  <2> QED
    BY <1>1, <1>5, <2>4, <2>6, Zenon DEF FinishInv
<1> QED
  BY <1>2, <1>7, <1>8, Zenon

\* An item handed on is counted; an error ends the attempt.
LEMMA HandOnStep ==
  ASSUME RetryInv, FinishInv, HandOn PROVE FinishInv'
<1>1. /\ phase = "open" /\ queue # <<>> /\ UNCHANGED <<provider, tr, wire>>
      /\ acc.finishes \in {0, 1} /\ acc.late = FALSE /\ outcome = "none" /\ OpenRight
  BY Zenon DEF HandOn, FinishInv
<1>2. CASE Head(queue).kind = "error"
  <2>1. /\ acc' = acc
        /\ \/ phase' = "backoff" /\ outcome' = outcome
           \/ phase' = "ended" /\ outcome' = "error"
    BY <1>2, Zenon DEF HandOn, FailedAttempt
  <2>2. acc.finishes = 1 => wire.reason
    BY <1>1, Zenon DEF OpenRight
  <2> QED
    BY <1>1, <2>1, <2>2, Zenon DEF FinishInv
<1>3. CASE Head(queue).kind # "error"
  BY <1>1, <1>3, HandsOn, Zenon DEF HandOn
<1> QED
  BY <1>2, <1>3, Zenon

\* The retrying model's other steps: a new attempt starts from nothing.
LEMMA RetrySteps ==
  ASSUME RetryInv, FinishInv, provider.name \in Blocks,
         Invoke \/ (\E e \in {"transport", "other"} : InvokeFails(e)) \/ Backoff \/ End
  PROVE  FinishInv'
<1>1. CASE Invoke
  <2>1. /\ phase' = "open" /\ source' = "connecting" /\ tr' = New(provider) /\ queue' = <<>>
        /\ wire' = WireNew /\ UNCHANGED <<provider, acc, outcome>> /\ outcome = "none"
        /\ acc.finishes = 0 /\ acc.late = FALSE
    <3>1. phase = "invoke" /\ provider.name # "responses"
      BY <1>1, Zenon DEF Invoke, Blocks
    <3>2. acc = AccNew /\ outcome = "none"
      BY <3>1, Zenon DEF RetryInv, FinishInv
    <3>3. acc.finishes = 0 /\ acc.late = FALSE
      BY <3>2, Zenon DEF AccNew
    <3> QED
      BY <1>1, <3>1, <3>2, <3>3 DEF Invoke
  <2>2. PICK b : tr' = BlocksNew(b)
    BY <2>1, Zenon DEF New, Blocks
  <2>3. /\ tr' = [f \in TrFields |-> tr'[f]] /\ tr'.terminal = FALSE /\ tr'.metadata = FALSE
        /\ tr'.stop_reason = None
    BY <2>2, Zenon DEF BlocksNew, TrFields
  <2>4. /\ wire' = [f \in WireFields |-> wire'[f]] /\ wire'.reason = FALSE /\ wire'.stopped = FALSE
        /\ wire'.failed = FALSE /\ wire'.metadata = FALSE
    BY <2>1, Zenon DEF WireNew, WireFields
  <2>5. ~Gone' /\ ~Held' /\ QueueShape' /\ ~EndQueued({"finish"})'
    BY <2>1, <2>3, <2>4, Zenon DEF Gone, Held, QueueShape, EndQueued
  <2>6. BodyRight'
    BY <2>1, <2>3, <2>4, <2>5, Zenon DEF BodyRight
  <2>7. OpenRight'
    BY <2>1, <2>4, <2>5, <2>6 DEF OpenRight
  <2> QED
    BY <2>1, <2>7, Zenon DEF FinishInv
<1>2. ASSUME NEW e, InvokeFails(e) PROVE FinishInv'
  BY <1>2 DEF InvokeFails, FailedAttempt, FinishInv, RetryInv, AccNew
<1>3. CASE Backoff
  BY <1>3 DEF Backoff, FinishInv, RetryInv, AccNew
<1>4. CASE End
  <2>1. /\ OpenRight /\ phase' = "ended" /\ UNCHANGED <<acc, wire, provider>>
        /\ outcome' = "clean" => queue = <<>> /\ source = "over"
    BY <1>4, Zenon DEF End, FinishInv
  <2>2. queue = <<>> => ~EndQueued({"error"}) /\ ~EndQueued({"finish", "error"})
    BY Zenon DEF EndQueued
  <2> QED
    BY <2>1, <2>2, Zenon DEF OpenRight, FinishInv
<1> QED
  BY <1>1, <1>2, <1>3, <1>4, Zenon

\* Every step of a block provider keeps the invariant.
LEMMA BlocksStep ==
  ASSUME BlocksInv, [Next]_vars PROVE BlocksInv'
<1>1. RetryInv /\ RetryInv'
  BY RetryStep, Zenon DEF BlocksInv
<1>2. provider' = provider
  <2>1. CASE Cancel \/ Connect \/ Wire \/ Ended
    BY <2>1, BeneathRetry, Zenon
  <2>2. CASE UNCHANGED vars \/ Backoff \/ End
    BY <2>2, Zenon DEF vars, Backoff, End
  <2>3. CASE HandOn
    BY <2>3, Zenon DEF HandOn
  <2>4. CASE Invoke
    BY <2>4, Zenon DEF Invoke
  <2>5. CASE \E e \in {"transport", "other"} : InvokeFails(e)
    BY <2>5, Zenon DEF InvokeFails
  <2> QED
    BY <2>1, <2>2, <2>5, <2>3, <2>4, Zenon DEF Next
<1>3. ASSUME provider.name \in Blocks PROVE FinishInv'
  <2>1. FinishInv
    BY <1>3, Zenon DEF BlocksInv
  <2>2. CASE UNCHANGED vars \/ Ended \/ Cancel
    <3>1. UNCHANGED <<provider, phase, source, tr, queue, acc, outcome, wire>>
      BY <2>2, Zenon DEF vars, Ended, Cancel, retry
    <3>2. (Gone' <=> Gone) /\ (Held' <=> Held) /\ (QueueShape' <=> QueueShape)
          /\ \A K : EndQueued(K)' <=> EndQueued(K)
      BY <3>1, Zenon DEF Gone, Held, QueueShape, EndQueued
    <3>3. BodyRight => BodyRight'
      BY <3>1, <3>2, Zenon DEF BodyRight
    <3> QED
      BY <2>1, <3>1, <3>2, <3>3, Zenon DEF FinishInv, OpenRight
  <2>3. CASE Wire
    <3>1. \/ BlockOpens \/ BlockInput \/ BlockText \/ AnthropicFrame \/ BedrockFrame
          \/ BodyEnds \/ BodyFails \/ ResponsesResumes
      BY <1>3, <2>3, Zenon DEF Wire, OpenAiCallChunk, LiteLlmCallChunk, ChatOtherChunk, ResponsesItem,
                        ResponsesEnds, GeminiChunk, Feeding, Blocks
    <3> QED
      BY <1>1, <1>3, <2>1, <3>1, BlockOpensStep, BlockInputStep, BlockTextStep, AnthropicFrameStep,
         BedrockFrameStep, BodyEndsStep, BodyFailsStep, ResumesStep, Zenon
  <2>4. CASE Connect
    BY <1>1, <1>3, <2>1, <2>4, ConnectStep, Zenon
  <2>5. CASE HandOn
    BY <1>1, <2>1, <2>5, HandOnStep, Zenon
  <2>6. CASE Invoke \/ (\E e \in {"transport", "other"} : InvokeFails(e)) \/ Backoff \/ End
    BY <1>1, <1>3, <2>1, <2>6, RetrySteps, Zenon
  <2> QED
    BY <2>2, <2>3, <2>4, <2>5, <2>6, Zenon DEF Next
<1> QED
  BY <1>1, <1>2, <1>3, Zenon DEF BlocksInv

\* However an Anthropic or Bedrock stream ends, breaks off, is cancelled or retried, and
\* however many events it has: at most one Finish, no event but an error after it, none
\* without a stop reason on the wire and none missing at a clean end (stream.rs of both
\* crates).
THEOREM BlockStreamsFinish == Spec => [](provider.name \in Blocks => FinishContract)
<1>1. Init => BlocksInv
  BY RetryStarts DEF Init, BlocksInv, FinishInv, AccNew
<1>2. BlocksInv => (provider.name \in Blocks => FinishContract)
  <2> SUFFICES ASSUME BlocksInv, provider.name \in Blocks PROVE FinishContract
    BY Zenon
  <2>1. FinishInv /\ phase \in {"invoke", "open", "backoff", "ended"}
        /\ provider.name \notin {"responses", "gemini"}
        /\ (phase \in {"invoke", "backoff"} => acc.finishes = 0)
    BY DEF BlocksInv, Blocks, RetryInv, AccNew
  <2>2. acc.finishes = 1 => wire.reason
    BY <2>1 DEF FinishInv, OpenRight
  <2> QED
    BY <2>1, <2>2 DEF FinishContract, FinishInv
<1> QED
  BY <1>1, <1>2, BlocksStep, PTL DEF Spec

-----------------------------------------------------------------------------
(* The shell command.                                                        *)

Readers == [written : Nat, read : Nat, reader : {"open", "ended", "aborted"}]

ProcStates == {"unborn", "running", "stray", "killed", "gone"}

Reports == [exit_code : {0, NoCode}, timed_out : BOOLEAN, kept : [Pipes -> Nat],
            truncated : BOOLEAN]

ExecTypes ==
  /\ clock \in Nat /\ until \in Nat
  /\ step \in {"spawn", "failed", "waiting", "reaping", "joining", "done", "dropped"}
  /\ proc \in [Procs -> ProcStates] /\ holders \subseteq Procs
  /\ pipe \in [Pipes -> Readers]
  /\ status \in {0, NoCode} /\ report \in Reports

\* Each wait ends by its deadline, and the deadlines add up.
Deadlines ==
  /\ step = "spawn" => clock = 0
  /\ step \in {"waiting", "reaping", "joining"} => clock <= until
  /\ step = "waiting" => until <= Timeout
  /\ step = "reaping" => until <= Timeout + Grace
  /\ step = "joining" => until <= Timeout + 2 * Grace

\* Once the group was killed nothing in it runs, and nothing new can start; without
\* a kill the shell was seen to end.
KilledOrGone ==
  /\ proc["sh"] # "stray" /\ (step = "spawn" => \A p \in Procs : proc[p] = "unborn")
  /\ step \in {"spawn", "waiting"} => ~report.timed_out
  /\ step \in {"reaping"} => report.timed_out
  /\ step \in {"reaping", "joining", "done"} =>
       IF report.timed_out THEN \A p \in Procs : proc[p] # "running"
       ELSE proc["sh"] = "gone" /\ report.exit_code = status
  /\ report.timed_out \/ step \in {"spawn", "waiting"} => report.exit_code = NoCode

\* A reader never has more than was written, and ends at the cap or at the end.
ReadersRight ==
  /\ \A f \in Pipes :
       /\ pipe[f].read <= pipe[f].written /\ pipe[f].read <= OutputCap + 1
       /\ pipe[f].reader = "ended" => pipe[f].read \in {pipe[f].written, OutputCap + 1}
       /\ step # "done" => pipe[f].reader # "aborted"
  /\ step = "done" =>
       /\ \A f \in Pipes :
            \/ pipe[f].reader = "ended" /\ pipe[f].read <= OutputCap /\ report.kept[f] = pipe[f].read
            \/ /\ pipe[f].reader = "ended" /\ pipe[f].read > OutputCap
               /\ report.kept[f] = OutputCap /\ report.truncated
            \/ pipe[f].reader = "aborted" /\ report.kept[f] = 0 /\ clock = until
       /\ report.truncated => \E f \in Pipes : pipe[f].read > OutputCap

ExecInv == ExecTypes /\ Deadlines /\ KilledOrGone /\ ReadersRight

\* The invariant holds before the shell is spawned.
LEMMA ExecStarts == ExecInit => ExecInv
<1> SUFFICES ASSUME ExecInit PROVE ExecInv
  BY Zenon
<1>1. /\ clock = 0 /\ step = "spawn" /\ holders = {} /\ until = 0 /\ proc = [p \in Procs |-> "unborn"]
      /\ pipe = [f \in Pipes |-> EmptyPipe] /\ report.timed_out = FALSE /\ report.exit_code = NoCode
      /\ status = NoCode
  BY Zenon DEF ExecInit, ExecStart
<1>2. ExecTypes
  <2>1. report \in Reports
    BY Zenon DEF ExecInit, ExecStart, Reports
  <2> QED
    BY <1>1, <2>1, Zenon DEF ExecTypes, Readers, EmptyPipe, ProcStates
<1>3. Deadlines /\ KilledOrGone
  BY <1>1, Zenon DEF Deadlines, KilledOrGone, Procs
<1>4. ReadersRight
  BY <1>1, ExecAssumption DEF ReadersRight, EmptyPipe
<1> QED
  BY <1>2, <1>3, <1>4, Zenon DEF ExecInv

\* A step that leaves the pipes and the report alone, on the way to no end.
LEMMA SamePipes ==
  ASSUME ExecInv, UNCHANGED <<pipe, report>>, step # "done", step' # "done"
  PROVE  ReadersRight'
  BY Zenon DEF ExecInv, ReadersRight

\* spawn_capped's own steps keep the invariant: spawn, the waits, the kill, the drop.
LEMMA ExecWaits ==
  ASSUME ExecInv, SpawnFails \/ Spawn \/ WaitReturns \/ WaitFails \/ WaitTimesOut \/ ReapEnds
                  \/ ExecDropped \/ Tick
  PROVE  ExecInv'
<1>0. /\ ExecTypes /\ Deadlines /\ KilledOrGone /\ ReadersRight
      /\ Timeout \in Nat /\ Grace \in Nat
  BY ExecAssumption, Zenon DEF ExecInv
<1>1. CASE SpawnFails \/ WaitFails \/ ExecDropped
  <2>1. /\ UNCHANGED <<clock, until, proc, status, holders, pipe, report>> /\ step' \in {"failed", "dropped"}
        /\ step \in {"spawn", "waiting", "reaping", "joining"}
    BY <1>1, Zenon DEF SpawnFails, WaitFails, ExecDropped
  <2>2. ExecTypes' /\ Deadlines' /\ KilledOrGone'
    BY <1>0, <2>1, Zenon DEF ExecTypes, Deadlines, KilledOrGone
  <2> QED
    BY <2>1, <2>2, SamePipes, Zenon DEF ExecInv
<1>2. CASE Spawn
  <2>1. /\ UNCHANGED <<clock, status, pipe, report>> /\ step = "spawn" /\ step' = "waiting"
        /\ until' = clock + Timeout /\ proc' = [proc EXCEPT !["sh"] = "running"]
        /\ holders' \subseteq Procs
    BY <1>2, Zenon DEF Spawn, Procs
  <2>2. Deadlines'
    BY <1>0, <2>1 DEF ExecTypes, Deadlines
  <2>3. proc'["sh"] = "running" /\ proc' \in [Procs -> ProcStates]
    BY <1>0, <2>1, Zenon DEF ExecTypes, Procs, ProcStates
  <2>4. ExecTypes'
    BY <1>0, <2>1, <2>3 DEF ExecTypes
  <2>5. KilledOrGone'
    BY <1>0, <2>1, <2>3, Zenon DEF KilledOrGone
  <2> QED
    BY <2>1, <2>2, <2>5, <2>4, SamePipes, Zenon DEF ExecInv
<1>3. CASE WaitReturns
  <2>1. /\ UNCHANGED <<clock, proc, status, holders, pipe>> /\ step = "waiting" /\ step' = "joining"
        /\ proc["sh"] = "gone" /\ until' = clock + Grace
        /\ report'.timed_out = report.timed_out /\ report'.exit_code = status
        /\ report' \in Reports
    BY <1>0, <1>3, Zenon DEF WaitReturns, ExecTypes, Reports
  <2>2. ExecTypes' /\ Deadlines'
    BY <1>0, <2>1 DEF ExecTypes, Deadlines
  <2>3. KilledOrGone'
    BY <1>0, <2>1, Zenon DEF KilledOrGone
  <2>4. ReadersRight'
    BY <1>0, <2>1, Zenon DEF ReadersRight
  <2> QED
    BY <2>2, <2>3, <2>4, Zenon DEF ExecInv
<1>4. CASE WaitTimesOut
  <2>1. /\ UNCHANGED <<clock, status, holders, pipe>> /\ step = "waiting" /\ step' = "reaping"
        /\ proc' = [p \in Procs |-> IF proc[p] = "running" THEN "killed" ELSE proc[p]]
        /\ until' = clock + Grace
        /\ report'.timed_out = TRUE /\ report'.exit_code = report.exit_code
        /\ report' \in Reports
    BY <1>0, <1>4, Zenon DEF WaitTimesOut, KillProcessGroup, ExecTypes, Reports
  <2>2. Deadlines'
    BY <1>0, <2>1 DEF ExecTypes, Deadlines
  <2>3. proc'["sh"] # "stray" /\ \A p \in Procs : proc'[p] # "running"
    BY <1>0, <2>1, Zenon DEF KilledOrGone, Procs
  <2>4. proc' \in [Procs -> ProcStates]
    <3>1. \A p \in Procs : proc'[p] \in ProcStates
      BY <1>0, <2>1, Zenon DEF ExecTypes, ProcStates
    <3> QED
      BY <2>1, <3>1, Zenon
  <2>5. ExecTypes'
    BY <1>0, <2>1, <2>4 DEF ExecTypes
  <2>6. KilledOrGone'
    BY <1>0, <2>1, <2>3, Zenon DEF KilledOrGone
  <2>7. ReadersRight'
    BY <1>0, <2>1, Zenon DEF ReadersRight
  <2> QED
    BY <2>2, <2>6, <2>7, <2>5, Zenon DEF ExecInv
<1>5. CASE ReapEnds
  <2>1. /\ UNCHANGED <<clock, proc, status, holders, pipe, report>> /\ step = "reaping" /\ step' = "joining"
        /\ until' = clock + Grace
    BY <1>5, Zenon DEF ReapEnds
  <2>2. ExecTypes' /\ Deadlines' /\ KilledOrGone'
    BY <1>0, <2>1 DEF ExecTypes, Deadlines, KilledOrGone
  <2> QED
    BY <2>1, <2>2, SamePipes, Zenon DEF ExecInv
<1>6. CASE Tick
  <2>1. /\ UNCHANGED <<step, until, proc, status, holders, pipe, report>>
        /\ step \in {"waiting", "reaping", "joining"} /\ clock < until /\ clock' = clock + 1
    BY <1>6, Zenon DEF Tick, Waits
  <2>2. ExecTypes' /\ Deadlines' /\ KilledOrGone'
    BY <1>0, <2>1 DEF ExecTypes, Deadlines, KilledOrGone
  <2> QED
    BY <2>1, <2>2, SamePipes, Zenon DEF ExecInv
<1> QED
  BY <1>1, <1>2, <1>3, <1>4, <1>5, <1>6, Zenon

\* What the processes do: none of it starts a process in a group that was killed.
LEMMA ExecProcesses ==
  ASSUME ExecInv, Starts \/ Detaches \/ (\E p \in Procs : Exits(p))
  PROVE  ExecInv'
<1>0. /\ ExecTypes /\ Deadlines /\ KilledOrGone /\ ReadersRight
  BY Zenon DEF ExecInv
<1>1. UNCHANGED <<clock, step, until, pipe, report>>
  BY Zenon DEF Starts, Detaches, Exits
<1>2. Deadlines' /\ ReadersRight'
  BY <1>0, <1>1, Zenon DEF Deadlines, ReadersRight
<1>3. /\ proc' \in [Procs -> ProcStates] /\ status' \in {0, NoCode}
      /\ holders' \subseteq Procs
  BY <1>0, Zenon DEF ExecTypes, Starts, Detaches, Exits, ProcStates
<1>4. ExecTypes'
  BY <1>0, <1>1, <1>3, Zenon DEF ExecTypes
<1>5. /\ proc'["sh"] # "stray"
      /\ \A p \in Procs : proc'[p] = "running" => proc[p] = "running" \/ proc["sh"] = "running"
      /\ proc["sh"] = "gone" => proc'["sh"] = "gone" /\ status' = status
      /\ ~ \A p \in Procs : proc[p] = "unborn"
  <2>0. proc \in [Procs -> ProcStates] /\ proc["sh"] # "stray" /\ holders \subseteq Procs
    BY <1>0, Zenon DEF ExecTypes, KilledOrGone
  <2>1. CASE Starts
    BY <2>0, <2>1, Zenon DEF Starts, Procs
  <2>2. CASE Detaches
    BY <2>0, <2>2, Zenon DEF Detaches, Procs, Live
  <2>3. CASE \E p \in Procs : Exits(p)
    BY <2>0, <2>3, Zenon DEF Exits, Procs, Live
  <2> QED
    BY <2>1, <2>2, <2>3, Zenon
<1>6. KilledOrGone'
  BY <1>0, <1>1, <1>5, Zenon DEF KilledOrGone, Procs
<1> QED
  BY <1>2, <1>4, <1>6, Zenon DEF ExecInv

\* A reader or a writer moves one byte, or a reader ends.
LEMMA ExecBytes ==
  ASSUME ExecInv, NEW f \in Pipes, ReadCapped(f) \/ (\E p \in Procs : Writes(p, f))
  PROVE  ExecInv'
<1>0. /\ ExecTypes /\ Deadlines /\ KilledOrGone /\ ReadersRight
  BY Zenon DEF ExecInv
<1>1. /\ UNCHANGED <<clock, step, until, proc, status, holders, report>>
      /\ pipe[f].reader = "open"
  BY Zenon DEF ReadCapped, MayRead, MayEnd, Writes
<1>2. Deadlines' /\ KilledOrGone'
  BY <1>0, <1>1, Zenon DEF Deadlines, KilledOrGone
<1>3. step # "done"
  BY <1>0, <1>1, Zenon DEF ReadersRight
<1>4. pipe[f] \in Readers /\ OutputCap \in Nat /\ pipe \in [Pipes -> Readers]
  BY <1>0, ExecAssumption, Zenon DEF ExecTypes
<1>5. /\ pipe' = [pipe EXCEPT ![f] = pipe'[f]]
      /\ pipe'[f] \in Readers
      /\ pipe'[f].read <= pipe'[f].written /\ pipe'[f].read <= OutputCap + 1
      /\ pipe'[f].reader = "ended" => pipe'[f].read \in {pipe'[f].written, OutputCap + 1}
      /\ pipe'[f].reader # "aborted"
  <2>1. CASE MayRead(f) /\ pipe' = [pipe EXCEPT ![f].read = @ + 1]
    BY <1>1, <1>4, <2>1, <1>0 DEF MayRead, Readers, ReadersRight
  <2>2. CASE MayEnd(f) /\ pipe' = [pipe EXCEPT ![f].reader = "ended"]
    BY <1>1, <1>4, <2>2, <1>0, Zenon DEF MayEnd, Readers, ReadersRight
  <2>3. CASE \E p \in Procs : Writes(p, f)
    BY <1>1, <1>4, <2>3, <1>0 DEF Writes, Readers, ReadersRight
  <2> QED
    BY <2>1, <2>2, <2>3, Zenon DEF ReadCapped
<1>6. ExecTypes'
  BY <1>0, <1>1, <1>5, Zenon DEF ExecTypes
<1>7. ReadersRight'
  <2>1. \A g \in Pipes : pipe'[g] = IF g = f THEN pipe'[f] ELSE pipe[g]
    BY <1>4, <1>5, Zenon
  <2> QED
    BY <1>0, <1>1, <1>3, <1>5, <2>1, Zenon DEF ReadersRight
<1> QED
  BY <1>2, <1>6, <1>7, Zenon DEF ExecInv

\* The report is made of what the readers had when they were joined or aborted.
LEMMA ExecJoins == ASSUME ExecInv, JoinReaders PROVE ExecInv'
<1>0. /\ ExecTypes /\ Deadlines /\ KilledOrGone /\ ReadersRight /\ OutputCap \in Nat
  BY ExecAssumption, Zenon DEF ExecInv
<1>1. /\ UNCHANGED <<clock, until, proc, status, holders>> /\ step = "joining" /\ step' = "done"
      /\ report'.timed_out = report.timed_out /\ report'.exit_code = report.exit_code
      /\ report'.truncated <=> \E f \in Pipes : pipe[f].reader = "ended" /\ pipe[f].read > OutputCap
  BY <1>0, Zenon DEF JoinReaders, ExecTypes, Reports
<1>2. \A f \in Pipes : pipe[f] \in Readers
  BY <1>0, Zenon DEF ExecTypes
<1>3. \A f \in Pipes :
        /\ pipe'[f] \in Readers
        /\ pipe'[f].written = pipe[f].written /\ pipe'[f].read = pipe[f].read
        /\ pipe[f].reader = "ended" => pipe'[f].reader = "ended"
        /\ pipe[f].reader # "ended" => pipe'[f].reader = "aborted" /\ clock = until
  BY <1>2, Zenon DEF JoinReaders, Readers
<1>4. \A f \in Pipes :
        /\ pipe[f].reader # "ended" => report'.kept[f] = 0
        /\ pipe[f].reader = "ended" /\ pipe[f].read <= OutputCap => report'.kept[f] = pipe[f].read
        /\ pipe[f].reader = "ended" /\ pipe[f].read > OutputCap => report'.kept[f] = OutputCap
  <2> DEFINE kept(f) == CASE pipe[f].reader # "ended" -> 0
                          [] pipe[f].reader = "ended" /\ pipe[f].read <= OutputCap -> pipe[f].read
                          [] pipe[f].reader = "ended" /\ pipe[f].read > OutputCap -> OutputCap
  <2>1. report'.kept = [f \in Pipes |-> kept(f)]
    BY <1>0, Zenon DEF JoinReaders, ExecTypes, Reports
  <2>2. ASSUME NEW f \in Pipes
        PROVE  /\ pipe[f].reader # "ended" => kept(f) = 0
               /\ pipe[f].reader = "ended" /\ pipe[f].read <= OutputCap => kept(f) = pipe[f].read
               /\ pipe[f].reader = "ended" /\ pipe[f].read > OutputCap => kept(f) = OutputCap
    <3>1. pipe[f].read \in Nat
      BY <1>2, Zenon DEF Readers
    <3> QED
      BY <1>0, <3>1
  <2> HIDE DEF kept
  <2> QED
    BY <2>1, <2>2, Zenon
<1>5. pipe' \in [Pipes -> Readers]
  <2>1. pipe' = [f \in Pipes |-> pipe'[f]]
    BY Zenon DEF JoinReaders
  <2> QED
    BY <1>3, <2>1, Zenon
<1>6. report' \in Reports
  <2>1. report'.kept \in [Pipes -> Nat]
    <3>1. /\ report'.kept = [f \in Pipes |-> report'.kept[f]]
          /\ \A f \in Pipes : pipe[f].read \in Nat
      BY <1>0, <1>2 DEF JoinReaders, ExecTypes, Reports, Readers
    <3> QED
      BY <1>0, <1>4, <3>1
  <2> QED
    BY <1>0, <2>1, Zenon DEF JoinReaders, ExecTypes, Reports
<1>7. ExecTypes'
  BY <1>0, <1>1, <1>5, <1>6, Zenon DEF ExecTypes
<1>8. Deadlines' /\ KilledOrGone'
  BY <1>0, <1>1, Zenon DEF Deadlines, KilledOrGone
<1>9. ReadersRight'
  <2>1. ASSUME NEW f \in Pipes
        PROVE  /\ pipe'[f].read <= pipe'[f].written /\ pipe'[f].read <= OutputCap + 1
               /\ pipe'[f].reader = "ended" => pipe'[f].read \in {pipe'[f].written, OutputCap + 1}
    BY <1>0, <1>3, Zenon DEF ReadersRight
  <2>2. ASSUME NEW f \in Pipes
        PROVE  \/ pipe'[f].reader = "ended" /\ pipe'[f].read <= OutputCap /\ report'.kept[f] = pipe'[f].read
               \/ /\ pipe'[f].reader = "ended" /\ pipe'[f].read > OutputCap
                  /\ report'.kept[f] = OutputCap /\ report'.truncated
               \/ pipe'[f].reader = "aborted" /\ report'.kept[f] = 0 /\ clock' = until'
    <3>1. pipe[f].read \in Nat
      BY <1>2, Zenon DEF Readers
    <3>2. pipe[f].read <= OutputCap \/ pipe[f].read > OutputCap
      BY <1>0, <3>1
    <3>3. CASE pipe[f].reader # "ended"
      BY <1>1, <1>3, <1>4, <3>3, Zenon
    <3>4. CASE pipe[f].reader = "ended" /\ pipe[f].read <= OutputCap
      BY <1>3, <1>4, <3>4, Zenon
    <3>5. CASE pipe[f].reader = "ended" /\ pipe[f].read > OutputCap
      BY <1>1, <1>3, <1>4, <3>5, Zenon
    <3> QED
      BY <3>2, <3>3, <3>4, <3>5, Zenon
  <2>3. report'.truncated => \E f \in Pipes : pipe'[f].read > OutputCap
    BY <1>1, <1>3, Zenon
  <2> QED
    BY <1>1, <2>1, <2>2, <2>3, Zenon DEF ReadersRight
<1> QED
  BY <1>7, <1>8, <1>9, Zenon DEF ExecInv

\* The inductive invariant of spawn_capped: deadlines add up, a killed group stays
\* dead, and a reader ends at the cap or at the end of what was written.
THEOREM ExecInvariant == ExecSpec => []ExecInv
<1>1. ExecInv /\ [ExecNext]_execVars => ExecInv'
  <2> SUFFICES ASSUME ExecInv, [ExecNext]_execVars PROVE ExecInv'
    BY Zenon
  <2>1. CASE UNCHANGED execVars
    BY <2>1, Zenon DEF ExecInv, ExecTypes, Deadlines, KilledOrGone, ReadersRight, execVars
  <2>2. CASE ExecNext
    BY <2>2, ExecWaits, ExecProcesses, ExecBytes, ExecJoins, Zenon DEF ExecNext
  <2> QED
    BY <2>1, <2>2, Zenon
<1> QED
  BY <1>1, ExecStarts, PTL DEF ExecSpec

\* spawn_capped keeps its contract whatever the processes do: it is over by
\* Timeout + 2 * Grace, its report says how the command really ended, and what it
\* kept of a pipe is all of it, its first OutputCap bytes, or nothing after a full wait.
THEOREM CommandsKeepTheirContract == ExecSpec => []ExecContract
<1>1. ExecInv => ExecContract
  <2> SUFFICES ASSUME ExecInv PROVE ExecContract
    BY Zenon
  <2>0. /\ ExecTypes /\ Deadlines /\ KilledOrGone /\ ReadersRight
        /\ OutputCap \in Nat /\ Timeout \in Nat /\ Grace \in Nat
    BY ExecAssumption, Zenon DEF ExecInv
  <2>1. Waits => clock <= Timeout + 2 * Grace
    BY <2>0 DEF ExecTypes, Deadlines, Waits
  <2>2. ASSUME step = "done"
        PROVE  /\ IF report.timed_out
                  THEN report.exit_code = NoCode /\ \A p \in Procs : proc[p] # "running"
                  ELSE proc["sh"] = "gone" /\ report.exit_code = status
               /\ \A f \in Pipes :
                    \/ report.kept[f] = pipe[f].written
                    \/ report.kept[f] = OutputCap /\ report.truncated
                    \/ report.kept[f] = 0 /\ pipe[f].reader = "aborted" /\ clock = until
               /\ report.truncated => \E f \in Pipes : pipe[f].written > OutputCap
    <3>1. IF report.timed_out
          THEN report.exit_code = NoCode /\ \A p \in Procs : proc[p] # "running"
          ELSE proc["sh"] = "gone" /\ report.exit_code = status
      BY <2>0, <2>2, Zenon DEF KilledOrGone
    <3>2. \A f \in Pipes : pipe[f].read \in Nat /\ pipe[f].written \in Nat
      BY <2>0, Zenon DEF ExecTypes, Readers
    <3> QED
      BY <2>0, <2>2, <3>1, <3>2 DEF ReadersRight
  <2> QED
    BY <2>1, <2>2, Zenon DEF ExecContract
<1> QED
  BY <1>1, ExecInvariant, PTL

-----------------------------------------------------------------------------
(* The microVM backend.                                                      *)

AnyBox == Boxes \union {ForeignBox}

Dates == Nat \union {NoDate}

Jobs == [at : {"new", "forking", "forked", "exec", "destroy", "done", "dropped"},
         box : Boxes \union {NoBox}, due : Nat,
         outcome : {"none", "error", "output", "timed_out"}]

Sweeps == [at : {"idle", "listed", "deleting", "reported"},
           list : SUBSET [id : AnyBox, created : Dates], now : Nat,
           todo : SUBSET Boxes, reaped : SUBSET Boxes, failed : SUBSET Boxes]

VmTypes ==
  /\ time \in Nat /\ DOMAIN born \subseteq AnyBox /\ born \in [DOMAIN born -> Dates]
  /\ boxes \subseteq DOMAIN born /\ job \in [Runs -> Jobs] /\ sweep \in Sweeps
  /\ ForeignBox \in boxes

\* A run holds a sandbox from the fork to the end of the destroy.
Holds(j) == j.at \in {"forked", "exec", "destroy"}

\* The date a run can rely on: its sandbox is no older than the deadlines say.
BornAfter(b, due, span) == born[b] # NoDate => due <= born[b] + span

JobRight(j) ==
  /\ j.at \in {"forking", "forked", "exec", "destroy"} => time <= j.due
  /\ j.at \in {"forking", "forked"} => j.due <= time + RunTimeout
  /\ Holds(j) => j.box \in Boxes /\ j.box \in DOMAIN born
  /\ j.at = "forked" => j.box \in boxes /\ BornAfter(j.box, j.due, RunTimeout)
  /\ j.at = "exec" => j.box \in boxes /\ BornAfter(j.box, j.due, 2 * RunTimeout)

Apart ==
  \A r, q \in Runs : r # q /\ Holds(job[r]) /\ Holds(job[q]) => job[r].box # job[q].box

\* What the sweep is about to delete was older than reap_age when the clock was read,
\* and nothing on its list is forgotten.
SweepRight ==
  /\ sweep.at \in {"idle", "listed"} => sweep.todo = {} /\ sweep.reaped = {}
  /\ sweep.now <= time
  /\ \A e \in sweep.list : e.id \in DOMAIN born /\ e.created = born[e.id]
  /\ \A b \in sweep.todo : /\ b \in DOMAIN born /\ born[b] # NoDate
                           /\ born[b] + ReapAge < sweep.now
  /\ sweep.reaped \subseteq DOMAIN born /\ sweep.reaped \intersect boxes = {}
  /\ sweep.at \in {"deleting", "reported"} =>
       \A e \in sweep.list :
          Reapable(e, sweep.now) => e.id \in sweep.todo \union sweep.reaped \union sweep.failed
  /\ sweep.at = "reported" => sweep.todo = {}

VmInv == VmTypes /\ (\A r \in Runs : JobRight(job[r])) /\ Apart /\ SweepRight

\* The invariant holds before the first run.
LEMMA VmStarts == VmInit => VmInv
<1> SUFFICES ASSUME VmInit PROVE VmInv
  BY Zenon
<1>1. /\ time = 0 /\ boxes = {ForeignBox} /\ born = [b \in {ForeignBox} |-> 0]
      /\ job = [r \in Runs |-> [at |-> "new", box |-> NoBox, due |-> 0, outcome |-> "none"]]
      /\ sweep = SweepIdle
  BY Zenon DEF VmInit, VmStart
<1>2. VmTypes
  <2>1. sweep \in Sweeps
    BY <1>1, Zenon DEF SweepIdle, Sweeps
  <2>2. job \in [Runs -> Jobs]
    BY <1>1, Zenon DEF Jobs
  <2> QED
    BY <1>1, <2>1, <2>2, Zenon DEF VmTypes, AnyBox, Dates
<1>3. \A r \in Runs : JobRight(job[r]) /\ ~ Holds(job[r])
  BY <1>1, Zenon DEF JobRight, Holds
<1>4. SweepRight
  BY <1>1 DEF SweepRight, SweepIdle
<1> QED
  BY <1>2, <1>3, <1>4, Zenon DEF VmInv, Apart

\* A step of one run that makes no sandbox and removes none but its own.
LEMMA RunStep ==
  ASSUME VmInv, NEW r \in Runs, NEW j \in Jobs, job' = [job EXCEPT ![r] = j],
         UNCHANGED <<time, born, sweep>>,
         boxes' = boxes \/ (Holds(job[r]) /\ ~ Holds(j) /\ boxes' = boxes \ {job[r].box}),
         JobRight(j), Holds(j) => Holds(job[r]) /\ j.box = job[r].box
  PROVE  VmInv'
<1>0. /\ VmTypes /\ Apart /\ SweepRight /\ \A q \in Runs : JobRight(job[q])
      /\ ForeignBox \notin Boxes
  BY SandboxAssumption, Zenon DEF VmInv
<1>1. \A q \in Runs : job'[q] = IF q = r THEN j ELSE job[q]
  BY <1>0, Zenon DEF VmTypes
<1>2. boxes' \subseteq boxes /\ ForeignBox \in boxes'
  BY <1>0, Zenon DEF VmTypes, JobRight
<1>3. VmTypes'
  BY <1>0, <1>2, Zenon DEF VmTypes
<1>4. Apart'
  BY <1>0, <1>1 DEF Apart, Holds
<1>5. SweepRight'
  <2>1. sweep.reaped \intersect boxes' = {}
    BY <1>0, <1>2, Zenon DEF SweepRight
  <2> QED
    BY <1>0, <2>1, Zenon DEF SweepRight, Reapable
<1>6. ASSUME NEW q \in Runs PROVE JobRight(job[q])'
  <2>1. CASE q = r
    <3>1. Holds(j) => boxes' = boxes
      BY Zenon
    <3>2. j.at \in {"forked", "exec"} => Holds(j)
      BY Zenon DEF Holds
    <3> QED
      BY <1>1, <2>1, <3>1, <3>2, Zenon DEF JobRight, Holds, BornAfter
  <2>2. CASE q # r
    <3>1. job'[q] = job[q] /\ JobRight(job[q])
      BY <1>0, <1>1, <2>2, Zenon
    <3>2. job[q].at \in {"forked", "exec"} => (job[q].box \in boxes => job[q].box \in boxes')
      BY <1>0, <2>2, Zenon DEF Apart, Holds
    <3> QED
      BY <3>1, <3>2, Zenon DEF JobRight, Holds, BornAfter
  <2> QED
    BY <2>1, <2>2, Zenon
<1> QED
  BY <1>3, <1>4, <1>5, <1>6, Zenon DEF VmInv

\* Every step of a run after the fork was sent, and the sending.
LEMMA RunSteps ==
  ASSUME VmInv, NEW r \in Runs,
         \/ ForkSent(r) \/ ForkReplies(r) \/ ForkFails(r) \/ Executes(r) \/ Destroys(r) \/ RunDropped(r)
  PROVE  VmInv'
<1>0. /\ job[r] \in Jobs /\ JobRight(job[r]) /\ time \in Nat
      /\ RunTimeout \in Nat /\ ControlTimeout \in Nat
      /\ NoDate \notin Nat /\ job[r].due \in Nat
  BY SandboxAssumption, Zenon DEF VmInv, VmTypes, Jobs
<1>1. /\ time + RunTimeout \in Nat /\ time <= time + RunTimeout
      /\ time + RunTimeout <= time + RunTimeout
      /\ time + ControlTimeout \in Nat /\ time <= time + ControlTimeout
  BY <1>0, Later, Zenon
<1>2. CASE ForkSent(r)
  <2> DEFINE j == [at |-> "forking", box |-> NoBox, due |-> time + RunTimeout, outcome |-> "none"]
  <2>1. j \in Jobs /\ JobRight(j) /\ ~ Holds(j)
    BY <1>1, Zenon DEF Jobs, JobRight, Holds
  <2> QED
    BY <1>2, <2>1, RunStep, Zenon DEF ForkSent, Goes
<1>3. CASE ForkReplies(r)
  <2> DEFINE j == [at |-> "exec", box |-> job[r].box, due |-> time + RunTimeout, outcome |-> "none"]
  <2>1. /\ job[r].at = "forked" /\ job[r].box \in Boxes /\ job[r].box \in DOMAIN born
        /\ job[r].box \in boxes /\ Holds(job[r]) /\ time <= job[r].due
        /\ BornAfter(job[r].box, job[r].due, RunTimeout) /\ born[job[r].box] \in Dates
    BY <1>0, <1>3, Zenon DEF ForkReplies, JobRight, Holds, VmInv, VmTypes
  <2>2. BornAfter(job[r].box, time + RunTimeout, 2 * RunTimeout)
    <3> DEFINE b == born[job[r].box]
               due == job[r].due
    <3>1. b # NoDate => b \in Nat /\ due <= b + RunTimeout
      BY <2>1, Zenon DEF BornAfter, Dates
    <3>2. time \in Nat /\ due \in Nat /\ time <= due /\ RunTimeout \in Nat
      BY <1>0, <2>1, Zenon
    <3> HIDE DEF b, due
    <3>3. b # NoDate => time + RunTimeout <= b + 2 * RunTimeout
      BY <3>1, <3>2
    <3> QED
      BY <3>3, Zenon DEF b, BornAfter
  <2>3. j \in Jobs /\ JobRight(j)
    BY <1>1, <2>1, <2>2, Zenon DEF Jobs, JobRight, Holds
  <2> QED
    BY <1>3, <2>1, <2>3, RunStep, Zenon DEF ForkReplies, Goes
<1>4. CASE ForkFails(r) \/ RunDropped(r)
  <2>1. PICK at \in {"done", "dropped"}, o \in {"error", "none"} :
          job' = [job EXCEPT ![r] = [at |-> at, box |-> NoBox, due |-> 0, outcome |-> o]]
    BY <1>4, Zenon DEF ForkFails, RunDropped, Goes
  <2> DEFINE j == [at |-> at, box |-> NoBox, due |-> 0, outcome |-> o]
  <2>2. j \in Jobs /\ JobRight(j) /\ ~ Holds(j)
    BY Zenon DEF Jobs, JobRight, Holds
  <2> QED
    BY <1>4, <2>1, <2>2, RunStep, Zenon DEF ForkFails, RunDropped
<1>5. CASE Executes(r)
  <2>1. PICK o \in {"output", "error", "timed_out"} :
          job' = [job EXCEPT ![r] = [at |-> "destroy", box |-> job[r].box,
                                     due |-> time + ControlTimeout, outcome |-> o]]
    BY <1>5, Zenon DEF Executes, Goes
  <2> DEFINE j == [at |-> "destroy", box |-> job[r].box, due |-> time + ControlTimeout,
                   outcome |-> o]
  <2>2. job[r].at = "exec" /\ Holds(job[r]) /\ job[r].box \in Boxes /\ job[r].box \in DOMAIN born
    BY <1>0, <1>5, Zenon DEF Executes, JobRight, Holds
  <2>3. j \in Jobs /\ JobRight(j)
    BY <1>1, <2>2, Zenon DEF Jobs, JobRight, Holds
  <2> QED
    BY <1>5, <2>1, <2>2, <2>3, RunStep, Zenon DEF Executes
<1>6. CASE Destroys(r)
  <2> DEFINE j == [at |-> "done", box |-> NoBox, due |-> 0, outcome |-> job[r].outcome]
  <2>1. j \in Jobs /\ JobRight(j) /\ ~ Holds(j) /\ Holds(job[r])
    BY <1>0, <1>6, Zenon DEF Jobs, JobRight, Holds, Destroys
  <2> QED
    BY <1>6, <2>1, RunStep, Zenon DEF Destroys, Goes
<1> QED
  BY <1>2, <1>3, <1>4, <1>5, <1>6, Zenon

\* A sandbox is made under an id that nobody has: no run holds it, no sweep knows it.
LEMMA ForkStep == ASSUME VmInv, NEW r \in Runs, ForkCommits(r) PROVE VmInv'
<1>0. /\ VmTypes /\ Apart /\ SweepRight /\ \A q \in Runs : JobRight(job[q])
      /\ RunTimeout \in Nat /\ time \in Nat /\ job[r] \in Jobs
      /\ UNCHANGED <<time, sweep>> /\ job[r].at = "forking"
  BY SandboxAssumption, Zenon DEF VmInv, VmTypes, ForkCommits
<1>1. PICK b \in Boxes :
        /\ b \notin DOMAIN born /\ boxes' = boxes \union {b}
        /\ \E date \in {time, NoDate} :
             born' = [x \in DOMAIN born \union {b} |-> IF x = b THEN date ELSE born[x]]
        /\ Goes(r, "forked", b, job[r].due, "none")
  <2> DEFINE b == CHOOSE x \in Boxes : x \notin DOMAIN born
  <2>1. b \in Boxes /\ b \notin DOMAIN born
    BY Zenon DEF ForkCommits
  <2>2. /\ boxes' = boxes \union {b}
        /\ \E date \in {time, NoDate} :
             born' = [x \in DOMAIN born \union {b} |-> IF x = b THEN date ELSE born[x]]
        /\ Goes(r, "forked", b, job[r].due, "none")
    BY Zenon DEF ForkCommits
  <2> HIDE DEF b
  <2> QED
    BY <2>1, <2>2, Zenon
<1>2. PICK date \in {time, NoDate} :
        born' = [x \in DOMAIN born \union {b} |-> IF x = b THEN date ELSE born[x]]
  BY <1>1, Zenon
<1> DEFINE j == [at |-> "forked", box |-> b, due |-> job[r].due, outcome |-> "none"]
<1>3. /\ DOMAIN born' = DOMAIN born \union {b} /\ born'[b] = date
      /\ \A x \in DOMAIN born : born'[x] = born[x]
  BY <1>1, <1>2, Zenon
<1>4. job' = [job EXCEPT ![r] = j] /\ j \in Jobs
  BY <1>0, <1>1, Zenon DEF Goes, Jobs
<1>5. j.at = "forked" /\ j.box = b /\ j.due = job[r].due /\ Holds(j)
  BY Zenon DEF Holds
<1> HIDE DEF j
<1>6. \A q \in Runs : job'[q] = IF q = r THEN j ELSE job[q]
  BY <1>0, <1>4, Zenon DEF VmTypes
<1>7. VmTypes'
  <2>1. date \in Dates
    BY <1>0, Zenon DEF Dates
  <2>2. born' \in [DOMAIN born' -> Dates] /\ DOMAIN born' \subseteq AnyBox
    BY <1>0, <1>1, <1>2, <1>3, <2>1, Zenon DEF VmTypes, AnyBox
  <2>3. job' \in [Runs -> Jobs]
    BY <1>0, <1>4, Zenon DEF VmTypes
  <2> QED
    BY <1>0, <1>1, <1>3, <2>2, <2>3, Zenon DEF VmTypes
<1>8. Apart'
  <2>1. \A q \in Runs : Holds(job[q]) => job[q].box \in DOMAIN born
    BY <1>0, Zenon DEF JobRight
  <2>2. SUFFICES ASSUME NEW p \in Runs, NEW q \in Runs, p # q, Holds(job'[p]), Holds(job'[q])
                 PROVE  job'[p].box # job'[q].box
    BY Zenon DEF Apart, Holds
  <2>3. CASE p = r
    <3>1. job'[p].box = b /\ job'[q] = job[q]
      BY <1>5, <1>6, <2>2, <2>3, Zenon
    <3> QED
      BY <1>1, <2>1, <2>2, <3>1, Zenon
  <2>4. CASE q = r
    <3>1. job'[q].box = b /\ job'[p] = job[p]
      BY <1>5, <1>6, <2>2, <2>4, Zenon
    <3> QED
      BY <1>1, <2>1, <2>2, <3>1, Zenon
  <2>5. CASE p # r /\ q # r
    <3>1. job'[p] = job[p] /\ job'[q] = job[q]
      BY <1>6, <2>2, <2>5, Zenon
    <3> QED
      BY <1>0, <2>2, <3>1, Zenon DEF Apart
  <2> QED
    BY <2>3, <2>4, <2>5, Zenon
<1>9. SweepRight'
  <2>1. /\ \A e \in sweep.list : e.id \in DOMAIN born' /\ e.created = born'[e.id]
        /\ \A x \in sweep.todo : /\ x \in DOMAIN born' /\ born'[x] # NoDate
                                 /\ born'[x] + ReapAge < sweep.now
        /\ sweep.reaped \subseteq DOMAIN born' /\ sweep.reaped \intersect boxes' = {}
    BY <1>0, <1>1, <1>3, Zenon DEF SweepRight
  <2> QED
    BY <1>0, <2>1, Zenon DEF SweepRight, Reapable
<1>10. ASSUME NEW q \in Runs PROVE JobRight(job[q])'
  <2>1. CASE q = r
    <3>1. time <= job[r].due /\ job[r].due <= time + RunTimeout
      BY <1>0, Zenon DEF JobRight
    <3>2. BornAfter(b, job[r].due, RunTimeout)'
      BY <1>0, <1>3, <1>6, <3>1, <1>5, <2>1, <1>4, Zenon DEF BornAfter
    <3> QED
      BY <1>0, <1>1, <1>3, <1>5, <1>6, <2>1, <3>1, <3>2, Zenon DEF JobRight, Holds, BornAfter
  <2>2. CASE q # r
    <3>1. job'[q] = job[q] /\ JobRight(job[q])
      BY <1>0, <1>6, <2>2, Zenon
    <3> QED
      BY <1>0, <1>1, <1>3, <3>1, Zenon DEF JobRight, Holds, BornAfter
  <2> QED
    BY <2>1, <2>2, Zenon
<1> QED
  BY <1>7, <1>8, <1>9, <1>10, Zenon DEF VmInv

\* The sweep touches no run, so long as no run executes in what it deletes.
LEMMA SweepStep ==
  ASSUME VmInv, UNCHANGED <<time, born, job>>, sweep' \in Sweeps, SweepRight',
         boxes' \subseteq boxes, ForeignBox \in boxes',
         \A r \in Runs : job[r].at \in {"forked", "exec"} => job[r].box \in boxes'
  PROVE  VmInv'
<1>1. VmTypes' /\ Apart'
  BY Zenon DEF VmInv, VmTypes, Apart, Holds
<1>2. \A r \in Runs : JobRight(job[r])'
  BY Zenon DEF VmInv, JobRight, Holds, BornAfter
<1> QED
  BY <1>1, <1>2, Zenon DEF VmInv

\* The steps of the sweep that delete nothing.
LEMMA SweepReads ==
  ASSUME VmInv, SweepLists \/ SweepAges \/ SweepEnds \/ SweepAgain
  PROVE  VmInv'
<1>0. /\ VmTypes /\ SweepRight /\ UNCHANGED <<time, boxes, born, job>> /\ sweep \in Sweeps
      /\ time \in Nat /\ ReapAge \in Nat /\ ForeignBox \notin Boxes /\ NoDate \notin Nat
      /\ \A b \in boxes : b \in DOMAIN born /\ b \in AnyBox /\ born[b] \in Dates
  BY SandboxAssumption, Zenon DEF VmInv, VmTypes, SweepLists, SweepAges, SweepEnds, SweepAgain
<1>1. sweep' \in Sweeps /\ SweepRight' => VmInv'
  BY <1>0, SweepStep, Zenon DEF VmTypes, VmInv, JobRight
<1>2. CASE SweepLists
  <2> DEFINE list == {[id |-> b, created |-> born[b]] : b \in boxes}
  <2>1. sweep' = [at |-> "listed", list |-> list, now |-> 0, todo |-> {}, reaped |-> {}, failed |-> {}]
    BY <1>2, Zenon DEF SweepLists, SweepIdle
  <2>2. list \in SUBSET [id : AnyBox, created : Dates]
    <3>1. \A b \in boxes : [id |-> b, created |-> born[b]] \in [id : AnyBox, created : Dates]
      BY <1>0, Zenon
    <3> QED
      BY <3>1, Zenon
  <2>3. ASSUME NEW e \in list PROVE e.id \in DOMAIN born /\ e.created = born[e.id]
    <3>1. PICK b \in boxes : e = [id |-> b, created |-> born[b]]
      BY Zenon
    <3>2. e.id = b /\ e.created = born[b]
      BY <3>1, Zenon
    <3> QED
      BY <1>0, <3>2, Zenon
  <2> HIDE DEF list
  <2>4. sweep' \in Sweeps
    BY <2>1, <2>2, Zenon DEF Sweeps
  <2>5. SweepRight'
    <3>1. 0 <= time
      BY <1>0
    <3> QED
      BY <1>0, <2>1, <2>3, <3>1, Zenon DEF SweepRight
  <2> QED
    BY <1>1, <2>4, <2>5, Zenon
<1>3. CASE SweepAges
  <2> DEFINE todo == {e.id : e \in {x \in sweep.list : Reapable(x, time)}}
  <2>1. /\ sweep.at = "listed" /\ sweep.reaped = {}
        /\ sweep' = [sweep EXCEPT !.at = "deleting", !.now = time, !.todo = todo]
    BY <1>0, <1>3, Zenon DEF SweepAges, SweepRight
  <2>2. \A e \in sweep.list : e.id \in AnyBox /\ e.created \in Dates
    BY <1>0, Zenon DEF Sweeps
  <2>3. todo \in SUBSET Boxes
    BY <2>2, Zenon DEF Reapable, AnyBox
  <2>4. \A b \in todo : b \in DOMAIN born /\ born[b] # NoDate /\ born[b] + ReapAge < time
    <3> SUFFICES ASSUME NEW e \in sweep.list, Reapable(e, time)
                 PROVE  e.id \in DOMAIN born /\ born[e.id] # NoDate /\ born[e.id] + ReapAge < time
      BY Zenon
    <3>1. e.id \in DOMAIN born /\ e.created = born[e.id] /\ e.created # NoDate
      BY <1>0, Zenon DEF SweepRight, Reapable
    <3>2. e.created \in Nat /\ time - e.created > ReapAge
      BY <2>2, <3>1, Zenon DEF Dates, Reapable
    <3>3. e.created + ReapAge < time
      BY <1>0, <3>2
    <3> QED
      BY <3>1, <3>3, Zenon
  <2>5. \A e \in sweep.list : Reapable(e, time) => e.id \in todo
    BY Zenon
  <2> HIDE DEF todo
  <2>6. /\ sweep' \in Sweeps /\ sweep'.at = "deleting" /\ sweep'.now = time /\ sweep'.todo = todo
        /\ sweep'.list = sweep.list /\ sweep'.reaped = {} /\ sweep'.failed = sweep.failed
    BY <1>0, <2>1, <2>3, Zenon DEF Sweeps
  <2>7. SweepRight'
    <3>1. time <= time
      BY <1>0
    <3> QED
      BY <1>0, <2>4, <2>5, <2>6, <3>1, Zenon DEF SweepRight, Reapable
  <2> QED
    BY <1>1, <2>6, <2>7, Zenon
<1>4. CASE SweepEnds
  <2>1. /\ sweep.at = "deleting" /\ sweep.todo = {} /\ sweep' = [sweep EXCEPT !.at = "reported"]
    BY <1>4, Zenon DEF SweepEnds
  <2>2. /\ sweep' \in Sweeps /\ sweep'.at = "reported" /\ sweep'.now = sweep.now
        /\ sweep'.todo = {} /\ sweep'.list = sweep.list /\ sweep'.reaped = sweep.reaped
        /\ sweep'.failed = sweep.failed
    BY <1>0, <2>1, Zenon DEF Sweeps
  <2>3. SweepRight'
    BY <1>0, <2>1, <2>2, Zenon DEF SweepRight, Reapable
  <2> QED
    BY <1>1, <2>2, <2>3, Zenon
<1>5. CASE SweepAgain
  <2>1. sweep' = [at |-> "idle", list |-> {}, now |-> 0, todo |-> {}, reaped |-> {}, failed |-> {}]
    BY <1>5, Zenon DEF SweepAgain, SweepIdle
  <2>2. sweep' \in Sweeps
    BY <2>1, Zenon DEF Sweeps
  <2>3. SweepRight'
    <3>1. 0 <= time
      BY <1>0
    <3> QED
      BY <1>0, <2>1, <3>1, Zenon DEF SweepRight
  <2> QED
    BY <1>1, <2>2, <2>3, Zenon
<1> QED
  BY <1>2, <1>3, <1>4, <1>5, Zenon

\* What was born before now - reap_age has no deadline ahead.
LEMMA TooYoung ==
  ASSUME NEW t \in Nat, NEW run \in Nat, NEW age \in Nat, NEW now \in Nat, NEW date \in Nat,
         NEW due \in Nat, age >= 2 * run, now <= t, date + age < now, t <= due,
         due <= date + run \/ due <= date + 2 * run
  PROVE  FALSE
OBVIOUS

\* No run executes in a sandbox on the list of deletions: by its deadlines it would
\* be younger than reap_age.
LEMMA NotInUse ==
  ASSUME VmInv, NEW b \in sweep.todo, NEW r \in Runs, job[r].at \in {"forked", "exec"}
  PROVE  job[r].box # b
<1>0. /\ time \in Nat /\ RunTimeout \in Nat /\ ReapAge \in Nat /\ ReapAge >= 2 * RunTimeout
      /\ NoDate \notin Nat /\ sweep.now \in Nat /\ sweep.now <= time
      /\ b \in DOMAIN born /\ born[b] # NoDate /\ born[b] + ReapAge < sweep.now
      /\ born[b] \in Dates /\ JobRight(job[r]) /\ job[r].due \in Nat
  BY SandboxAssumption, ReapAgeAssumption, Zenon DEF VmInv, VmTypes, SweepRight, Sweeps, Jobs
<1>1. SUFFICES ASSUME job[r].box = b PROVE FALSE
  BY Zenon
<1>2. time <= job[r].due
  BY <1>0, Zenon DEF JobRight
<1>3. job[r].due <= born[b] + RunTimeout \/ job[r].due <= born[b] + 2 * RunTimeout
  BY <1>0, <1>1, Zenon DEF JobRight, BornAfter
<1>4. born[b] \in Nat
  BY <1>0, Zenon DEF Dates
<1> QED
  BY <1>0, <1>2, <1>3, <1>4, TooYoung, Zenon

\* A DELETE of the sweep, answered, failed or answered and lost.
LEMMA DeleteStep == ASSUME VmInv, NEW b \in Boxes, SweepDeletes(b) PROVE VmInv'
<1>0. /\ VmTypes /\ SweepRight /\ UNCHANGED <<time, born, job>> /\ sweep \in Sweeps
      /\ ForeignBox \notin Boxes /\ ForeignBox \in boxes /\ b \in sweep.todo
      /\ sweep.at = "deleting" /\ boxes' \in {boxes, boxes \ {b}}
  BY SandboxAssumption, Zenon DEF VmInv, VmTypes, SweepDeletes
<1>1. \A r \in Runs : job[r].at \in {"forked", "exec"} => job[r].box \in boxes'
  BY <1>0, NotInUse, Zenon DEF VmInv, JobRight
<1>2. /\ sweep'.at = "deleting" /\ sweep'.list = sweep.list /\ sweep'.now = sweep.now
      /\ sweep'.todo = sweep.todo \ {b} /\ sweep' \in Sweeps
      /\ sweep.reaped \subseteq sweep'.reaped /\ sweep.failed \subseteq sweep'.failed
      /\ b \in sweep'.reaped \union sweep'.failed
      /\ sweep'.reaped \subseteq sweep.reaped \union {b}
      /\ b \in sweep'.reaped => b \notin boxes' \/ b \in sweep.reaped
  <2>1. CASE /\ boxes' = boxes \ {b}
             /\ sweep' = [sweep EXCEPT !.todo = @ \ {b}, !.reaped = @ \union {b}]
    BY <1>0, <2>1, Zenon DEF Sweeps
  <2>2. CASE sweep' = [sweep EXCEPT !.todo = @ \ {b}, !.failed = @ \union {b}]
    BY <1>0, <2>2, Zenon DEF Sweeps
  <2> QED
    BY <2>1, <2>2, Zenon DEF SweepDeletes
<1>3. SweepRight'
  <2>1. sweep'.reaped \subseteq DOMAIN born /\ sweep'.reaped \intersect boxes' = {}
    BY <1>0, <1>2, Zenon DEF SweepRight
  <2>2. \A e \in sweep.list : Reapable(e, sweep.now) =>
          e.id \in sweep'.todo \union sweep'.reaped \union sweep'.failed
    BY <1>0, <1>2, Zenon DEF SweepRight
  <2> QED
    BY <1>0, <1>2, <2>1, <2>2, Zenon DEF SweepRight, Reapable
<1> QED
  BY <1>0, <1>1, <1>2, <1>3, SweepStep, Zenon

\* The clock moves on only when no deadline is due.
LEMMA TickStep == ASSUME VmInv, VmTick PROVE VmInv'
<1>0. /\ VmTypes /\ SweepRight /\ Apart /\ time \in Nat /\ time' = time + 1
      /\ UNCHANGED <<boxes, born, job, sweep>> /\ sweep \in Sweeps /\ RunTimeout \in Nat
      /\ \A r \in Runs : job[r] \in Jobs
  BY SandboxAssumption, Zenon DEF VmInv, VmTypes, VmTick
<1>1. VmTypes' /\ Apart'
  BY <1>0 DEF VmTypes, Apart, Holds
<1>2. SweepRight'
  <2>1. sweep.now <= time'
    BY <1>0 DEF SweepRight, Sweeps
  <2> QED
    BY <1>0, <2>1, Zenon DEF SweepRight, Reapable
<1>3. ASSUME NEW r \in Runs PROVE JobRight(job[r])'
  <2>1. /\ JobRight(job[r]) /\ job[r].due \in Nat
        /\ job[r].at \in {"forking", "forked", "exec", "destroy"} => time < job[r].due
    BY <1>0, Zenon DEF VmInv, VmTick, Jobs
  <2>2. /\ job[r].at \in {"forking", "forked", "exec", "destroy"} => time' <= job[r].due
        /\ job[r].at \in {"forking", "forked"} => job[r].due <= time' + RunTimeout
    <3>1. /\ time < job[r].due => time + 1 <= job[r].due
          /\ job[r].due <= time + RunTimeout => job[r].due <= time + 1 + RunTimeout
      BY <1>0, <2>1
    <3> QED
      BY <1>0, <2>1, <3>1, Zenon DEF JobRight
  <2> QED
    BY <1>0, <2>1, <2>2, Zenon DEF JobRight, Holds, BornAfter
<1> QED
  BY <1>1, <1>2, <1>3, Zenon DEF VmInv

\* The inductive invariant of the backend: runs hold sandboxes of their own, none older
\* than its deadlines allow, and the sweep holds only older ones.
THEOREM VmInvariant == VmSpec => []VmInv
<1>1. VmInv /\ [VmNext]_vmVars => VmInv'
  <2> SUFFICES ASSUME VmInv, [VmNext]_vmVars PROVE VmInv'
    BY Zenon
  <2>1. CASE UNCHANGED vmVars
    <3>1. UNCHANGED <<time, boxes, born, job, sweep>>
      BY <2>1, Zenon DEF vmVars
    <3>2. SweepRight' /\ VmTypes'
      BY <3>1, Zenon DEF VmInv, SweepRight, Reapable, VmTypes
    <3>3. Apart' /\ \A r \in Runs : JobRight(job[r])'
      BY <3>1, Zenon DEF VmInv, Apart, JobRight, Holds, BornAfter
    <3> QED
      BY <3>2, <3>3, Zenon DEF VmInv
  <2>2. CASE VmNext
    BY <2>2, RunSteps, ForkStep, SweepReads, DeleteStep, TickStep, Zenon DEF VmNext
  <2> QED
    BY <2>1, <2>2, Zenon
<1> QED
  BY <1>1, VmStarts, PTL DEF VmSpec

\* With reap_age at least twice the run timeout, reconcile never deletes the sandbox of
\* a run that is executing, nor one of another tag; what it reports as reaped is gone,
\* and what it listed as too old and could not delete it reports as failed.
THEOREM SandboxesAreSafe == VmSpec => []SandboxesSafe
<1>1. VmInv => SandboxesSafe
  <2> SUFFICES ASSUME VmInv PROVE SandboxesSafe
    BY Zenon
  <2>1. \A r \in Runs : job[r].at = "exec" => job[r].box \in boxes
    BY Zenon DEF VmInv, JobRight
  <2>2. ForeignBox \in boxes /\ sweep.reaped \intersect boxes = {} /\ ForeignBox \notin Boxes
    BY SandboxAssumption, Zenon DEF VmInv, VmTypes, SweepRight
  <2>3. ASSUME sweep.at = "reported", NEW e \in sweep.list,
               e.id \in Boxes, e.created # NoDate, sweep.now - e.created > ReapAge, e.id \in boxes
        PROVE  e.id \in sweep.failed
    <3>1. Reapable(e, sweep.now)
      BY <2>2, <2>3, Zenon DEF Reapable
    <3> QED
      BY <2>2, <2>3, <3>1, Zenon DEF VmInv, SweepRight
  <2> QED
    BY <2>1, <2>2, <2>3, Zenon DEF SandboxesSafe
<1> QED
  BY <1>1, VmInvariant, PTL

-----------------------------------------------------------------------------
(* The tool pipeline.                                                        *)

Stages == {"nest", "deny", "guards", "rules", "policy", "asking", "invoke", "post", "finalize",
           "done"}

\* What a nested context keeps of the root run's.
SameRules(c, d) ==
  /\ c.permission_mode = d.permission_mode /\ c.policy = d.policy /\ c.handler = d.handler
  /\ c.deny_rules = d.deny_rules /\ c.allow_rules = d.allow_rules
  /\ c.guard_rules = d.guard_rules /\ c.default_guards = d.default_guards
  /\ c.redact_output = d.redact_output /\ c.extra_secrets = d.extra_secrets

\* The guards of the root run before position n that match were approved.
Cleared(n) ==
  \A i \in DOMAIN Guards(root) :
    i < n /\ GuardMatches(Guards(root)[i], judged) => i \in approved

SpokenFor ==
  \/ Allowed(root, judged)
  \/ ModeVerdict(root.permission_mode, Effect(judged.tool)) = "allow"
  \/ /\ ModeVerdict(root.permission_mode, Effect(judged.tool)) = "policy"
     /\ root.policy => policy \in {"allow", "replace", "approved"}

\* How far the authorization of the call is when it is at each stage.
Judged ==
  /\ stage \in {"nest", "deny", "guards", "rules", "policy", "asking"} => ran = Absent
  /\ stage \in {"nest", "deny"} => guard = 1
  /\ stage \in {"deny", "guards", "rules", "policy", "asking"} => judged = call
  /\ stage \in {"guards", "rules", "policy", "asking", "invoke", "post", "finalize"} =>
       ~ Denied(root, judged)
  /\ stage = "guards" => Cleared(guard)
  /\ stage \in {"rules", "policy", "asking", "invoke", "post", "finalize"} =>
       \A i \in DOMAIN Guards(root) :
         GuardMatches(Guards(root)[i], judged) => i \in approved
  /\ stage \in {"policy", "asking"} =>
       root.policy /\ ModeVerdict(root.permission_mode, Effect(judged.tool)) = "policy"
  /\ stage \in {"invoke", "post", "finalize"} =>
       SpokenFor /\ (call # judged => root.policy /\ policy = "replace")
  /\ ran # Absent => ran = call

PipelineInv ==
  /\ stage \in Stages /\ guard \in Nat
  /\ IsContext(root) /\ IsContext(ctx) /\ SameRules(ctx, root)
  /\ IsOutput(output) /\ Judged /\ ToolContract

\* The default guards and a run's own are one sequence.
LEMMA GuardsAreSequence ==
  ASSUME NEW c, IsContext(c) PROVE Guards(c) \in Seq(GuardSet)
<1>1. DestructiveDefaults \in Seq(GuardSet) /\ <<>> \in Seq(GuardSet)
  BY DEF DestructiveDefaults, GuardSet
<1>2. c.guard_rules \in Seq(GuardSet)
  BY Zenon DEF IsContext
<1> QED
  BY <1>1, <1>2 DEF Guards

\* Every way to nest passes the rules of a context on unchanged (context.rs
\* child, agent_as_tool.rs sub-context): a nested agent has neither more nor fewer
\* permissions than the run it serves.
LEMMA NestingKeepsRules ==
  ASSUME NEW c, IsContext(c),
         NEW d \in {HandoffChild(c), SubagentChild(c), SubContext(ToToolContext(c))}
  PROVE  IsContext(d) /\ SameRules(d, c)
<1>1. DOMAIN RunContextNew =
        {"agent_depth", "max_depth", "permission_mode", "policy", "deny_rules", "allow_rules",
         "handler", "guard_rules", "default_guards", "redact_output", "extra_secrets"}
  BY Zenon DEF RunContextNew
<1>2. c = [f \in DOMAIN RunContextNew |-> c[f]] /\ c.guard_rules \in Seq(GuardSet)
  BY Zenon DEF IsContext
<1>3. CASE d = HandoffChild(c) \/ d = SubagentChild(c)
  <2>1. d = [c EXCEPT !.agent_depth = @ + 1]
    BY <1>3, Zenon DEF HandoffChild, SubagentChild
  <2>2. d = [f \in DOMAIN RunContextNew |-> d[f]]
    BY <1>1, <1>2, <2>1, Zenon
  <2>3. SameRules(d, c)
    BY <1>1, <1>2, <2>1, Zenon DEF SameRules
  <2> QED
    BY <1>2, <2>2, <2>3, Zenon DEF IsContext, SameRules
<1>4. CASE d = SubContext(ToToolContext(c))
  <2> DEFINE t == ToToolContext(c)
             n == WithPermissionMode(RunContextNew, t.permission_mode)
  <2>1. SameRules(t, c)
    BY <1>1, <1>2, Zenon DEF ToToolContext, SameRules
  <2>2. n = [RunContextNew EXCEPT !.permission_mode = t.permission_mode]
    BY Zenon DEF WithPermissionMode, RunContextNew
  <2>3. /\ n = [f \in DOMAIN RunContextNew |-> n[f]]
        /\ n.permission_mode = t.permission_mode
    BY <1>1, <2>2, Zenon DEF RunContextNew
  <2>4. d = [n EXCEPT
               !.agent_depth = t.agent_depth + 1, !.deny_rules = t.deny_rules,
               !.allow_rules = t.allow_rules, !.guard_rules = t.guard_rules,
               !.policy = t.policy, !.handler = t.handler,
               !.default_guards = t.default_guards, !.redact_output = t.redact_output,
               !.extra_secrets = t.extra_secrets]
    BY <1>4, Zenon DEF SubContext
  <2> HIDE DEF t, n
  <2>5. d = [f \in DOMAIN RunContextNew |-> d[f]]
    BY <1>1, <2>3, <2>4, Zenon
  <2>6. SameRules(d, t)
    BY <1>1, <2>3, <2>4, Zenon DEF SameRules
  <2> QED
    BY <1>2, <2>1, <2>5, <2>6, Zenon DEF IsContext, SameRules
<1> QED
  BY <1>3, <1>4, Zenon

\* The invariant holds before the first call.
LEMMA PipelineStarts == ToolInit => PipelineInv
<1> SUFFICES ASSUME ToolInit PROVE PipelineInv
  BY Zenon
<1>1. IsContext(root) /\ ctx = root /\ stage = "nest" /\ guard = 1 /\ ran = Absent
  BY RootsAssumption, Zenon DEF ToolInit
<1>2. IsOutput(output)
  <2>1. output = NoOutput /\ {} \subseteq Seq(Field)
    BY Zenon DEF ToolInit
  <2> QED
    BY <2>1 DEF IsOutput, NoOutput
<1> QED
  BY <1>1, <1>2, Zenon
     DEF PipelineInv, Stages, SameRules, Judged, ToolContract, AuthorizedOnly, OutputRedacted

\* A nested run only adds rules: what its calls need, its ancestors allowed.
LEMMA NestStep == PipelineInv /\ Nest => PipelineInv'
<1> SUFFICES ASSUME PipelineInv, Nest PROVE PipelineInv'
  BY Zenon
<1>1. /\ stage = "nest" /\ IsContext(root) /\ IsContext(ctx) /\ SameRules(ctx, root)
      /\ ctx' \in {HandoffChild(ctx), SubagentChild(ctx), SubContext(ToToolContext(ctx))}
      /\ UNCHANGED <<root, driver, call, judged, stage, guard, approved, policy, ran, output, seen>>
  BY Zenon DEF PipelineInv, Nest, Nested
<1>2. IsContext(ctx') /\ SameRules(ctx', ctx)
  BY <1>1, NestingKeepsRules, Zenon
<1>3. IsContext(root') /\ SameRules(ctx', root')
  BY <1>1, <1>2, Zenon DEF SameRules
<1>4. Judged' /\ stage' \in Stages /\ guard' \in Nat /\ IsOutput(output')
  BY <1>1, Zenon DEF PipelineInv, Judged
<1>5. ToolContract'
  BY <1>1, Zenon DEF PipelineInv, Judged, ToolContract, AuthorizedOnly, OutputRedacted
<1> QED
  BY <1>2, <1>3, <1>4, <1>5, Zenon DEF PipelineInv

\* While no tool ran and nothing reached the model there is nothing to break.
LEMMA ContractOfFailure ==
  ran' = Absent /\ (stage' # "done" \/ seen'.ok = FALSE) => ToolContract'
BY Zenon DEF ToolContract, AuthorizedOnly, OutputRedacted

\* A nested context is judged as the root run's would be.
LEMMA RulesAgree ==
  ASSUME NEW c, NEW d, SameRules(c, d), NEW x
  PROVE  /\ Denied(c, x) <=> Denied(d, x)
         /\ Allowed(c, x) <=> Allowed(d, x)
         /\ Guards(c) = Guards(d)
BY Zenon DEF SameRules, Denied, Allowed, Guards

\* The hook before the call and the deny rules settle it or leave every later gate to come.
LEMMA AskSteps == PipelineInv /\ (Ask \/ DenyRules) => PipelineInv'
<1> SUFFICES ASSUME PipelineInv, Ask \/ DenyRules PROVE PipelineInv'
  BY Zenon
<1>1. CASE Ask
  <2>1. /\ stage = "nest" /\ guard = 1 /\ ran = Absent
        /\ UNCHANGED <<root, ctx, driver, guard, approved, policy, ran, output>>
    BY <1>1, Zenon DEF PipelineInv, Judged, Ask
  <2>2. \/ stage' = "done" /\ seen' = [ok |-> FALSE, content |-> NoOutput]
        \/ stage' = "deny" /\ judged' = call'
    BY <1>1, Zenon DEF Ask, ToolFails
  <2>3. ToolContract'
    BY <2>1, <2>2, ContractOfFailure, SMTT(30)
  <2>4. Judged' /\ stage' \in Stages
    BY <2>1, <2>2, Zenon DEF Judged, Stages
  <2> QED
    BY <2>1, <2>3, <2>4, Zenon DEF PipelineInv
<1>2. CASE DenyRules
  <2>1. /\ stage = "deny" /\ guard = 1 /\ ran = Absent /\ judged = call /\ SameRules(ctx, root)
        /\ UNCHANGED <<root, ctx, driver, call, judged, guard, approved, policy, ran, output>>
    BY <1>2, Zenon DEF PipelineInv, Judged, DenyRules
  <2>2. \/ stage' = "done" /\ seen' = [ok |-> FALSE, content |-> NoOutput]
        \/ stage' = "guards" /\ ~ Denied(root, judged)
    BY <1>2, <2>1, RulesAgree, Zenon DEF DenyRules, ToolFails
  <2>3. ToolContract'
    BY <2>1, <2>2, ContractOfFailure
  <2>4. Guards(root) \in Seq(GuardSet)
    BY GuardsAreSequence, Zenon DEF PipelineInv
  <2>5. \A i \in DOMAIN Guards(root) : ~ (i < 1)
    BY <2>4, SMTT(30)
  <2>6. Judged' /\ stage' \in Stages
    BY <2>1, <2>2, <2>5, Zenon DEF Judged, Stages, Cleared
  <2> QED
    BY <2>1, <2>3, <2>6, Zenon DEF PipelineInv
<1> QED
  BY <1>1, <1>2, Zenon

\* A guard that denies settles the call; one that passes leaves the next to ask.
LEMMA GuardStep == PipelineInv /\ GuardRules => PipelineInv'
<1> SUFFICES ASSUME PipelineInv, GuardRules PROVE PipelineInv'
  BY Zenon
<1> DEFINE gs == Guards(root)
<1>1. /\ stage = "guards" /\ guard \in Nat /\ ran = Absent /\ judged = call /\ SameRules(ctx, root)
      /\ ~ Denied(root, judged) /\ Cleared(guard)
      /\ UNCHANGED <<root, ctx, driver, call, judged, policy, ran, output>>
  BY Zenon DEF PipelineInv, Judged, GuardRules
<1>2. gs \in Seq(GuardSet) /\ Guards(ctx) = gs /\ DOMAIN gs = 1 .. Len(gs) /\ Len(gs) \in Nat
  BY <1>1, GuardsAreSequence, RulesAgree DEF PipelineInv
<1> HIDE DEF gs
<1>3. \/ /\ guard > Len(gs) /\ stage' = "rules" /\ UNCHANGED <<seen, guard, approved>>
      \/ /\ guard <= Len(gs) /\ ~ GuardMatches(gs[guard], judged)
         /\ guard' = guard + 1 /\ UNCHANGED <<stage, seen, approved>>
      \/ /\ guard <= Len(gs) /\ approved' = approved \union {guard} /\ guard' = guard + 1
         /\ UNCHANGED <<stage, seen>>
      \/ /\ stage' = "done" /\ seen' = [ok |-> FALSE, content |-> NoOutput]
         /\ UNCHANGED <<guard, approved>>
  BY <1>2, Zenon DEF GuardRules, ToolFails
<1>4. \A i \in 1 .. Len(gs) : i < guard /\ GuardMatches(gs[i], judged) => i \in approved
  BY <1>1, <1>2, Zenon DEF Cleared, gs
<1>5. guard' \in Nat /\ stage' \in Stages
  BY <1>1, <1>3, SMTT(30) DEF Stages
<1>6. ToolContract'
  BY <1>1, <1>3, ContractOfFailure
<1>7. gs' = gs
  BY <1>1, Zenon DEF gs
<1>8. stage' = "guards" =>
        \A i \in 1 .. Len(gs) : i < guard' /\ GuardMatches(gs[i], judged) => i \in approved'
  BY <1>1, <1>2, <1>3, <1>4, SMTT(30)
<1>9. stage' = "rules" =>
        \A i \in 1 .. Len(gs) : GuardMatches(gs[i], judged) => i \in approved'
  BY <1>1, <1>2, <1>3, <1>4
<1>10. stage' \in {"guards", "rules", "done"}
  BY <1>1, <1>3, Zenon
<1>11. Cleared(guard)'
         <=> \A i \in 1 .. Len(gs) : i < guard' /\ GuardMatches(gs[i], judged) => i \in approved'
  BY <1>1, <1>2, <1>7, Zenon DEF Cleared, gs
<1>12. (\A i \in DOMAIN Guards(root) : GuardMatches(Guards(root)[i], judged) => i \in approved)'
         <=> \A i \in 1 .. Len(gs) : GuardMatches(gs[i], judged) => i \in approved'
  BY <1>1, <1>2, <1>7, Zenon DEF gs
<1>13. Judged'
  BY <1>1, <1>8, <1>9, <1>10, <1>11, <1>12, Zenon DEF Judged
<1> QED
  BY <1>1, <1>5, <1>6, <1>13, Zenon DEF PipelineInv

\* The rules and the mode decide, or hand the call on to the policy.
LEMMA RulesStep == PipelineInv /\ RulesAndMode => PipelineInv'
<1> SUFFICES ASSUME PipelineInv, RulesAndMode PROVE PipelineInv'
  BY Zenon
<1>1. /\ stage = "rules" /\ ran = Absent /\ judged = call /\ SameRules(ctx, root)
      /\ UNCHANGED <<root, ctx, driver, call, judged, guard, approved, policy, ran, output>>
  BY Zenon DEF PipelineInv, Judged, RulesAndMode
<1> DEFINE verdict == ModeVerdict(root.permission_mode, Effect(judged.tool))
<1>2. /\ ctx.permission_mode = root.permission_mode /\ ctx.policy = root.policy
      /\ Allowed(ctx, judged) <=> Allowed(root, judged)
  BY <1>1, RulesAgree, Zenon DEF SameRules
<1>3. verdict \in {"allow", "deny", "policy"}
  BY Zenon DEF ModeVerdict
<1>4. \/ stage' = "invoke" /\ (Allowed(root, judged) \/ verdict = "allow")
      \/ stage' = "invoke" /\ verdict = "policy" /\ ~root.policy
      \/ stage' = "policy" /\ verdict = "policy" /\ root.policy
      \/ stage' = "done" /\ seen' = [ok |-> FALSE, content |-> NoOutput]
  <2> HIDE DEF verdict
  <2>1. CASE Allowed(root, judged)
    BY <1>2, <2>1, Zenon DEF RulesAndMode, Permitted, verdict
  <2>2. CASE ~Allowed(root, judged)
    BY <1>2, <1>3, <2>2, Zenon DEF RulesAndMode, Permitted, ToolFails, verdict
  <2> QED
    BY <2>1, <2>2, Zenon
<1>5. ToolContract'
  BY <1>1, <1>4, ContractOfFailure
<1>6. Judged' /\ stage' \in Stages
  <2>1. CASE stage' = "invoke"
    <3>1. SpokenFor'
      BY <1>1, <1>4, <2>1, Zenon DEF SpokenFor
    <3> QED
      BY <1>1, <2>1, <3>1, ZenonT(60) DEF PipelineInv, Judged, Stages
  <2>2. CASE stage' = "policy"
    BY <1>1, <1>4, <2>2, Zenon DEF PipelineInv, Judged, Stages
  <2>3. CASE stage' = "done"
    BY <1>1, <2>3, Zenon DEF Judged, Stages
  <2> QED
    BY <1>4, <2>1, <2>2, <2>3, Zenon
<1> QED
  BY <1>1, <1>5, <1>6, Zenon DEF PipelineInv

\* The policy and the user decide what the rules left open.
LEMMA PolicySteps == PipelineInv /\ (Policy \/ AskUser) => PipelineInv'
<1> SUFFICES ASSUME PipelineInv, Policy \/ AskUser PROVE PipelineInv'
  BY Zenon
<1>1. /\ stage \in {"policy", "asking"} /\ ran = Absent /\ judged = call /\ root.policy
      /\ ModeVerdict(root.permission_mode, Effect(judged.tool)) = "policy"
      /\ UNCHANGED <<root, ctx, driver, judged, guard, approved, ran, output>>
  BY Zenon DEF PipelineInv, Judged, Policy, AskUser
<1>2. \/ stage' = "invoke" /\ policy' \in {"allow", "approved"} /\ call' = call
      \/ stage' = "invoke" /\ policy' = "replace"
      \/ stage' = "asking" /\ call' = call
      \/ stage' = "done" /\ seen' = [ok |-> FALSE, content |-> NoOutput]
  BY Zenon DEF Policy, AskUser, Permitted, ToolFails
<1>3. ToolContract'
  BY <1>1, <1>2, ContractOfFailure, SMTT(30)
<1>4. stage' = "invoke" => SpokenFor'
  BY <1>1, <1>2, Zenon DEF SpokenFor
<1>5. Judged' /\ stage' \in Stages
  BY <1>1, <1>2, <1>4, Zenon DEF PipelineInv, Judged, Stages
<1> QED
  BY <1>1, <1>3, <1>5, Zenon DEF PipelineInv


\* Only an allowed call is invoked, and its result is reported once.
LEMMA InvokeSteps == PipelineInv /\ (ToolInvoked \/ PostToolUse \/ Finalize) => PipelineInv'
<1> SUFFICES ASSUME PipelineInv, ToolInvoked \/ PostToolUse \/ Finalize PROVE PipelineInv'
  BY Zenon
<1>1. /\ stage \in {"invoke", "post", "finalize"} /\ SameRules(ctx, root)
      /\ UNCHANGED <<root, ctx, driver, call, judged, guard, approved, policy>>
      /\ ran' \in {ran, call} /\ (ran = Absent \/ ran = call)
  BY Zenon DEF PipelineInv, Judged, ToolInvoked, PostToolUse, Finalize
<1>2. \/ stage' \in {"post", "finalize"}
      \/ stage' = "done" /\ seen' = [ok |-> FALSE, content |-> NoOutput]
      \/ stage' = "done" /\ seen' = [ok |-> TRUE, content |-> FinalizeToolOutput(output)]
  BY Zenon DEF ToolInvoked, PostToolUse, Finalize, ToolFails
<1>3. OutputRedacted'
  <2> SUFFICES ASSUME stage' = "done", seen'.ok, root.redact_output, NEW line \in seen'.content.text
               PROVE  /\ \A i \in DOMAIN line : line[i].value \notin SecretSet(root.extra_secrets)
                      /\ AssignmentHidden(line)
    BY <1>1, Zenon DEF OutputRedacted
  <2>1. seen'.content = FinalizeToolOutput(output)
    <3>1. seen' # [ok |-> FALSE, content |-> NoOutput]
      BY SMTT(30)
    <3>2. seen' = [ok |-> TRUE, content |-> FinalizeToolOutput(output)]
      BY <1>2, <3>1, Zenon
    <3> QED
      BY <3>2, Zenon
  <2>2. ctx.redact_output /\ ctx.extra_secrets = root.extra_secrets /\ IsOutput(output)
    BY <1>1, Zenon DEF SameRules, PipelineInv
  <2>3. line \in Redact(output, SecretSet(root.extra_secrets)).text
    BY <2>1, <2>2, Zenon DEF FinalizeToolOutput
  <2> QED
    BY <2>2, <2>3, OutputIsRedacted, Zenon
<1>4. AuthorizedOnly'
  BY <1>1, Zenon DEF PipelineInv, Judged, SpokenFor, AuthorizedOnly
<1>5. Judged' /\ stage' \in Stages
  BY <1>1, <1>2, Zenon DEF PipelineInv, Judged, Stages, SpokenFor
<1>6. IsOutput(output')
  <2>1. \A new \in Outputs : \A v \in Fired({new}) : v.kind = "replace" => v.value \in Outputs
    BY HooksReplace, Zenon
  <2>2. output' = output \/ output' \in Outputs
    BY <2>1, Zenon DEF ToolInvoked, PostToolUse, Finalize
  <2> QED
    BY <2>2, OutputsAssumption, Zenon DEF PipelineInv
<1> QED
  BY <1>1, <1>3, <1>4, <1>5, <1>6, Zenon DEF PipelineInv, ToolContract

\* The pipeline keeps its invariant: the context of the call has the rules of the
\* root run however deep it is nested, and each stage knows what was cleared before
\* (agent.rs run_tools_concurrent, context.rs authorize_tool).
THEOREM PipelineInvariant == ToolSpec => []PipelineInv
<1>1. PipelineInv /\ [ToolNext]_toolVars => PipelineInv'
  <2> SUFFICES ASSUME PipelineInv, [ToolNext]_toolVars PROVE PipelineInv'
    BY Zenon
  <2>1. CASE UNCHANGED toolVars
    BY <2>1, Zenon DEF PipelineInv, Judged, Cleared, SpokenFor, ToolContract, AuthorizedOnly,
                OutputRedacted, toolVars
  <2>2. CASE ToolNext
    BY <2>2, NestStep, AskSteps, GuardStep, RulesStep, PolicySteps, InvokeSteps, Zenon DEF ToolNext
  <2> QED
    BY <2>1, <2>2, Zenon
<1> QED
  BY <1>1, PipelineStarts, PTL DEF ToolSpec

\* For every set of rules, guards, calls and hooks, and any depth of nesting, a tool
\* runs only on a call the root run's rules let through.  If the root run asks for
\* redaction, no string of the output that reaches the model holds a value the redactor
\* looks for, and no line with one assignment shows a value under a secret name
\* (context.rs authorize_tool, tool_exec.rs, redaction.rs); shorter values, further
\* assignments of a line and object keys are outside of what it promises.
THEOREM CallsAreAuthorized == ToolSpec => []ToolContract
<1>1. PipelineInv => ToolContract
  BY Zenon DEF PipelineInv
<1> QED
  BY <1>1, PipelineInvariant, PTL

-----------------------------------------------------------------------------
(* Web access.                                                               *)

FetchPlaces == {"new", "over", "vet", "send", "head", "body", "read", "done", "denied", "error"}

FetchStates == [at : FetchPlaces, url : Urls \union {NoUrl}, hops : Nat, body : Nat,
                truncated : BOOLEAN]

WebTypes == uses \in Nat /\ fetch \in [Fetches -> FetchStates]

ReachedAllowed == \A c \in reached : IsHostAllowed(c.host) /\ IsIpAllowed(c.ip)

Counted == {f \in Fetches : fetch[f].at \notin {"idle", "new", "over"}}

UsesExact ==
  /\ IsFiniteSet(Counted) /\ uses = Cardinality(Counted) /\ uses <= MaxUses
  /\ \A f \in Fetches : fetch[f].at = "over" => uses = MaxUses

\* What one call holds: a URL that was vetted before anything is sent to it, a round
\* of the redirect loop that is left, and a body that is not cut while it is read.
FetchRight(req) ==
  /\ req.at \in {"vet", "send", "head"} => req.url \in Urls
  /\ req.at \in {"new", "vet", "send", "head"} =>
       req.body = 0 /\ req.truncated = FALSE /\ req.hops <= MaxRedirects
  /\ req.at = "send" =>
       /\ IsHostAllowed(req.url.host)
       /\ req.url.host \in Literals => IsIpAllowed(req.url.host)
  /\ req.at = "body" => req.truncated = FALSE
  /\ req.at \in {"read", "done"} =>
       /\ req.truncated = TRUE => req.body = MaxBodyBytes
       /\ req.truncated = FALSE => req.body = BodyLength
  /\ req.hops <= MaxRedirects + 1

WebInv == WebTypes /\ ReachedAllowed /\ UsesExact /\ \A f \in Fetches : FetchRight(fetch[f])

\* A step of one call that has taken its use: the use stays taken, and the other
\* calls see nothing of it.
LEMMA CallStep ==
  ASSUME WebInv, NEW f \in Fetches, UNCHANGED <<net, uses>>,
         fetch' = [fetch EXCEPT ![f] = fetch'[f]],
         fetch'[f] \in FetchStates, FetchRight(fetch'[f]),
         fetch[f].at \notin {"new", "over"}, fetch'[f].at \notin {"new", "over"},
         ReachedAllowed'
  PROVE  WebInv'
<1>0. fetch \in [Fetches -> FetchStates] /\ WebTypes /\ UsesExact
  BY Zenon DEF WebInv, WebTypes
<1>1. \A g \in Fetches : fetch'[g] = IF g = f THEN fetch'[f] ELSE fetch[g]
  BY <1>0, Zenon
<1>2. WebTypes'
  BY <1>0, Zenon DEF WebTypes
<1>3. fetch[f].at # "idle" /\ fetch'[f].at # "idle"
  BY <1>0, Zenon DEF FetchStates, FetchPlaces
<1>4. Counted' = Counted
  BY <1>1, <1>3, Zenon DEF Counted
<1>5. UsesExact'
  BY <1>0, <1>1, <1>4, Zenon DEF UsesExact
<1>6. \A g \in Fetches : FetchRight(fetch[g])'
  <2> SUFFICES ASSUME NEW g \in Fetches PROVE FetchRight(fetch[g])'
    BY Zenon
  <2>1. fetch'[g] \in FetchStates /\ FetchRight(fetch'[g])
    BY <1>0, <1>1, Zenon DEF WebInv
  <2> QED
    BY <2>1, Zenon DEF FetchRight, IsHostAllowed, IsIpAllowed, IpBlocked
<1> QED
  BY <1>2, <1>5, <1>6, Zenon DEF WebInv

\* What Vet lets through: an allowed host that is no blocked address.
LEMMA VettedRight ==
  ASSUME WebInv, NEW url \in Urls, NEW resolved \in SUBSET Ips
  PROVE  /\ Vetted(url, resolved) \in {"ok", "denied", "error"}
         /\ Vetted(url, resolved) = "ok" =>
              IsHostAllowed(url.host) /\ (url.host \in Literals => IsIpAllowed(url.host))
<1>1. url.host \in DomainNames \union Literals
  BY Zenon DEF Urls, Hosts
<1>2. CASE net.allow_private_ips
  <2>1. SsrfCheck(url.host, resolved) = "ok"
    BY <1>2, Zenon DEF SsrfCheck
  <2> QED
    BY <1>2, <2>1, Zenon DEF Vetted, IsIpAllowed
<1>3. CASE ~ net.allow_private_ips /\ url.host \in Literals
  <2>1. url.host \notin DomainNames
    BY <1>3, WebAssumption, Zenon
  <2>2. SsrfCheck(url.host, resolved) = IF IpBlocked(url.host) THEN "denied" ELSE "ok"
    BY <1>3, <2>1, Zenon DEF SsrfCheck
  <2> QED
    BY <1>3, <2>2, Zenon DEF Vetted, IsIpAllowed
<1>4. CASE ~ net.allow_private_ips /\ url.host \notin Literals
  <2>1. SsrfCheck(url.host, resolved) = IF \E ip \in resolved : IpBlocked(ip) THEN "denied"
                                        ELSE IF resolved = {} THEN "error" ELSE "ok"
    BY <1>1, <1>4, Zenon DEF SsrfCheck
  <2> QED
    BY <1>4, <2>1, Zenon DEF Vetted
<1> QED
  BY <1>2, <1>3, <1>4, Zenon

\* Only a vetted URL is sent to, and only an allowed address is connected to.
LEMMA WebTalks ==
  ASSUME WebInv, NEW f \in Fetches, Vet(f) \/ Send(f)
  PROVE  WebInv'
<1>0. /\ fetch \in [Fetches -> FetchStates] /\ fetch[f] \in FetchStates /\ FetchRight(fetch[f])
      /\ ReachedAllowed /\ UNCHANGED <<net, uses>> /\ fetch[f].at \in {"vet", "send"}
      /\ fetch[f].url \in Urls
  BY Zenon DEF WebInv, WebTypes, Vet, Send, FetchRight
<1>1. CASE Vet(f)
  <2>1. PICK resolved \in SUBSET Ips :
          fetch' = [fetch EXCEPT ![f].at = IF Vetted(fetch[f].url, resolved) = "ok" THEN "send"
                                           ELSE Vetted(fetch[f].url, resolved)]
    BY <1>1, Zenon DEF Vet, FetchGoes
  <2> DEFINE at == IF Vetted(fetch[f].url, resolved) = "ok" THEN "send"
                   ELSE Vetted(fetch[f].url, resolved)
  <2>2. /\ at \in {"send", "denied", "error"}
        /\ at = "send" => /\ IsHostAllowed(fetch[f].url.host)
                          /\ fetch[f].url.host \in Literals => IsIpAllowed(fetch[f].url.host)
    BY <1>0, VettedRight, Zenon
  <2>3. fetch' = [fetch EXCEPT ![f].at = at]
    BY <2>1, Zenon
  <2> HIDE DEF at
  <2>4. /\ fetch' = [fetch EXCEPT ![f] = fetch'[f]] /\ fetch'[f] = [fetch[f] EXCEPT !.at = at]
    BY <1>0, <2>3, Zenon
  <2>5. fetch'[f] \in FetchStates /\ fetch'[f].at = at
    BY <1>0, <2>2, <2>4, Zenon DEF FetchStates, FetchPlaces
  <2>6. FetchRight(fetch'[f])
    BY <1>0, <1>1, <2>2, <2>4, <2>5, Zenon DEF FetchRight, FetchStates, Vet
  <2>7. ReachedAllowed'
    BY <1>0, <1>1, Zenon DEF ReachedAllowed, IsHostAllowed, IsIpAllowed, IpBlocked, Vet
  <2> QED
    BY <1>0, <1>1, <2>2, <2>4, <2>5, <2>6, <2>7, CallStep, Zenon DEF Vet
<1>2. CASE Send(f)
  <2>1. PICK resolved \in SUBSET Ips :
          LET targets == GuardedResolver(fetch[f].url.host, resolved)
          IN  \/ targets = {} /\ FetchGoes(f, "error") /\ UNCHANGED reached
              \/ \E ip \in targets :
                   /\ reached' = reached \union {[host |-> fetch[f].url.host, ip |-> ip]}
                   /\ \E at \in {"error", "head"} : FetchGoes(f, at)
    BY <1>2, Zenon DEF Send
  <2>2. PICK at \in {"error", "head"} : fetch' = [fetch EXCEPT ![f].at = at]
    BY <2>1, Zenon DEF FetchGoes
  <2>3. /\ IsHostAllowed(fetch[f].url.host)
        /\ \A ip \in GuardedResolver(fetch[f].url.host, resolved) : IsIpAllowed(ip)
    BY <1>0, <1>2, Zenon DEF FetchRight, Send, GuardedResolver
  <2>4. \A c \in reached' : IsHostAllowed(c.host) /\ IsIpAllowed(c.ip)
    BY <1>0, <2>1, <2>3 DEF ReachedAllowed
  <2>5. ReachedAllowed'
    BY <1>0, <2>4, Zenon DEF ReachedAllowed, IsHostAllowed, IsIpAllowed, IpBlocked
  <2>6. /\ fetch' = [fetch EXCEPT ![f] = fetch'[f]] /\ fetch'[f] = [fetch[f] EXCEPT !.at = at]
    BY <1>0, <2>2, Zenon
  <2>7. fetch'[f] \in FetchStates /\ fetch'[f].at = at
    BY <1>0, <2>6, Zenon DEF FetchStates, FetchPlaces
  <2>8. FetchRight(fetch'[f])
    BY <1>0, <1>2, <2>6, <2>7, Zenon DEF FetchRight, FetchStates, Send
  <2> QED
    BY <1>0, <1>2, <2>5, <2>6, <2>7, <2>8, CallStep, Zenon DEF Send
<1> QED
  BY <1>1, <1>2, Zenon

\* A redirect goes back to the check while a round is left; a body ends whole or cut.
LEMMA WebReads ==
  ASSUME WebInv, NEW f \in Fetches,
         Respond(f) \/ BodyChunk(f) \/ ReplyEnds(f) \/ FetchFinishes(f)
  PROVE  WebInv'
<1>0. /\ fetch \in [Fetches -> FetchStates] /\ fetch[f] \in FetchStates /\ FetchRight(fetch[f])
      /\ UNCHANGED <<net, uses, reached>> /\ fetch[f].at \in {"head", "body", "read"}
      /\ MaxRedirects \in Nat /\ MaxBodyBytes \in Nat /\ BodyLength \in Nat
  BY WebAssumption, Zenon DEF WebInv, WebTypes, Respond, BodyChunk, ReplyEnds, FetchFinishes
<1>1. ReachedAllowed'
  BY <1>0, Zenon DEF WebInv, ReachedAllowed, IsHostAllowed, IsIpAllowed, IpBlocked
<1>2. ASSUME fetch' = [fetch EXCEPT ![f] = fetch'[f]], fetch'[f] \in FetchStates,
             FetchRight(fetch'[f]), fetch'[f].at \notin {"new", "over"}
      PROVE  WebInv'
  BY <1>0, <1>1, <1>2, CallStep, Zenon
<1>3. ASSUME NEW at \in {"error", "denied", "body", "read", "done"}, FetchGoes(f, at),
             at = "body" => fetch[f].at = "head", at = "read" => fetch[f].at = "body" /\ fetch[f].body = BodyLength,
             at = "done" => fetch[f].at = "read"
      PROVE  WebInv'
  <2>1. /\ fetch' = [fetch EXCEPT ![f] = fetch'[f]] /\ fetch'[f] = [fetch[f] EXCEPT !.at = at]
    BY <1>0, <1>3, Zenon DEF FetchGoes
  <2>2. fetch'[f] \in FetchStates /\ fetch'[f].at = at
    BY <1>0, <1>3, <2>1, Zenon DEF FetchStates, FetchPlaces
  <2>3. FetchRight(fetch'[f])
    BY <1>0, <1>3, <2>1, <2>2, Zenon DEF FetchRight, FetchStates
  <2> QED
    BY <1>2, <1>3, <2>1, <2>2, <2>3, Zenon
<1>4. CASE Respond(f)
  <2>1. ASSUME NEW url \in Urls, Redirected(f, url) PROVE WebInv'
    <3> DEFINE at == IF fetch[f].hops = MaxRedirects THEN "denied" ELSE "vet"
    <3>1. /\ fetch' = [fetch EXCEPT ![f] = fetch'[f]]
          /\ fetch'[f] = [fetch[f] EXCEPT !.url = url, !.hops = @ + 1, !.at = at]
      BY <1>0, <2>1, Zenon DEF Redirected
    <3>2. at \in {"denied", "vet"} /\ (at = "vet" => fetch[f].hops # MaxRedirects)
      BY Zenon
    <3> HIDE DEF at
    <3>3. /\ fetch'[f] \in FetchStates /\ fetch'[f].at = at /\ fetch'[f].url = url
          /\ fetch'[f].hops = fetch[f].hops + 1 /\ fetch'[f].body = fetch[f].body
          /\ fetch'[f].truncated = fetch[f].truncated
      <4> DEFINE hops == fetch[f].hops + 1
                 body == fetch[f].body
                 cut == fetch[f].truncated
                 made == [at |-> at, url |-> url, hops |-> hops, body |-> body, truncated |-> cut]
      <4>0. fetch[f].hops \in Nat
        BY <1>0, Zenon DEF FetchStates
      <4>1. hops \in Nat /\ at \in FetchPlaces
        BY <3>2, <4>0, Later, Zenon DEF FetchPlaces
      <4>2. fetch'[f] = made
        BY <1>0, <3>1, Zenon DEF FetchStates
      <4>3. body \in Nat /\ cut \in BOOLEAN /\ url \in Urls \union {NoUrl}
        BY <1>0, Zenon DEF FetchStates
      <4> HIDE DEF hops, body, cut
      <4>4. made \in FetchStates
        BY <4>1, <4>3, Zenon DEF FetchStates
      <4>5. /\ made.at = at /\ made.url = url /\ made.hops = hops /\ made.body = body
            /\ made.truncated = cut
        BY Zenon
      <4> HIDE DEF made
      <4> QED
        BY <4>2, <4>4, <4>5, Zenon DEF hops, body, cut
    <3>4. /\ fetch[f].hops \in Nat /\ fetch[f].hops <= MaxRedirects
          /\ fetch[f].body = 0 /\ fetch[f].truncated = FALSE
      BY <1>0, <1>4, Zenon DEF Respond, FetchRight, FetchStates
    <3>5. FetchRight(fetch'[f])
      <4>1. /\ fetch[f].hops + 1 <= MaxRedirects + 1
            /\ fetch[f].hops # MaxRedirects => fetch[f].hops + 1 <= MaxRedirects
        BY <1>0, <3>4
      <4> QED
        BY <3>2, <3>3, <3>4, <4>1, Zenon DEF FetchRight
    <3> QED
      BY <1>2, <3>1, <3>2, <3>3, <3>5, Zenon
  <2> QED
    BY <1>3, <1>4, <2>1, Zenon DEF Respond
<1>5. CASE BodyChunk(f)
  <2>1. PICK n \in 1 .. BodyLength - fetch[f].body :
          fetch' = IF fetch[f].body + n > MaxBodyBytes
                   THEN [fetch EXCEPT ![f].body = MaxBodyBytes, ![f].truncated = TRUE,
                                      ![f].at = "read"]
                   ELSE [fetch EXCEPT ![f].body = @ + n]
    BY <1>5, Zenon DEF BodyChunk
  <2>2. /\ fetch[f].at = "body" /\ fetch[f].truncated = FALSE /\ fetch[f].body \in Nat /\ n \in Nat
        /\ fetch[f].hops <= MaxRedirects + 1
    BY <1>0, <1>5 DEF BodyChunk, FetchRight, FetchStates
  <2>3. CASE fetch[f].body + n > MaxBodyBytes
    <3>1. /\ fetch' = [fetch EXCEPT ![f] = fetch'[f]]
          /\ fetch'[f] = [fetch[f] EXCEPT !.body = MaxBodyBytes, !.truncated = TRUE, !.at = "read"]
      BY <1>0, <2>1, <2>3, Zenon
    <3>2. /\ fetch'[f] \in FetchStates /\ fetch'[f].at = "read" /\ fetch'[f].truncated = TRUE
          /\ fetch'[f].body = MaxBodyBytes /\ fetch'[f].hops = fetch[f].hops
      BY <1>0, <3>1, Zenon DEF FetchStates, FetchPlaces
    <3>3. FetchRight(fetch'[f])
      BY <2>2, <3>2, Zenon DEF FetchRight
    <3> QED
      BY <1>2, <3>1, <3>2, <3>3, Zenon
  <2>4. CASE ~ (fetch[f].body + n > MaxBodyBytes)
    <3>1. /\ fetch' = [fetch EXCEPT ![f] = fetch'[f]]
          /\ fetch'[f] = [fetch[f] EXCEPT !.body = @ + n]
      BY <1>0, <2>1, <2>4, Zenon
    <3>2. /\ fetch'[f] \in FetchStates /\ fetch'[f].at = "body" /\ fetch'[f].truncated = FALSE
          /\ fetch'[f].hops = fetch[f].hops
      BY <1>0, <2>2, <3>1 DEF FetchStates, FetchPlaces
    <3>3. FetchRight(fetch'[f])
      BY <2>2, <3>2, Zenon DEF FetchRight
    <3> QED
      BY <1>2, <3>1, <3>2, <3>3, Zenon
  <2> QED
    BY <2>3, <2>4, Zenon
<1>6. CASE ReplyEnds(f) \/ FetchFinishes(f)
  BY <1>3, <1>6, Zenon DEF ReplyEnds, FetchFinishes
<1> QED
  BY <1>4, <1>5, <1>6, Zenon

\* The proxy connects to allowed hosts at allowed addresses.
LEMMA WebTunnels ==
  ASSUME WebInv, NEW t \in Tunnels, Handle(t) \/ HandleConnect(t) \/ TunnelEnds(t)
  PROVE  WebInv'
<1>1. UNCHANGED <<net, uses, fetch>>
  BY Zenon DEF Handle, HandleConnect, TunnelEnds
<1>2. \A c \in reached' : IsHostAllowed(c.host) /\ IsIpAllowed(c.ip)
  <2>1. CASE UNCHANGED reached
    BY <2>1, Zenon DEF WebInv, ReachedAllowed
  <2>2. CASE ~ UNCHANGED reached
    <3>1. \E host \in Hosts : \E ip : /\ IsHostAllowed(host) /\ IsIpAllowed(ip)
                                      /\ reached' = reached \union {[host |-> host, ip |-> ip]}
      BY <2>2, Zenon DEF Handle, HandleConnect, TunnelEnds
    <3> QED
      BY <3>1 DEF WebInv, ReachedAllowed
  <2> QED
    BY <2>1, <2>2, Zenon
<1>3. ReachedAllowed'
  BY <1>1, <1>2, Zenon DEF ReachedAllowed, IsHostAllowed, IsIpAllowed, IpBlocked
<1>4. (WebTypes /\ UsesExact)'
  BY <1>1, Zenon DEF WebInv, WebTypes, UsesExact, Counted
<1>5. \A f \in Fetches : FetchRight(fetch[f])'
  BY <1>1, Zenon DEF WebInv, FetchRight, IsHostAllowed, IsIpAllowed, IpBlocked
<1> QED
  BY <1>3, <1>4, <1>5, Zenon DEF WebInv

INSTANCE FiniteSetTheorems

\* The invariant holds before the first call.
LEMMA WebStarts == WebInit => WebInv
<1> SUFFICES ASSUME WebInit PROVE WebInv
  BY Zenon
<1>1. /\ uses = 0 /\ reached = {}
      /\ fetch = [f \in Fetches |-> [at |-> "new", url |-> NoUrl, hops |-> 0, body |-> 0,
                                     truncated |-> FALSE]]
  BY Zenon DEF WebInit, WebStart
<1>2. Counted = {}
  BY <1>1, Zenon DEF Counted
<1>3. UsesExact
  <2>1. 0 <= MaxUses
    BY WebAssumption
  <2>2. IsFiniteSet(Counted) /\ Cardinality(Counted) = 0
    BY <1>2, FS_EmptySet, Zenon
  <2>3. \A f \in Fetches : fetch[f].at # "over"
    BY <1>1, Zenon
  <2> QED
    BY <1>1, <2>1, <2>2, <2>3, Zenon DEF UsesExact
<1>4. WebTypes
  BY <1>1, Zenon DEF WebTypes, FetchStates, FetchPlaces
<1>5. \A f \in Fetches : FetchRight(fetch[f])
  BY <1>1, WebAssumption DEF FetchRight
<1> QED
  BY <1>1, <1>3, <1>4, <1>5, Zenon DEF WebInv, ReachedAllowed

\* Taking a use counts the call that took it, or finds all of them taken.
LEMMA UseStep == ASSUME WebInv, NEW f \in Fetches, IncrementIfBelow(f) PROVE WebInv'
<1>0. /\ fetch \in [Fetches -> FetchStates] /\ uses \in Nat /\ UsesExact
      /\ fetch[f] \in FetchStates /\ FetchRight(fetch[f]) /\ MaxUses \in Nat /\ MaxRedirects \in Nat
      /\ fetch[f].at = "new" /\ UNCHANGED <<net, reached>> /\ ReachedAllowed
  BY WebAssumption, Zenon DEF WebInv, WebTypes, IncrementIfBelow
<1>1. /\ fetch' = [fetch EXCEPT ![f] = fetch'[f]] /\ fetch'[f] \in FetchStates
      /\ FetchRight(fetch'[f])
  <2>1. CASE uses < MaxUses
    <3>1. PICK url \in Urls \union {NoUrl} :
            fetch' = [fetch EXCEPT ![f].url = url,
                                   ![f].at = IF url = NoUrl THEN "denied" ELSE "vet"]
      BY <2>1, Zenon DEF IncrementIfBelow
    <3>2. /\ fetch' = [fetch EXCEPT ![f] = fetch'[f]]
          /\ fetch'[f] = [fetch[f] EXCEPT !.url = url,
                                          !.at = IF url = NoUrl THEN "denied" ELSE "vet"]
      BY <1>0, <3>1, Zenon
    <3> DEFINE req == fetch'[f]
    <3>3. /\ req \in FetchStates /\ req.at = (IF url = NoUrl THEN "denied" ELSE "vet")
          /\ req.url = url /\ req.body = fetch[f].body /\ req.truncated = fetch[f].truncated
          /\ req.hops = fetch[f].hops
      BY <1>0, <3>2, Zenon DEF FetchStates, FetchPlaces
    <3> HIDE DEF req
    <3>4. FetchRight(req)
      BY <1>0, <3>3, Zenon DEF FetchRight, FetchStates
    <3> QED
      BY <3>2, <3>3, <3>4, Zenon DEF req
  <2>2. CASE ~ (uses < MaxUses)
    <3>1. fetch' = [fetch EXCEPT ![f].at = "over"]
      BY <2>2, Zenon DEF IncrementIfBelow, FetchGoes
    <3> QED
      BY <1>0, <3>1, Zenon DEF FetchRight, FetchStates, FetchPlaces
  <2> QED
    BY <2>1, <2>2, Zenon
<1>2. \A g \in Fetches : fetch'[g] = IF g = f THEN fetch'[f] ELSE fetch[g]
  BY <1>0, <1>1, Zenon
<1>3. UsesExact' /\ uses' \in Nat
  <2>1. f \notin Counted
    BY <1>0, Zenon DEF Counted
  <2>2. CASE uses < MaxUses
    <3>1. uses' = uses + 1 /\ fetch'[f].at \in {"denied", "vet"}
      BY <1>0, <2>2, Zenon DEF IncrementIfBelow, FetchStates
    <3>2. Counted' = Counted \union {f}
      BY <1>2, <3>1, Zenon DEF Counted
    <3>3. /\ IsFiniteSet(Counted \union {f})
          /\ Cardinality(Counted \union {f}) = Cardinality(Counted) + 1
      BY <1>0, <2>1, FS_AddElement, Zenon DEF UsesExact
    <3>4. \A g \in Fetches : fetch'[g].at # "over"
      <4>1. uses # MaxUses
        BY <1>0, <2>2
      <4>2. fetch'[f].at # "over"
        BY <3>1, Zenon
      <4> QED
        BY <1>0, <1>2, <4>1, <4>2, Zenon DEF UsesExact
    <3>5. uses + 1 <= MaxUses /\ uses + 1 \in Nat
      BY <1>0, <2>2
    <3>6. IsFiniteSet(Counted') /\ Cardinality(Counted') = uses + 1
      BY <1>0, <3>2, <3>3, Zenon DEF UsesExact
    <3> QED
      BY <3>1, <3>4, <3>5, <3>6, Zenon DEF UsesExact
  <2>3. CASE ~ (uses < MaxUses)
    <3>1. uses' = uses /\ fetch'[f].at = "over"
      BY <1>0, <2>3, Zenon DEF IncrementIfBelow, FetchGoes, FetchStates
    <3>2. Counted' = Counted
      BY <1>0, <1>2, <3>1, Zenon DEF Counted
    <3>3. uses = MaxUses
      BY <1>0, <2>3 DEF UsesExact
    <3> QED
      BY <1>0, <3>1, <3>2, <3>3, Zenon DEF UsesExact
  <2> QED
    BY <2>2, <2>3, Zenon
<1>4. \A g \in Fetches : FetchRight(fetch[g])'
  <2> SUFFICES ASSUME NEW g \in Fetches PROVE FetchRight(fetch[g])'
    BY Zenon
  <2>1. FetchRight(fetch'[g])
    BY <1>0, <1>1, <1>2, Zenon DEF WebInv
  <2> QED
    BY <1>0, <2>1, Zenon DEF FetchRight, IsHostAllowed, IsIpAllowed, IpBlocked
<1>5. WebTypes'
  BY <1>0, <1>1, <1>3, Zenon DEF WebTypes
<1>6. ReachedAllowed'
  BY <1>0, Zenon DEF ReachedAllowed, IsHostAllowed, IsIpAllowed, IpBlocked
<1> QED
  BY <1>3, <1>4, <1>5, <1>6, Zenon DEF WebInv

\* The inductive invariant of web access: what is sent was vetted, and the shared
\* counter is the number of calls that got past it.
THEOREM WebInvariant == WebSpec => []WebInv
<1>1. WebInv /\ [WebNext]_webVars => WebInv'
  <2> SUFFICES ASSUME WebInv, [WebNext]_webVars PROVE WebInv'
    BY Zenon
  <2>1. CASE UNCHANGED webVars
    <3>1. UNCHANGED <<net, uses, fetch, reached>>
      BY <2>1, Zenon DEF webVars
    <3>2. (WebTypes /\ UsesExact /\ ReachedAllowed)'
      BY <3>1, Zenon
         DEF WebInv, WebTypes, UsesExact, Counted, ReachedAllowed, IsHostAllowed, IsIpAllowed,
                  IpBlocked
    <3>3. \A f \in Fetches : FetchRight(fetch[f])'
      BY <3>1, Zenon DEF WebInv, FetchRight, IsHostAllowed, IsIpAllowed, IpBlocked
    <3> QED
      BY <3>2, <3>3, Zenon DEF WebInv
  <2>2. CASE WebNext
    BY <2>2, UseStep, WebTalks, WebReads, WebTunnels, Zenon DEF WebNext
  <2> QED
    BY <2>1, <2>2, Zenon
<1> QED
  BY <1>1, WebStarts, PTL DEF WebSpec

\* Whatever redirects a server sends and whatever the name server answers between the
\* check and the connection, WebFetch and the proxy connect to nothing the policy
\* refuses; concurrent calls take exactly max_uses; a body is whole or says it was cut.
THEOREM ThePolicyHolds == WebSpec => []PolicyHolds
<1>1. WebInv => PolicyHolds
  <2> SUFFICES ASSUME WebInv PROVE PolicyHolds
    BY Zenon
  <2>1. \A f \in Fetches : FetchRight(fetch[f]) /\ fetch[f] \in FetchStates
    BY Zenon DEF WebInv, WebTypes
  <2>2. \A f \in Fetches :
          /\ fetch[f].hops <= MaxRedirects + 1
          /\ fetch[f].at = "done" => IF fetch[f].truncated THEN fetch[f].body = MaxBodyBytes
                                     ELSE fetch[f].body = BodyLength
    BY <2>1, Zenon DEF FetchRight, FetchStates
  <2> QED
    BY <2>2, Zenon DEF WebInv, PolicyHolds, ReachedAllowed, UsesExact, Counted
<1> QED
  BY <1>1, WebInvariant, PTL
=============================================================================
