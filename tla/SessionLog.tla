----------------------------- MODULE SessionLog ------------------------------
(***************************************************************************)
(* The session event log and the conversation it stands for                 *)
(* (core/src/session.rs, project) and the counting of the compacting wrapper *)
(* (core/src/compacting_session.rs).  A message is its id, and a summary the *)
(* set of the messages it stands for; each counts as one token.             *)
(***************************************************************************)
EXTENDS Integers, FiniteSets, Sequences, SequencesExt

LOCAL INSTANCE FiniteSetsExt

Message(id) == [kind |-> "message", id |-> id]
Handoff(id) == [kind |-> "handoff", id |-> id]
Compacted(covers, count) == [kind |-> "compacted", covers |-> covers, count |-> count]

Pushed(p, ids, summary) ==
  [messages |-> Append(p.messages, [ids |-> ids, summary |-> summary]),
   contributions |-> Append(p.contributions, 1)]

\* A marker undoes the contributions of the last count events and takes their
\* place; a count beyond the log undoes all of it.
Undo(p, count) ==
  LET from == Max({0, Len(p.contributions) - count})
      dropped == Quantify(from + 1 .. Len(p.contributions), LAMBDA i : p.contributions[i] = 1)
  IN [messages |-> SubSeq(p.messages, 1, Len(p.messages) - dropped),
      contributions |-> SubSeq(p.contributions, 1, from)]

\* A handoff yields no message.
ProjectEvent(p, ev) ==
  CASE ev.kind = "message" -> Pushed(p, {ev.id}, FALSE)
    [] ev.kind = "handoff" -> [p EXCEPT !.contributions = Append(@, 0)]
    [] ev.kind = "compacted" -> Pushed(Undo(p, ev.count), ev.covers, TRUE)

Project(events) ==
  FoldLeft(ProjectEvent, [messages |-> <<>>, contributions |-> <<>>], events).messages

Covered(messages) == UNION {messages[i].ids : i \in DOMAIN messages}

\* TokenCounter::count.
Tokens(messages) == Len(messages)

\* A mutant: the last marker itself is not counted.
LiveCount_AfterMarker(events) ==
  Len(events) - SelectLastInSeq(events, LAMBDA ev : ev.kind = "compacted")
\* Events since the last marker, the marker included; all of them if there is none.
LiveCount(events) ==
  LET last == SelectLastInSeq(events, LAMBDA ev : ev.kind = "compacted")
  IN IF last = 0 THEN Len(events) ELSE Len(events) - last + 1

\* Nothing worth collapsing: no message, or one that is a summary already.
Collapsed(messages) ==
  messages = <<>> \/ (Len(messages) = 1 /\ messages[1].summary)
=============================================================================
