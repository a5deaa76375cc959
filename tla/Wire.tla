-------------------------------- MODULE Wire --------------------------------
(***************************************************************************)
(* What producers send and what a source makes of it: whole episodes and   *)
(* single spans of the native API, OTLP spans and callbacks of a gateway,  *)
(* each converted to envelopes, which Service.onEnvelope gets one by one;  *)
(* exports of other systems that cc import reads.                          *)
(*                                                                         *)
(* An envelope is what assembly and sampling look at: its source, session, *)
(* the episode id the producer gave it, span and whether it carries an     *)
(* error of the episode.  "" is a field a producer left empty, and a       *)
(* step_idx it left out is NoIdx.                                          *)
(***************************************************************************)
EXTENDS Integers, Sequences, SequencesExt

CONSTANTS
    Malformed,         \* what stands for a record that cannot be converted
    SessionKeyOrder,   \* assembly.session_key: attributes, or "trace_id"
    Kinds              \* the kinds of a step that NormaliseKind knows

NoIdx == -1

Envelope(src, session, episode, span, err) ==
    [src |-> src, session |-> session, episode |-> episode, span |-> span, err |-> err]

FirstSet(values) == Head(SelectSeq(values, LAMBDA v : v # "") \o <<"">>)

-----------------------------------------------------------------------------
(* The native API. *)

(* Step.toRecord: a kind, if there is one, must be known, and the token spans must not end
   before they start. *)
ToRecord(step) ==
    /\ step.kind \in Kinds \cup {""}
    /\ \A t \in step.tokenSpans : t.end >= t.start

(* All steps of an episode are converted before the first is passed on.  They belong to
   the session the episode id names; a step is recognised by that id and its step_idx,
   by default its place in this request.  Only the last carries the error. *)
ToEnvelopes(src, ep) ==
    LET StepIdx(i) == IF ep.steps[i].idx = NoIdx THEN i - 1 ELSE ep.steps[i].idx
    IN IF ep.id = "" \/ ep.steps = <<>> \/ \E i \in DOMAIN ep.steps : ~ToRecord(ep.steps[i])
       THEN <<Malformed>>
       ELSE [i \in DOMAIN ep.steps |->
               Envelope(src, ep.id, ep.id, <<ep.id, StepIdx(i)>>, ep.err /\ i = Len(ep.steps))]

(* A span needs a session to assemble against and an id to be recognised by; it may name
   its episode. *)
ToEnvelope(src, r) ==
    IF r.session = "" \/ r.span = "" \/ ~ToRecord(r.step) THEN <<Malformed>>
    ELSE <<Envelope(src, r.session, r.episode, r.span, r.err)>>

(* Outcome.Validate *)
Validate(src, o) ==
    IF o.name = "" \/ o.key = "" \/ o.kind = "" \/ o.occurred = "" THEN <<Malformed>>
    ELSE <<Envelope(src, o.key, "", o.id, FALSE)>>

(* ReadOutcomesCSV validates row by row, and the first bad one spoils the file. *)
ReadOutcomesCSV(rows) == \A i \in DOMAIN rows : rows[i] # Malformed

-----------------------------------------------------------------------------
(* OTLP. *)

(* The given order, then the attribute of the convention, then the trace. *)
SessionKey(s, order) ==
    LET tried == [i \in DOMAIN order |->
                    IF order[i] = "trace_id" THEN s.trace
                    ELSE IF order[i] \in DOMAIN s.attrs THEN s.attrs[order[i]]
                    ELSE ""]
    IN FirstSet(tried \o <<s.convention, s.trace>>)

(* A span this build cannot interpret still becomes a step. *)
Normalize(src, s, order) == <<Envelope(src, SessionKey(s, order), "", s.span, s.failed)>>

-----------------------------------------------------------------------------
(* Callbacks. *)

(* A call without a session is an episode of one step; one without an id is refused. *)
MapOne(src, doc) ==
    IF doc.span = "" THEN Malformed
    ELSE Envelope(src, FirstSet(<<doc.session, doc.span>>), "", doc.span, doc.failed)

(* The results of tools in the history of the call that were asked for before, each under
   the id of its tool call, which every later call repeats. *)
ToolSteps(call, messages) ==
    LET Answered(i) == /\ messages[i].role = "tool" /\ messages[i].id # ""
                       /\ \E j \in 1 .. i - 1 : messages[j].role = "assistant"
                                                /\ messages[j].id = messages[i].id
        steps == [i \in DOMAIN messages |->
                    IF Answered(i) THEN <<[call EXCEPT !.span = <<"tool", messages[i].id>>, !.err = FALSE]>>
                    ELSE <<>>]
    IN FlattenSeq(steps)

Map(src, doc) ==
    LET call == MapOne(src, doc)
    IN IF call = Malformed THEN <<Malformed>> ELSE ToolSteps(call, doc.messages) \o <<call>>

-----------------------------------------------------------------------------
(* Exports of other systems, for cc import.  A record that does not convert is skipped
   with a warning.  One without an id is recognised by its content (syntheticSpanID),
   which stands in its field span then. *)

Skip(envelopes) == SelectSeq(envelopes, LAMBDA e : e # Malformed)

(* Episodes of the native format, in one document or one per line. *)
ImportNative(src, ep) == Skip(ToEnvelopes(src, ep))

(* An observation needs a trace or a session, and a time. *)
ImportLangfuse(src, o) ==
    IF FirstSet(<<o.trace, o.session>>) = "" \/ o.start = "" THEN <<>>
    ELSE <<Envelope(src, FirstSet(<<o.session, o.trace>>), "", o.id, o.failed)>>

(* A run without a session and a trace is an episode of one step. *)
ImportLangSmith(src, run) ==
    LET session == FirstSet(<<run.session, run.trace, run.id>>)
    IN IF session = "" \/ run.start = "" THEN <<>>
       ELSE <<Envelope(src, session, "", run.id, run.failed)>>

(* Spans, with their ids in one of two places, normalised as those of OTLP but by an order
   of session keys of its own. *)
PhoenixOrder == <<"session.id", "gen_ai.conversation.id", "trace_id">>

ImportPhoenix(src, ps) ==
    LET trace == FirstSet(<<ps.trace, ps.context.trace>>)
        span == FirstSet(<<ps.span, ps.context.span>>)
    IN IF FirstSet(<<trace, span>>) = "" \/ ps.start = "" THEN <<>>
       ELSE Normalize(src, [trace |-> trace, span |-> span, attrs |-> ps.attrs,
                            convention |-> ps.convention, failed |-> ps.failed], PhoenixOrder)

-----------------------------------------------------------------------------
(* The envelopes of a request for an endpoint, or of the file a command reads, in the
   order in which they are passed on. *)
Convert(endpoint, src, items) ==
    FlattenSeq([i \in DOMAIN items |->
        CASE endpoint = "episodes" -> ToEnvelopes(src, items[i])
          [] endpoint = "spans"    -> ToEnvelope(src, items[i])
          [] endpoint \in {"traces", "exporter"} -> Normalize(src, items[i], SessionKeyOrder)
          [] endpoint = "hook"     -> Map(src, items[i])
          [] endpoint \in {"outcomes", "json", "csv"} -> Validate(src, items[i])
          [] endpoint = "native"    -> ImportNative(src, items[i])
          [] endpoint = "langfuse"  -> ImportLangfuse(src, items[i])
          [] endpoint = "langsmith" -> ImportLangSmith(src, items[i])
          [] endpoint = "phoenix"   -> ImportPhoenix(src, items[i])])
=============================================================================
