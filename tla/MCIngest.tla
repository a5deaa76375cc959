------------------------------ MODULE MCIngest ------------------------------
(* Producers for checking Ingest: a batch of spans of session a and a late span of it over
   OTLP, two episodes the second of which does not convert, two callbacks likewise, one that
   brings the result of a tool, outcomes that validate and that do not, spans of an
   OpenTelemetry collector, and files for cc import and cc outcomes, some with records that
   do not convert.  The source of episodes and outcomes has a rate limit. *)
EXTENDS Ingest

CONSTANTS
    main, bad,
    spans, nspans, more, episodes, hook, toolcall, outs, nouts, host,   \* requests
    nat, lf, ls, px, json, njson, csv,                         \* commands
    p1, p2,                                                    \* producers
    a, b, c, d,                                                \* sessions, also as episode ids
    e1,                                                        \* another episode id
    s1, s2, s3, s5, s6, t1, o1, o2                             \* spans, tools, outcomes

MCEndpoint == (spans :> "spans") @@ (more :> "traces") @@ (episodes :> "episodes")
              @@ (hook :> "hook") @@ (toolcall :> "hook")
              @@ (outs :> "outcomes") @@ (nouts :> "outcomes") @@ (host :> "exporter")
              @@ (nat :> "native") @@ (lf :> "langfuse") @@ (ls :> "langsmith")
              @@ (px :> "phoenix") @@ (json :> "json") @@ (csv :> "csv")
              @@ (nspans :> "spans") @@ (njson :> "json")

MCSource == (spans :> "api") @@ (more :> "otlp") @@ (episodes :> "sdk")
            @@ (hook :> "hook") @@ (toolcall :> "hook")
            @@ (outs :> "sdk") @@ (nouts :> "sdk") @@ (host :> "otelcol")
            @@ (nat :> "sdk") @@ (lf :> "lf") @@ (ls :> "ls") @@ (px :> "px")
            @@ (json :> "sdk") @@ (csv :> "file")
            @@ (nspans :> "api") @@ (njson :> "file")

Step(kind) == [kind |-> kind, tokenSpans |-> {[start |-> 0, end |-> 1]}, idx |-> NoIdx]
Call(session, span, messages) ==
    [session |-> session, span |-> span, messages |-> messages, failed |-> FALSE]
Otel(span) ==
    [trace |-> b, attrs |-> <<>>, convention |-> a, span |-> span, failed |-> FALSE]
Run(session, trace, id, start) ==
    [session |-> session, trace |-> trace, id |-> id, start |-> start, failed |-> FALSE]
Asked == [role |-> "assistant", id |-> t1]
Answer == [role |-> "tool", id |-> t1]
Seen(id, occurred) ==
    [name |-> "ticket", key |-> "k", kind |-> "refund", occurred |-> occurred, id |-> id]

MCBody ==
    (spans :> <<[session |-> a, episode |-> "", span |-> s1, step |-> Step("llm"), err |-> TRUE],
                [session |-> a, episode |-> e1, span |-> s2, step |-> Step(""), err |-> FALSE]>>)
    @@ (more :> <<[trace |-> b, attrs |-> ("session" :> a), convention |-> "", span |-> s3,
                   failed |-> FALSE]>>)
    @@ (episodes :> <<[id |-> b, steps |-> <<Step("llm")>>, err |-> FALSE],
                 [id |-> b, steps |-> <<Step("oops")>>, err |-> FALSE]>>)
    @@ (hook :> <<Call(c, s5, <<>>), Call(c, "", <<>>)>>)
    @@ (toolcall :> <<Call(d, s6, <<Asked, Answer>>)>>)
    @@ (outs :> <<Seen(o1, "noon")>>)
    @@ (nouts :> <<Seen(o2, "noon"), Seen(o2, "")>>)
    @@ (host :> <<Otel(s3), Otel(s5)>>)
    @@ (nat :> <<[id |-> "", steps |-> <<Step("llm")>>, err |-> FALSE],
                 [id |-> b, steps |-> <<Step("llm")>>, err |-> FALSE],
                 [id |-> c, steps |-> <<Step("tool")>>, err |-> FALSE]>>)
    @@ (lf :> <<Run("", a, s1, "noon"), Run("", "", s2, "noon"), Run(c, a, s3, "noon")>>)
    @@ (ls :> <<Run("", a, s1, ""), Run("", "", d, "noon"), Run("", a, s2, "noon")>>)
    @@ (px :> <<[trace |-> "", context |-> [trace |-> a, span |-> s1], span |-> "",
                 start |-> "noon", attrs |-> <<>>, convention |-> "", failed |-> TRUE],
                [trace |-> b, context |-> [trace |-> "", span |-> ""], span |-> s2,
                 start |-> "noon", attrs |-> ("session.id" :> a), convention |-> "",
                 failed |-> FALSE]>>)
    @@ (nspans :> <<[session |-> c, episode |-> c, span |-> s5, step |-> Step("llm"), err |-> FALSE],
                    [session |-> c, episode |-> c, span |-> "", step |-> Step("llm"), err |-> FALSE]>>)
    @@ (json :> <<Seen(o1, "noon"), Seen(o2, "noon"), Seen(o2, "later")>>)
    @@ (njson :> <<Seen(o2, "")>>)
    @@ (csv :> <<Seen(o1, "noon"), Seen(o2, "")>>)

Pairs == {<<spans, more>>, <<more, episodes>>, <<spans, outs>>, <<episodes, outs>>,
          <<more, nouts>>, <<toolcall, hook>>, <<host, nspans>>,
          <<nat, csv>>, <<nat, njson>>, <<lf, hook>>, <<ls, more>>, <<px, outs>>, <<json, spans>>}
MCMixes == {(p1 :> pair[1]) @@ (p2 :> pair[2]) : pair \in Pairs}

MCSessionKeyOrder == <<"session", "trace_id">>

(* At half the rate every session is kept, though span s2 and episode e1 would not be. *)
MCHash == [k \in {a, b, c, d, e1, s1, s2, s3, s5, s6, <<b, 0>>, <<c, 0>>, <<"tool", t1>>} |->
             IF k \in {s2, e1} THEN 1 ELSE 0]

P(id, head, bySource, keepErrors, otherwise, redactor, redactors) ==
    [id |-> id, head |-> head, bySource |-> bySource, keepErrors |-> keepErrors,
     otherwise |-> otherwise, burst |-> 1, redactor |-> redactor, redactors |-> redactors,
     compiles |-> TRUE]

(* One samples out the sessions of sdk at the head, halves those of api and otlp there and
   all others by the tail; one keeps only episodes with an error and cannot redact those of
   sdk; the others cannot be loaded or do not build. *)
MCPolicies ==
    {P(1, 2, ("sdk" :> 0) @@ ("api" :> 1) @@ ("otlp" :> 1), FALSE, 1, "works", <<>>),
     P(2, 2, <<>>, TRUE, 0, "works", "sdk" :> "fails"),
     P(3, 2, <<>>, FALSE, 2, "works", "api" :> "invalid"),
     P(4, 1, <<>>, FALSE, 1, "works", <<>>),
     P(5, 2, "api" :> 3, FALSE, 2, "works", <<>>),
     [P(6, 2, <<>>, FALSE, 2, "works", <<>>) EXCEPT !.burst = 0],
     [P(7, 2, <<>>, TRUE, 2, "works", <<>>) EXCEPT !.compiles = FALSE]}
=============================================================================
