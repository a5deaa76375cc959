---------------------------- MODULE MCAssembler ----------------------------
(* Envelopes for checking Assembler: a session of a producer that names its
   episode, with a span seen twice at different times, a second span below it and a third,
   and a span that has neither a session nor an id. *)
EXTENDS Assembler

CONSTANTS s1, main

Obs(session, id, span, started) ==
    [session |-> session, id |-> id, span |-> span, parent |-> None,
     parentIdx |-> NoIdx, started |-> started, ended |-> started + 1,
     terminal |-> FALSE]

MCEnvelopes ==
    {Obs(1, 1, 1, 2),
     [Obs(1, 1, 1, 1) EXCEPT !.terminal = TRUE],
     [Obs(1, 1, 2, 2) EXCEPT !.parent = 1, !.parentIdx = 0],
     Obs(1, 1, 3, 1),
     Obs(None, None, None, 1)}

ASSUME ProducersKeepTo == IdsNameSessions /\ FewSpans /\ SightingsAgree
=============================================================================
