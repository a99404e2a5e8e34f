--------------------------- MODULE MCAutoResearch ---------------------------
(* Short episodes, each with the events that make one part of it hard. *)
EXTENDS AutoResearch

Some(mails, faults, retries, repeats, stops, restarts) ==
    [mails |-> mails, faults |-> faults, retries |-> retries, repeats |-> repeats, stops |-> stops,
     restarts |-> restarts]
With(invocations, commands, events) == 
    [plan |-> [ceiling |-> invocations, commands |-> commands], budget |-> events]
Do(verb, of) == [verb |-> verb, of |-> of]

spawn == Do("spawn", 0)
finish == Do("finish", 0)
Cases == {
    With(2, <<spawn, finish>>, Some(0, 1, 0, 0, 0, 0)),
    With(2, <<spawn>>, Some(1, 0, 0, 0, 0, 0)),
    With(3, <<>>, Some(1, 0, 0, 0, 0, 0)),
    With(2, <<spawn>>, Some(0, 1, 0, 1, 0, 0)),
    With(2, <<spawn>>, Some(0, 0, 0, 0, 1, 1)),
    With(3, <<spawn, Do("inbox", 0), finish>>, Some(0, 0, 0, 0, 0, 0)),
    With(3, <<spawn, spawn, finish>>, Some(0, 0, 0, 0, 0, 0)),
    With(2, <<spawn, Do("pause", 1), Do("resume", 1)>>, Some(0, 0, 0, 0, 1, 0)),
    With(2, <<spawn, Do("stop", 1), finish>>, Some(0, 0, 0, 0, 0, 0)),
    With(1, <<finish>>, Some(0, 1, 1, 0, 0, 0)),
    With(1, <<finish>>, Some(0, 1, 0, 1, 0, 1)),
    With(1, <<Do("stop", 2), Do("inbox", 0)>>, Some(0, 0, 0, 1, 0, 1)),
    With(1, <<>>, Some(0, 1, 1, 0, 1, 0)),
    With(1, <<>>, Some(0, 1, 0, 0, 1, 1)),
    With(1, <<>>, Some(0, 2, 1, 0, 0, 0)) }
=============================================================================
