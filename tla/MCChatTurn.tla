----------------------------- MODULE MCChatTurn -----------------------------
\* Model-checking instances of ChatTurn: one tick is an hour, two are a day and
\* four a month, calendar months have two.  Three turns one after the other
\* across the boundaries with a crash or a failure, or a stream and a plain turn that overlap.
EXTENDS ChatTurn, TLC

CONSTANTS r1, r2, r3

MCSize   == [hour |-> 1, day |-> 2, month |-> 4]
Capped   == {[hour |-> 2, day |-> NoCap, month |-> 3]}
Uncapped == {[k \in Kind |-> NoCap]}
Mixed    == Capped \cup Uncapped

OneByOne(c, f) ==
            [reqs |-> {r1, r2, r3}, json |-> {r1}, serial |-> TRUE, caps |-> Capped,
             clock |-> 2, revokes |-> 0, crashes |-> c, faults |-> f, gone |-> 0]
Together == [reqs |-> {r1, r2}, json |-> {r1, r2}, serial |-> FALSE, caps |-> Mixed,
             clock |-> 1, revokes |-> 1, crashes |-> 0, faults |-> 0, gone |-> 1]
Cut      == [reqs |-> {r2}, json |-> {}, serial |-> TRUE, caps |-> Capped,
             clock |-> 2, revokes |-> 0, crashes |-> 0, faults |-> 0, gone |-> 1]

BothWays == {OneByOne(1, 0), OneByOne(0, 1), Together}
CutShort == {Cut}
=============================================================================
