-------------------------- MODULE MCEngineSessions --------------------------
EXTENDS EngineSessions

\* FMI 2.0, and FMI 3.0 with each capability the session looks at.
MCFmus ==
    {[version |-> 2, events |-> FALSE, early |-> FALSE, structural |-> FALSE]}
    \cup [version : {3}, events : BOOLEAN, early : BOOLEAN, structural : BOOLEAN]

\* An update at the start, an empty one and one two steps later.
MCSchedule ==
    <<[time |-> 0, values |-> TRUE], [time |-> 2, values |-> FALSE],
      [time |-> 4, values |-> TRUE]>>
MCSizes == {0, 1, 2, 3}
=============================================================================
