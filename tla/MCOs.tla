---------------------------------- MODULE MCOs ----------------------------------
(* Workloads for model checking Os.tla and OsHistory.tla.                  *)
EXTENDS OsHistory

Process(prio, start, size) == [prio |-> prio, start |-> start, size |-> size]

\* every mix of two processes of two priorities, two start times and programs of
\* 0, 1 or 3 instructions
Small == [1..2 -> [prio : {0, 1}, start : {0, 2}, size : {0, 1, 3}]]

\* four processes that compete for two CPUs: on the same and on different levels,
\* all at once and one after the other
Crowded ==
  { <<Process(0, 0, 3), Process(0, 0, 2), Process(0, 0, 3), Process(0, 0, 1)>>,
    <<Process(1, 0, 3), Process(1, 0, 3), Process(0, 1, 2), Process(1, 0, 3)>>,
    <<Process(1, 0, 5), Process(0, 1, 3), Process(0, 1, 1), Process(1, 3, 2)>>,
    <<Process(0, 0, 1), Process(0, 0, 1), Process(0, 1, 1), Process(1, 1, 2)>> }

Mixed == Small \union Crowded

\* the smallest workloads that show the limits of the program
One      == { <<Process(0, 0, 1)>> }
Three    == { <<Process(0, 0, 3), Process(0, 0, 3), Process(0, 0, 3)>> }
Starving == { <<Process(0, 0, 5), Process(1, 0, 1)>> }
================================================================================
