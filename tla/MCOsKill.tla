--------------------------------- MODULE MCOsKill ---------------------------------
(* Workloads for model checking OsKill.tla.                                *)
EXTENDS OsKill

Process(prio, start, size) == [prio |-> prio, start |-> start, size |-> size]

\* killer last, so that it runs after the loader's last add_proc; two processes
\* below, beside or above it that may be waiting, finished or empty by then
Sequential ==
  { <<Process(x, 0, m), Process(y, 0, n), Process(z, s, 3)>> :
      x \in {0, 1}, y \in {0, 1}, z \in {0, 1}, s \in {0, 2}, m \in {0, 3}, n \in {1, 3} }

OthersNamed == SUBSET {1, 2}

\* a killer and others of the same level that are longer than their quantum
Rivals == { <<Process(0, 0, 4), Process(0, 0, 4)>> }
Crowd  == { <<Process(0, 0, 9), Process(0, 0, 9), Process(0, 0, 9), Process(0, 0, 9)>> }
Second == {{2}}
================================================================================
