----------------------------- MODULE MCCapacity -----------------------------
(***************************************************************************)
(* Capacity for TLC.  Nodes and tasks are interchangeable.                 *)
(***************************************************************************)
EXTENDS Capacity, TLC

Symmetry == Permutations(Nodes) \cup Permutations(Tasks)

Amount(c, m) == [cpu |-> c, mem |-> m]

MCSizes == {Amount(3, 1)}
MCReservations == {Amount(2, 0)}

\* A service that reserves CPU and is updated one by one, the new task first; one
\* that is updated all at once and held to some nodes; one with a limit per node
\* and no reservation; one with a constraint that is not understood; one that is
\* not replicated.
Plain == [replicas |-> 1, res |-> Amount(1, 0), max |-> 0, fits |-> Labels, opaque |-> "nothing",
          startFirst |-> TRUE, parallelism |-> 1]
MCServices ==
    {Plain,
     [Plain EXCEPT !.replicas = 2, !.res = Amount(1, 1), !.fits = {"a"}, !.parallelism = 0],
     [Plain EXCEPT !.res = Amount(0, 0), !.max = 1, !.fits = {"a"}, !.startFirst = FALSE],
     [Plain EXCEPT !.replicas = 0, !.opaque = "constraint"],
     [Plain EXCEPT !.replicas = None]}
=============================================================================
