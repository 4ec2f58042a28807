----------------------------- MODULE MCLevelIndex -----------------------------
EXTENDS LevelIndex, TLC

CONSTANTS f1, f2

Aig(gates, pos) == [pis |-> 2, gates |-> gates, pos |-> pos]

\* Three gates over two inputs, up to symmetry and without gates that
\* hashing would merge; outputs of the last gate, of an input and a gate in
\* between, and of one driver twice.
Wired == {Aig(<<{1, 2}, {1, 3}, y>>, p) :
            y \in {{1, 4}, {2, 3}, {2, 4}, {3, 4}}, p \in {<<5>>, <<1, 4>>, <<5, 5>>}}

\* One directory of two files for the interleavings, and every shape in a
\* directory of its own.
MCCatalogue ==
  {(f1 :> Aig(<<{1, 2}>>, <<3>>)) @@ (f2 :> Aig(<<>>, <<0, 0>>))}
  \cup {f1 :> g : g \in Wired}
===============================================================================
