-------------------------- MODULE MCDataPreparation --------------------------
EXTENDS DataPreparation, TLC

CONSTANTS d, e, x, y, t, u, r

N(algos, form) == [design |-> d, algos |-> algos, id |-> 1, form |-> form]
At(n)          == [dir |-> "clean", name |-> n]
Entry(n)       == [name |-> n, content |-> n]
Graphs(names)  == [p \in {At(n) : n \in names} |-> p.name]

Zip0 == [design |-> d, algos |-> <<>>]
Zip1 == [design |-> d, algos |-> <<x>>]
Zip2 == [design |-> d, algos |-> <<x, y>>]
ZipE == [design |-> e, algos |-> <<>>]  \* another tier0.zip
MCArchives == {Zip0, Zip1, Zip2, ZipE}
Zips(z0, z1, z2, ze) == (Zip0 :> z0) @@ (Zip1 :> z1) @@ (Zip2 :> z2) @@ (ZipE :> ze)

C0 == N(<<>>, "clean")      T0 == N(<<>>, t)
C1 == N(<<x>>, "clean")     T1 == N(<<x>>, t)     U1 == N(<<x>>, u)
E0 == [T0 EXCEPT !.design = e]
C2 == N(<<x, y>>, "clean")  T2 == N(<<x, y>>, t)

Links(i, n) == [artifact |-> n, input |-> At(i)]

\* A data set with a token in every place; one where two names collide; one
\* with graphs still to build; one where the clean graph exists already.
MCInitial ==
  {[zips |-> Zips(<<Entry(T0)>>, <<Entry(T1)>>, <<Entry(T2)>>, <<>>),
    pts  |-> Graphs({T0, T1}),
    csvs |-> r :> <<Links(T1, T2), [artifact |-> T0, input |-> None]>>],
   [zips |-> Zips(<<Entry(C0)>>, <<Entry(T1), Entry(U1)>>, <<Entry(C2)>>, <<>>),
    pts  |-> Graphs({C0, T1, U1}),
    csvs |-> r :> <<Links(U1, C2)>>],
   [zips |-> Zips(<<Entry(C0), Entry(T0)>>, <<Entry(C1), [name |-> C1, content |-> T1]>>, <<>>, <<>>),
    pts  |-> Graphs({}),
    csvs |-> r :> <<Links(C1, None)>>],
   [zips |-> Zips(<<Entry(T0)>>, <<>>, <<>>, <<Entry(E0)>>), pts |-> Graphs({C1, T1}), csvs |-> r :> <<>>]}

MCOptions ==
  {[staged |-> TRUE, overwrite |-> TRUE, failFast |-> TRUE, allowUnmatched |-> TRUE],
   [staged |-> FALSE, overwrite |-> FALSE, failFast |-> FALSE, allowUnmatched |-> FALSE]}
=============================================================================
