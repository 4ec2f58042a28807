------------------------ MODULE DatasetStartup_proofs ------------------------
(* What the manifest and the stored plans guarantee to every process that  *)
(* starts, for any number of processes, any tables, environment changes    *)
(* and kills.  The plan's part rests on what the functions of NodeBudget   *)
(* compute: sums that do not depend on their order, a sort that permutes,  *)
(* a packing that covers.                                                  *)
EXTENDS DatasetStartup, FiniteSetTheorems, WellFoundedInduction, TLAPS

\* Each process's fields are there to be updated.
FieldsInv ==
  /\ DOMAIN pc = Job /\ DOMAIN samples = Job /\ DOMAIN sizes = Job

\* A process between its rebuild and its manifest has every file it names.
FilesInv ==
  /\ ManifestBacked
  /\ \A j \in Job : pc[j] = "write" => ToSet(samples[j]) \subseteq files

IInv == FieldsInv /\ FilesInv /\ SizesAligned

-----------------------------------------------------------------------------
\* One process moves; the others' fields stay.
LEMMA OthersStay ==
  ASSUME FieldsInv, NEW j \in Job, NEW where, Goto(j, where)
  PROVE  /\ DOMAIN pc' = Job /\ pc'[j] = where
         /\ \A i \in Job : i # j => pc'[i] = pc[i]
BY DEF FieldsInv, Goto

\* The steps that touch neither the manifest nor any list or size.
LEMMA QuietStep ==
  ASSUME IInv, NEW j \in Job, NEW where \in {"build", "rebuild"}, Goto(j, where),
         UNCHANGED <<files, manifest, samples, sizes>>
  PROVE  IInv'
<1> USE DEF IInv
<1>1. FieldsInv'
  BY OthersStay DEF FieldsInv
<1>2. FilesInv'
  BY OthersStay DEF FilesInv, ManifestBacked
<1>3. SizesAligned'
  <2> SUFFICES ASSUME NEW i \in Job, pc'[i] \in {"plan", "ready"}
               PROVE  sizes[i] = SizesOf(samples[i])
    BY DEF SizesAligned, SizesOf
  <2>1. i # j /\ pc'[i] = pc[i]
    BY OthersStay
  <2> QED BY <2>1 DEF SizesAligned
<1> QED BY <1>1, <1>2, <1>3

\* The end of a process, with or without part of a rebuild behind it.
LEMMA GoneStep ==
  ASSUME IInv, NEW j \in Job, Gone(j), files \subseteq files', UNCHANGED manifest
  PROVE  IInv'
<1> USE DEF IInv
<1>1. /\ Goto(j, "idle")
      /\ samples' = [samples EXCEPT ![j] = <<>>]
      /\ sizes' = [sizes EXCEPT ![j] = <<>>]
  BY DEF Gone
<1>2. pc'[j] = "idle" /\ DOMAIN pc' = Job /\ \A i \in Job : i # j => pc'[i] = pc[i]
  BY <1>1, OthersStay
<1>3. \A i \in Job : i # j => samples'[i] = samples[i] /\ sizes'[i] = sizes[i]
  BY <1>1 DEF FieldsInv
<1>4. FieldsInv'
  BY <1>1, <1>2 DEF FieldsInv
<1>5. FilesInv'
  <2>1. ManifestBacked'
    BY DEF FilesInv, ManifestBacked
  <2>2. ASSUME NEW i \in Job, pc'[i] = "write" PROVE ToSet(samples'[i]) \subseteq files'
    BY <2>2, <1>2, <1>3 DEF FilesInv
  <2> QED BY <2>1, <2>2 DEF FilesInv
<1>6. SizesAligned'
  <2> SUFFICES ASSUME NEW i \in Job, pc'[i] \in {"plan", "ready"}
               PROVE  sizes'[i] = SizesOf(samples'[i])
    BY DEF SizesAligned, SizesOf
  <2> QED BY <1>2, <1>3 DEF SizesAligned
<1> QED BY <1>4, <1>5, <1>6

\* A list is built: nothing is claimed of it yet.
LEMMA BuildSamplesStep ==
  ASSUME IInv, NEW j \in Job, BuildSamples(j)
  PROVE  IInv'
<1> USE DEF IInv
<1> DEFINE list == SampleList(table, raw, indexed, manifest)
<1>1. /\ Goto(j, "load") /\ samples' = [samples EXCEPT ![j] = list]
      /\ UNCHANGED <<files, manifest, sizes>>
  BY DEF BuildSamples, world, disk
<1> HIDE DEF list
<1>2. pc'[j] = "load" /\ DOMAIN pc' = Job /\ \A i \in Job : i # j => pc'[i] = pc[i]
  BY <1>1, OthersStay
<1>3. \A i \in Job : i # j => samples'[i] = samples[i]
  BY <1>1 DEF FieldsInv
<1>4. FieldsInv'
  BY <1>1, <1>2 DEF FieldsInv
<1>5. FilesInv'
  BY <1>1, <1>2, <1>3 DEF FilesInv, ManifestBacked
<1>6. SizesAligned'
  <2> SUFFICES ASSUME NEW i \in Job, pc'[i] \in {"plan", "ready"}
               PROVE  sizes'[i] = SizesOf(samples'[i])
    BY DEF SizesAligned, SizesOf
  <2> QED BY <1>1, <1>2, <1>3 DEF SizesAligned
<1> QED BY <1>4, <1>5, <1>6

\* The sizes come from the list just written, or from one equal to it.
LEMMA ApplyManifestStep ==
  ASSUME IInv, NEW j \in Job, UseManifest(j) \/ WriteManifest(j)
  PROVE  IInv'
<1> USE DEF IInv
<1>1. /\ Goto(j, "plan") /\ UNCHANGED <<files, samples>>
      /\ sizes' = [sizes EXCEPT ![j] = SizesOf(samples[j])]
  BY DEF UseManifest, WriteManifest, Accepts, world
<1>2. pc'[j] = "plan" /\ DOMAIN pc' = Job /\ \A i \in Job : i # j => pc'[i] = pc[i]
  BY <1>1, OthersStay
<1>3. /\ \A i \in Job : i # j => sizes'[i] = sizes[i]
      /\ sizes'[j] = SizesOf(samples[j])
  BY <1>1 DEF FieldsInv
<1>4. FieldsInv'
  BY <1>1, <1>2 DEF FieldsInv
<1>5. FilesInv'
  <2>1. ManifestBacked'
    <3>1. CASE UseManifest(j)
      BY <3>1 DEF UseManifest, world, disk, FilesInv, ManifestBacked
    <3>2. CASE WriteManifest(j)
      BY <3>2 DEF WriteManifest, world, FilesInv, ManifestBacked
    <3> QED BY <3>1, <3>2
  <2> QED BY <2>1, <1>1, <1>2 DEF FilesInv
<1>6. SizesAligned'
  <2> SUFFICES ASSUME NEW i \in Job, pc'[i] \in {"plan", "ready"}
               PROVE  sizes'[i] = SizesOf(samples'[i])
    BY DEF SizesAligned, SizesOf
  <2> QED BY <1>1, <1>2, <1>3 DEF SizesAligned
<1> QED BY <1>4, <1>5, <1>6

\* The rebuild publishes every file before the manifest may name it.
LEMMA RebuildStep ==
  ASSUME IInv, NEW j \in Job, Rebuild(j)
  PROVE  IInv'
<1> USE DEF IInv
<1>1. /\ Goto(j, "write") /\ files' = files \cup ToSet(samples[j])
      /\ UNCHANGED <<manifest, samples, sizes>>
  BY DEF Rebuild, disk
<1>2. pc'[j] = "write" /\ DOMAIN pc' = Job /\ \A i \in Job : i # j => pc'[i] = pc[i]
  BY <1>1, OthersStay
<1>3. FieldsInv'
  BY <1>1, <1>2 DEF FieldsInv
<1>4. FilesInv'
  BY <1>1, <1>2 DEF FilesInv, ManifestBacked
<1>5. SizesAligned'
  <2> SUFFICES ASSUME NEW i \in Job, pc'[i] \in {"plan", "ready"}
               PROVE  sizes'[i] = SizesOf(samples'[i])
    BY DEF SizesAligned, SizesOf
  <2> QED BY <1>1, <1>2 DEF SizesAligned
<1> QED BY <1>3, <1>4, <1>5

\* The plan is made from sizes that are not touched again.
LEMMA PlanStep ==
  ASSUME IInv, NEW j \in Job, Plan(j)
  PROVE  IInv'
<1> USE DEF IInv
<1>1. /\ pc[j] = "plan" /\ Goto(j, "ready")
      /\ UNCHANGED <<files, manifest, samples, sizes>>
  BY DEF Plan, world
<1>2. pc'[j] = "ready" /\ DOMAIN pc' = Job /\ \A i \in Job : i # j => pc'[i] = pc[i]
  BY <1>1, OthersStay
<1>3. FieldsInv'
  BY <1>1, <1>2 DEF FieldsInv
<1>4. FilesInv'
  BY <1>1, <1>2 DEF FilesInv, ManifestBacked
<1>5. SizesAligned'
  <2> SUFFICES ASSUME NEW i \in Job, pc'[i] \in {"plan", "ready"}
               PROVE  sizes'[i] = SizesOf(samples'[i])
    BY DEF SizesAligned, SizesOf
  <2> QED BY <1>1, <1>2 DEF SizesAligned
<1> QED BY <1>3, <1>4, <1>5

THEOREM Inductive == Spec => []IInv
<1>1. Init => IInv
  BY DEF Init, IInv, FieldsInv, FilesInv, ManifestBacked, SizesAligned
<1>2. IInv /\ [Next]_vars => IInv'
  <2> SUFFICES ASSUME IInv, [Next]_vars PROVE IInv'
    OBVIOUS
  <2>1. ASSUME NEW j \in Job, (\E b \in Budgets : Start(j, b)) \/ RejectManifest(j)
        PROVE  IInv'
    <3>1. /\ Goto(j, "build") \/ Goto(j, "rebuild")
          /\ UNCHANGED <<files, manifest, samples, sizes>>
      BY <2>1 DEF Start, RejectManifest, world, disk
    <3> QED BY <3>1, QuietStep
  <2>2. ASSUME NEW j \in Job, BuildSamples(j) PROVE IInv'
    BY <2>2, BuildSamplesStep
  <2>3. ASSUME NEW j \in Job, UseManifest(j) \/ WriteManifest(j) PROVE IInv'
    BY <2>3, ApplyManifestStep
  <2>4. ASSUME NEW j \in Job, Rebuild(j) PROVE IInv'
    BY <2>4, RebuildStep
  <2>5. ASSUME NEW j \in Job, Plan(j) PROVE IInv'
    BY <2>5, PlanStep
  <2>6. ASSUME NEW j \in Job, Exit(j) \/ Fail(j) \/ Crash(j) PROVE IInv'
    <3>1. Gone(j) /\ files \subseteq files' /\ UNCHANGED manifest
      BY <2>6 DEF Exit, Fail, Crash, world, disk
    <3> QED BY <3>1, GoneStep
  <2>7. CASE UNCHANGED <<files, manifest, pc, samples, sizes>>
    BY <2>7 DEF IInv, FieldsInv, FilesInv, ManifestBacked, SizesAligned, SizesOf
  <2>8. CASE Environment
    BY <2>8, <2>7 DEF Environment, disk, jobvars
  <2>9. CASE UNCHANGED vars
    BY <2>9, <2>7 DEF vars, world, disk, jobvars
  <2> QED BY <2>1, <2>2, <2>3, <2>4, <2>5, <2>6, <2>8, <2>9 DEF Next, Step
<1> QED BY <1>1, <1>2, PTL DEF Spec

\* The node sizes a process plans with are those of its own samples,
\* whoever wrote the manifest they come from (_load_manifest's comparison).
THEOREM SizesAreAligned == Spec => []SizesAligned
BY Inductive, PTL DEF IInv

\* The manifest on disk never names a graph without a cache file, wherever
\* its writers were killed.
THEOREM ManifestIsBacked == Spec => []ManifestBacked
<1>1. IInv => ManifestBacked
  BY DEF IInv, FilesInv
<1> QED BY <1>1, Inductive, PTL

-----------------------------------------------------------------------------
(* Sums over a set                                                         *)

\* A nonempty set of naturals has a least member.
LEMMA LeastNat ==
  ASSUME NEW T \in SUBSET Nat, T # {}
  PROVE  \E x \in T : \A y \in T : x <= y
<1> DEFINE R == OpToRel(<, Nat)
<1>1. IsWellFoundedOn(R, Nat)
  BY NatLessThanWellFounded
<1>2. \A x, y \in Nat : y < x => <<y, x>> \in R
  BY DEF OpToRel
<1> HIDE DEF R
<1>3. PICK x \in T : \A y \in T : ~(<<y, x>> \in R)
  BY <1>1, WFMin
<1>4. ASSUME NEW y \in T PROVE x <= y
  <2>1. x \in Nat /\ y \in Nat /\ ~(y < x)
    BY <1>2, <1>3, Zenon
  <2> QED BY <2>1
<1> QED BY <1>4

\* Induction over the naturals, for a set of them.
LEMMA NatInduct ==
  ASSUME NEW S, 0 \in S, \A n \in Nat : n \in S => n + 1 \in S
  PROVE  \A n \in Nat : n \in S
<1> DEFINE T == Nat \ S
<1> SUFFICES ASSUME T # {} PROVE FALSE
  OBVIOUS
<1>1. PICK x \in T : \A y \in T : x <= y
  <2>1. T \in SUBSET Nat /\ T # {}
    OBVIOUS
  <2> HIDE DEF T
  <2> QED BY <2>1, LeastNat
<1>2. x \in Nat /\ x \notin S /\ x # 0
  OBVIOUS
<1>3. x - 1 \in Nat /\ x - 1 + 1 = x
  BY <1>2
<1>4. x - 1 \in S
  <2>1. ~(x <= x - 1)
    BY <1>2
  <2> QED BY <1>1, <1>3, <2>1
<1> QED BY <1>2, <1>3, <1>4

\* Among subsets of a finite set one contains none of the others.
LEMMA LeastSet ==
  ASSUME NEW U, IsFiniteSet(U), NEW C \in SUBSET SUBSET U, C # {}
  PROVE  \E S \in C : \A T \in C : T \subseteq S => T = S
<1> DEFINE D == {Cardinality(S) : S \in C}
<1>1. \A S \in C : IsFiniteSet(S) /\ Cardinality(S) \in Nat
  BY FS_Subset, FS_CardinalityType
<1>2. D \in SUBSET Nat /\ D # {}
  BY <1>1
<1>3. PICK d \in D : \A e \in D : d <= e
  <2> HIDE DEF D
  <2> QED BY <1>2, LeastNat
<1>4. PICK S \in C : d = Cardinality(S)
  BY <1>3
<1>5. ASSUME NEW T \in C, T \subseteq S PROVE T = S
  <2>1. Cardinality(S) <= Cardinality(T)
    BY <1>3, <1>4
  <2>2. Cardinality(T) <= Cardinality(S) /\ (Cardinality(S) = Cardinality(T) => S = T)
    BY <1>1, <1>5, FS_Subset
  <2> QED BY <1>1, <2>1, <2>2
<1> QED BY <1>5

\* The member a sum takes first.
First(S) == CHOOSE x \in S : TRUE

LEMMA FirstLess ==
  ASSUME NEW S, S # {}
  PROVE  First(S) \in S /\ S \ {First(S)} \subseteq S /\ S \ {First(S)} # S
BY DEF First

\* The equation of the recursive function behind a sum.
Summed(w, f, S) == IF S = {} THEN 0 ELSE w[First(S)] + f[S \ {First(S)}]
Sums(w, f, U) == \A S \in SUBSET U : f[S] = Summed(w, f, S)

LEMMA SumsAgree ==
  ASSUME NEW w, NEW U, IsFiniteSet(U),
         NEW f, Sums(w, f, U), NEW h, Sums(w, h, U)
  PROVE  f[U] = h[U]
<1> DEFINE C == {S \in SUBSET U : f[S] # h[S]}
<1>1. ASSUME C # {} PROVE FALSE
  <2>1. PICK S \in C : \A T \in C : T \subseteq S => T = S
    <3>1. C \in SUBSET SUBSET U
      OBVIOUS
    <3> HIDE DEF C
    <3> QED BY <1>1, <3>1, LeastSet
  <2>2. f[S] = Summed(w, f, S) /\ h[S] = Summed(w, h, S)
    BY DEF Sums
  <2>3. S # {}
    BY <2>2 DEF Summed
  <2>4. S \ {First(S)} \in SUBSET U /\ S \ {First(S)} \notin C
    BY <2>1, <2>3, FirstLess
  <2>5. f[S \ {First(S)}] = h[S \ {First(S)}]
    BY <2>4
  <2> QED BY <2>2, <2>5 DEF Summed
<1> QED BY <1>1

LEMMA NodesUnfold ==
  ASSUME NEW size, NEW U, IsFiniteSet(U)
  PROVE  Nodes(size, U) = IF U = {} THEN 0
                          ELSE size[First(U)] + Nodes(size, U \ {First(U)})
<1> DEFINE Once(S) == IF S = {} THEN 0 ELSE size[First(S)] + Nodes(size, S \ {First(S)})
           C == {S \in SUBSET U : Nodes(size, S) # Once(S)}
<1> SUFFICES C = {}
  OBVIOUS
<1> SUFFICES ASSUME C # {} PROVE FALSE
  OBVIOUS
<1>1. PICK S \in C : \A T \in C : T \subseteq S => T = S
  <2>1. C \in SUBSET SUBSET U
    OBVIOUS
  <2> HIDE DEF C
  <2> QED BY <2>1, LeastSet
<1>2. IsFiniteSet(S)
  BY FS_Subset
<1>3. ASSUME NEW T \in SUBSET S, T # S PROVE Nodes(size, T) = Once(T)
  BY <1>1, <1>3
<1> HIDE DEF C
<1> DEFINE Sol(f) == f = [T \in SUBSET S |-> Summed(size, f, T)]
           A == CHOOSE f : Sol(f)
           h == [T \in SUBSET S |-> Once(T)]
<1>4. Sol(h)
  <2>1. ASSUME NEW T \in SUBSET S PROVE Once(T) = Summed(size, h, T)
    <3>1. CASE T = {}
      BY <3>1 DEF Summed
    <3>2. CASE T # {}
      <4>1. T \ {First(T)} \in SUBSET S /\ T \ {First(T)} # S
        BY <3>2, FirstLess
      <4>2. h[T \ {First(T)}] = Once(T \ {First(T)})
        BY <4>1
      <4>3. h[T \ {First(T)}] = Nodes(size, T \ {First(T)})
        BY <1>3, <4>1, <4>2
      <4> QED BY <3>2, <4>3 DEF Summed
    <3> QED BY <3>1, <3>2
  <2> HIDE DEF Once
  <2> QED BY <2>1
<1>5. Nodes(size, S) = A[S]
  BY DEF Nodes, MapThenSumSet, MapThenFoldSet, Summed, First
<1> HIDE DEF A, Once
<1>6. Sol(A)
  BY <1>4 DEF A
<1>7. A[S] = h[S]
  <2> HIDE DEF h
  <2>1. Sums(size, A, S)
    BY <1>6 DEF Sums
  <2>2. Sums(size, h, S)
    BY <1>4 DEF Sums
  <2> QED BY <1>2, <2>1, <2>2, SumsAgree
<1>8. h[S] = Once(S)
  OBVIOUS
<1> QED BY <1>1, <1>5, <1>7, <1>8 DEF C

\* The nodes of a batch do not depend on the order they are added in.
LEMMA NodesSplit ==
  ASSUME NEW size, NEW U, IsFiniteSet(U), \A x \in U : size[x] \in Nat
  PROVE  /\ Nodes(size, U) \in Nat
         /\ U = {} => Nodes(size, U) = 0
         /\ \A x \in U : Nodes(size, U) = size[x] + Nodes(size, U \ {x})
<1> DEFINE Splits(S) == /\ Nodes(size, S) \in Nat
                        /\ \A x \in S : Nodes(size, S) = size[x] + Nodes(size, S \ {x})
           C == {S \in SUBSET U : ~Splits(S)}
<1>1. U = {} => Nodes(size, U) = 0
  BY NodesUnfold
<1> SUFFICES C = {}
  BY <1>1
<1> SUFFICES ASSUME C # {} PROVE FALSE
  OBVIOUS
<1>2. PICK S \in C : \A T \in C : T \subseteq S => T = S
  <2>1. C \in SUBSET SUBSET U
    OBVIOUS
  <2> HIDE DEF C
  <2> QED BY <2>1, LeastSet
<1>3. ASSUME NEW T \in SUBSET S, T # S PROVE Splits(T)
  BY <1>2, <1>3
<1>4. Nodes(size, S) = IF S = {} THEN 0 ELSE size[First(S)] + Nodes(size, S \ {First(S)})
  BY NodesUnfold, FS_Subset
<1>5. CASE S = {}
  <2>1. Splits(S)
    BY <1>4, <1>5
  <2> QED BY <2>1
<1>6. CASE S # {}
  <2> DEFINE y == First(S)
  <2>1. y \in S
    BY <1>6, FirstLess
  <2> HIDE DEF y
  <2>2. Splits(S \ {y})
    BY <1>3, <2>1
  <2>3. Nodes(size, S) = size[y] + Nodes(size, S \ {y})
    BY <1>4, <1>6 DEF y
  <2>4. ASSUME NEW x \in S PROVE Nodes(size, S) = size[x] + Nodes(size, S \ {x})
    <3>1. CASE x = y
      BY <2>3, <3>1
    <3>2. CASE x # y
      <4>1. Splits(S \ {x})
        BY <1>3
      <4>2. Nodes(size, S \ {y}) = size[x] + Nodes(size, (S \ {y}) \ {x})
        BY <2>2, <3>2
      <4>3. Nodes(size, S \ {x}) = size[y] + Nodes(size, (S \ {x}) \ {y})
        BY <2>1, <3>2, <4>1
      <4>4. (S \ {y}) \ {x} = (S \ {x}) \ {y}
        OBVIOUS
      <4>5. Splits((S \ {x}) \ {y})
        BY <1>3, <2>1
      <4>6. size[x] \in Nat /\ size[y] \in Nat /\ Nodes(size, (S \ {x}) \ {y}) \in Nat
        BY <2>1, <4>5
      <4> HIDE DEF Splits
      <4> QED BY <2>3, <4>2, <4>3, <4>4, <4>6
    <3> QED BY <3>1, <3>2
  <2>5. Nodes(size, S) \in Nat
    BY <2>1, <2>2, <2>3
  <2>6. Splits(S)
    BY <2>4, <2>5
  <2> QED BY <2>6
<1> QED BY <1>5, <1>6

-----------------------------------------------------------------------------
(* Plans that cover every sample once                                      *)

\* The lengths that _normalize_batch_plan adds up.
LEMMA LengthsSum ==
  ASSUME NEW P, IsFiniteSet(P), \A b \in P : Cardinality(b) \in Nat
  PROVE  MapThenSumSet(Cardinality, P) = Nodes([b \in P |-> Cardinality(b)], P)
<1> DEFINE w == [b \in P |-> Cardinality(b)]
           Sol(f) == f = [T \in SUBSET P |->
                            IF T = {} THEN 0
                            ELSE Cardinality(First(T)) + f[T \ {First(T)}]]
           A == CHOOSE f : Sol(f)
           h == [T \in SUBSET P |-> Nodes(w, T)]
<1>1. \A T \in SUBSET P : T # {} => /\ w[First(T)] = Cardinality(First(T))
                                    /\ T \ {First(T)} \in SUBSET P
  BY FirstLess
<1>2. \A T \in SUBSET P : Nodes(w, T) = IF T = {} THEN 0
                                        ELSE w[First(T)] + Nodes(w, T \ {First(T)})
  <2> HIDE DEF w
  <2> QED BY NodesUnfold, FS_Subset
<1>3. MapThenSumSet(Cardinality, P) = A[P]
  BY DEF MapThenSumSet, MapThenFoldSet, First
<1> HIDE DEF A, w
<1>4. Sol(h)
  <2>1. ASSUME NEW T \in SUBSET P
        PROVE  h[T] = IF T = {} THEN 0 ELSE Cardinality(First(T)) + h[T \ {First(T)}]
    BY <1>1, <1>2
  <2> QED BY <2>1
<1>5. Sol(A)
  BY <1>4 DEF A
<1>6. Sums(w, h, P)
  BY <1>2, <1>1 DEF Sums, Summed
<1>7. Sums(w, A, P)
  BY <1>1, <1>5 DEF Sums, Summed
<1>8. A[P] = h[P]
  <2> HIDE DEF h
  <2> QED BY <1>6, <1>7, SumsAgree
<1>9. h[P] = Nodes(w, P)
  OBVIOUS
<1> QED BY <1>3, <1>8, <1>9 DEF w

LEMMA DisjointCount ==
  ASSUME NEW P, IsFiniteSet(P), \A b \in P : IsFiniteSet(b),
         \A b, c \in P : b # c => b \cap c = {}
  PROVE  MapThenSumSet(Cardinality, P) = Cardinality(UNION P)
<1> DEFINE w == [b \in P |-> Cardinality(b)]
           Counted(S) == IsFiniteSet(UNION S) /\ Nodes(w, S) = Cardinality(UNION S)
           C == {S \in SUBSET P : ~Counted(S)}
<1>1. \A b \in P : w[b] = Cardinality(b) /\ w[b] \in Nat
  BY FS_CardinalityType
<1>2. MapThenSumSet(Cardinality, P) = Nodes(w, P)
  BY <1>1, LengthsSum
<1> HIDE DEF w
<1> SUFFICES C = {}
  BY <1>2
<1> SUFFICES ASSUME C # {} PROVE FALSE
  OBVIOUS
<1>3. PICK S \in C : \A T \in C : T \subseteq S => T = S
  <2>1. C \in SUBSET SUBSET P
    OBVIOUS
  <2> HIDE DEF C
  <2> QED BY <2>1, LeastSet
<1>4. S \in SUBSET P /\ IsFiniteSet(S)
  BY FS_Subset
<1>5. CASE S = {}
  <2>1. UNION S = {} /\ Nodes(w, S) = 0
    BY <1>4, <1>5, NodesUnfold
  <2>2. Counted(S)
    BY <2>1, FS_EmptySet
  <2> QED BY <2>2
<1>6. CASE S # {}
  <2>1. PICK b \in S : TRUE
    BY <1>6
  <2>2. Counted(S \ {b})
    <3>1. S \ {b} \subseteq S /\ S \ {b} # S /\ S \ {b} \in SUBSET P
      BY <1>4, <2>1
    <3>2. S \ {b} \notin C
      <4> HIDE DEF C
      <4> QED BY <1>3, <3>1
    <3> HIDE DEF Counted
    <3> QED BY <3>1, <3>2
  <2>3. Nodes(w, S) = w[b] + Nodes(w, S \ {b})
    BY <1>1, <1>4, NodesSplit
  <2>4. UNION S = b \cup UNION (S \ {b}) /\ b \cap UNION (S \ {b}) = {}
    OBVIOUS
  <2>5. IsFiniteSet(b) /\ w[b] = Cardinality(b)
    BY <1>1
  <2> DEFINE V == UNION (S \ {b})
  <2>6. /\ IsFiniteSet(b \cup V)
        /\ Cardinality(b \cup V) = Cardinality(b) + Cardinality(V) - Cardinality(b \cap V)
    BY <2>2, <2>5, FS_Union
  <2>7. Cardinality(b \cap V) = 0
    BY <2>4, FS_EmptySet
  <2>8. Cardinality(b) \in Nat /\ Cardinality(V) \in Nat
    BY <2>2, <2>5, FS_CardinalityType
  <2>9. Nodes(w, S) = Cardinality(b) + Cardinality(V)
    BY <2>2, <2>3, <2>5
  <2> HIDE DEF V
  <2>10. IsFiniteSet(UNION S) /\ Nodes(w, S) = Cardinality(UNION S)
    <3>1. UNION S = b \cup V
      BY <2>4 DEF V
    <3>2. Cardinality(b \cup V) = Cardinality(b) + Cardinality(V)
      BY <2>6, <2>7, <2>8
    <3> QED BY <2>6, <2>9, <3>1, <3>2
  <2> QED BY <2>10
<1> QED BY <1>5, <1>6

\* A plan that covers the samples of some process once has as many entries
\* as that process has samples.
LEMMA CoverCounts ==
  ASSUME NEW n \in Nat, NEW P, CoversOnce(P, n)
  PROVE  MapThenSumSet(Cardinality, P) = n
<1>1. UNION P = 1..n /\ \A b, c \in P : b # c => b \cap c = {}
  BY DEF CoversOnce
<1>2. IsFiniteSet(1..n) /\ Cardinality(1..n) = n
  BY FS_Interval
<1>3. \A b \in P : IsFiniteSet(b)
  BY <1>1, <1>2, FS_Subset
<1>4. IsFiniteSet(P)
  <2>1. P \in SUBSET SUBSET (1..n)
    BY <1>1
  <2> QED BY <1>2, <2>1, FS_SUBSET, FS_Subset
<1> QED BY <1>1, <1>2, <1>3, <1>4, DisjointCount

-----------------------------------------------------------------------------
(* The order of the pool                                                   *)

\* A nonempty set of numbers up to n has a greatest member, which Max is.
LEMMA MaxOfNats ==
  ASSUME NEW n \in Nat, NEW T \in SUBSET (0..n), T # {}
  PROVE  Max(T) \in T /\ \A y \in T : y <= Max(T)
<1> DEFINE D == {n - y : y \in T}
<1>1. D \in SUBSET Nat /\ D # {}
  <2>1. \A y \in T : n - y \in Nat
    OBVIOUS
  <2> QED BY <2>1
<1>2. PICK d \in D : \A e \in D : d <= e
  <2> HIDE DEF D
  <2> QED BY <1>1, LeastNat
<1>3. PICK x \in T : d = n - x
  BY <1>2
<1>4. \A y \in T : x >= y
  <2> TAKE y \in T
  <2>1. n - x <= n - y
    BY <1>2, <1>3
  <2> QED BY <2>1
<1>5. \E z \in T : \A y \in T : z >= y
  BY <1>4
<1>6. Max(T) \in T /\ \A y \in T : Max(T) >= y
  BY <1>5 DEF Max
<1> QED BY <1>6

\* The stable order of the sort, and the place of an index in it.
Before(size, i, j) == size[i] < size[j] \/ (size[i] = size[j] /\ i < j)
Ahead(size, i) == {j \in DOMAIN size : Before(size, j, i)}

LEMMA RanksDiffer ==
  ASSUME NEW n \in Nat, NEW size, DOMAIN size = 1..n, \A i \in 1..n : size[i] \in Nat
  PROVE  /\ \A i \in 1..n : Cardinality(Ahead(size, i)) \in 0..n - 1
         /\ \A i, j \in 1..n : Cardinality(Ahead(size, i)) = Cardinality(Ahead(size, j)) => i = j
<1>1. IsFiniteSet(1..n) /\ Cardinality(1..n) = n
  BY FS_Interval
<1>2. \A i \in 1..n : Ahead(size, i) \in SUBSET (1..n)
  BY DEF Ahead
<1>3. \A i \in 1..n : /\ IsFiniteSet(Ahead(size, i))
                      /\ Cardinality(Ahead(size, i)) \in Nat
  BY <1>1, <1>2, FS_Subset, FS_CardinalityType
<1>4. ASSUME NEW i \in 1..n PROVE Cardinality(Ahead(size, i)) \in 0..n - 1
  <2>1. Ahead(size, i) \in SUBSET ((1..n) \ {i})
    BY DEF Ahead, Before
  <2>2. IsFiniteSet((1..n) \ {i}) /\ Cardinality((1..n) \ {i}) = n - 1
    BY <1>1, FS_RemoveElement
  <2>3. Cardinality(Ahead(size, i)) <= n - 1
    BY <2>1, <2>2, FS_Subset
  <2> QED BY <1>3, <2>3
<1>5. ASSUME NEW i \in 1..n, NEW j \in 1..n, Before(size, i, j)
      PROVE  Cardinality(Ahead(size, i)) # Cardinality(Ahead(size, j))
  <2>1. Ahead(size, i) \in SUBSET Ahead(size, j)
    BY <1>5 DEF Ahead, Before
  <2>2. i \in Ahead(size, j) /\ i \notin Ahead(size, i)
    BY <1>5 DEF Ahead, Before
  <2>3. Ahead(size, i) # Ahead(size, j)
    BY <2>2
  <2> QED BY <1>3, <2>1, <2>3, FS_Subset
<1>6. ASSUME NEW i \in 1..n, NEW j \in 1..n, i # j
      PROVE  Before(size, i, j) \/ Before(size, j, i)
  BY <1>6 DEF Before
<1> QED BY <1>4, <1>5, <1>6

\* A run of the order.
Run(order, from, to) == {order[m] : m \in from..to}

\* Every index has one place in the sorted order.
LEMMA OrderPermutes ==
  ASSUME NEW n \in Nat, NEW size, DOMAIN size = 1..n, \A i \in 1..n : size[i] \in Nat
  PROVE  /\ \A k \in 1..n : SortedIndices(size)[k] \in 1..n
         /\ \A k \in 1..n : Cardinality(Ahead(size, SortedIndices(size)[k])) = k - 1
         /\ \A k, l \in 1..n : SortedIndices(size)[k] = SortedIndices(size)[l] => k = l
         /\ Run(SortedIndices(size), 1, n) = 1..n
<1> DEFINE order == SortedIndices(size)
           rank == [i \in 1..n |-> Cardinality(Ahead(size, i))]
<1>1. rank \in Injection(1..n, 0..n - 1)
  BY RanksDiffer DEF Injection, IsInjective
<1>2. rank \in Surjection(1..n, 0..n - 1)
  <2>1. IsFiniteSet(0..n - 1) /\ Cardinality(0..n - 1) = n /\ Cardinality(1..n) = n
    <3>1. IsFiniteSet(0..n - 1) /\ Cardinality(0..n - 1) = n
      <4> DEFINE b == n - 1
      <4>1. b \in Int /\ (0 > b => n = 0) /\ b - 0 + 1 = n
        OBVIOUS
      <4> HIDE DEF b
      <4>2. IsFiniteSet(0..b)
        BY <4>1, FS_Interval
      <4>3. Cardinality(0..b) = n
        BY <4>1, FS_Interval
      <4> QED BY <4>2, <4>3 DEF b
    <3>2. Cardinality(1..n) = n
      BY FS_Interval
    <3> QED BY <3>1, <3>2
  <2> HIDE DEF rank
  <2> QED BY <1>1, <2>1, FS_Injection
<1>3. ASSUME NEW k \in 1..n
      PROVE  /\ order[k] \in 1..n
             /\ Cardinality(Ahead(size, order[k])) = k - 1
  <2>1. PICK i \in 1..n : rank[i] = k - 1
    <3> HIDE DEF rank
    <3>1. k - 1 \in 0..n - 1
      OBVIOUS
    <3> QED BY <1>2, <3>1 DEF Surjection
  <2>2. Cardinality(Ahead(size, i)) = k - 1
    BY <2>1
  <2>3. order[k] = CHOOSE j \in 1..n : Cardinality(Ahead(size, j)) = k - 1
    BY DEF SortedIndices, Ahead, Before
  <2> HIDE DEF order
  <2> QED BY <2>2, <2>3
<1>4. ASSUME NEW i \in 1..n PROVE \E k \in 1..n : order[k] = i
  <2> DEFINE k == Cardinality(Ahead(size, i)) + 1
  <2>1. k \in 1..n
    BY RanksDiffer
  <2>2. Cardinality(Ahead(size, order[k])) = Cardinality(Ahead(size, i)) /\ order[k] \in 1..n
    <3>1. k - 1 = Cardinality(Ahead(size, i))
      BY RanksDiffer
    <3> HIDE DEF k, order
    <3> QED BY <1>3, <2>1, <3>1
  <2>3. order[k] = i
    <3> HIDE DEF k, order
    <3> QED BY <2>1, <2>2, RanksDiffer
  <2> QED BY <2>1, <2>3
<1>5. ASSUME NEW k \in 1..n, NEW l \in 1..n, order[k] = order[l] PROVE k = l
  <2>1. k - 1 = l - 1
    BY <1>3, <1>5
  <2> QED BY <2>1
<1>6. Run(order, 1, n) = 1..n
  <2> HIDE DEF order
  <2> QED BY <1>3, <1>4 DEF Run
<1> QED BY <1>3, <1>5, <1>6

-----------------------------------------------------------------------------
(* What build_batch_plan packs                                             *)

\* A batch that begins with position hi of the order, and its small end.
LastOf(size, order, lo, hi, limit) ==
  Fits(size, order, lo, hi - 1, size[order[hi]], Max({1, limit}))
BatchOf(order, lo, hi, last) == {order[hi]} \cup Run(order, lo, last)

LEMMA FitsSound ==
  ASSUME NEW size, NEW order, NEW from \in Nat \ {0}, NEW to \in Nat, from <= to + 1,
         NEW total, NEW limit
  PROVE  LET last == Fits(size, order, from, to, total, limit)
         IN  /\ last \in from - 1..to
             /\ \/ last = from - 1
                \/ total + Nodes(size, Run(order, from, last)) <= limit
             /\ \A k \in from..to :
                  total + Nodes(size, Run(order, from, k)) <= limit => k <= last
<1> DEFINE load(k) == total + Nodes(size, Run(order, from, k))
           T == {from - 1} \cup {k \in from..to : load(k) <= limit}
<1>1. Fits(size, order, from, to, total, limit) = Max(T)
  BY DEF Fits, Run
<1>2. T \in SUBSET (0..to) /\ T # {}
  OBVIOUS
<1>3. Max(T) \in T /\ \A y \in T : y <= Max(T)
  <2> HIDE DEF T
  <2> QED BY <1>2, MaxOfNats
<1> DEFINE last == Max(T)
<1>4. last \in T /\ \A y \in T : y <= last
  BY <1>3
<1> HIDE DEF last, load
<1>5. last \in from - 1..to /\ (last = from - 1 \/ load(last) <= limit)
  BY <1>4
<1>6. \A k \in from..to : load(k) <= limit => k <= last
  BY <1>4
<1> QED BY <1>1, <1>5, <1>6 DEF last, load

\* One row of the recursion, from the row before it.
RowFrom(size, order, n, limit, prev, hi) ==
  [lo \in 1..(n + 1) |->
     IF lo > hi THEN {}
     ELSE {BatchOf(order, lo, hi, LastOf(size, order, lo, hi, limit))}
            \cup prev[LastOf(size, order, lo, hi, limit) + 1]]

LEMMA PackUnfolds ==
  ASSUME NEW size, NEW n \in Nat, Len(size) = n, NEW limit
  PROVE  \E p : /\ BuildBatchPlan(size, limit) = p[n][1]
                /\ \A hi \in 0..n :
                     p[hi] = RowFrom(size, SortedIndices(size), n, limit, p[hi - 1], hi)
<1> DEFINE order == SortedIndices(size)
           Row(prev, hi) == RowFrom(size, order, n, limit, prev, hi)
           Upto(k, f) == f = [hi \in 0..k |-> Row(f[hi - 1], hi)]
           S == {k \in Nat : \E f : Upto(k, f)}
<1>1. \A f, h : Row(f, 0) = Row(h, 0)
  <2>1. \A lo \in 1..n + 1 : lo > 0
    OBVIOUS
  <2> QED BY <2>1 DEF RowFrom
<1>2. 0 \in S
  <2> HIDE DEF Row
  <2> DEFINE h == [hi \in 0..0 |-> Row(<<>>, 0)]
  <2>1. \A hi \in 0..0 : h[hi] = Row(h[hi - 1], hi)
    BY <1>1
  <2>2. h = [hi \in 0..0 |-> Row(h[hi - 1], hi)]
    BY <2>1
  <2> QED BY <2>2
<1>3. ASSUME NEW k \in Nat, k \in S PROVE k + 1 \in S
  <2> HIDE DEF Row
  <2>1. PICK f : Upto(k, f)
    BY <1>3
  <2> DEFINE h == [hi \in 0..k + 1 |-> IF hi = k + 1 THEN Row(f[k], k + 1) ELSE f[hi]]
  <2>2. ASSUME NEW hi \in 0..k + 1 PROVE h[hi] = Row(h[hi - 1], hi)
    <3>1. CASE hi = 0
      <4>1. h[0] = f[0] /\ f[0] = Row(f[0 - 1], 0)
        BY <2>1
      <4> QED BY <1>1, <3>1, <4>1
    <3>2. CASE hi \in 1..k
      <4>1. h[hi] = f[hi] /\ h[hi - 1] = f[hi - 1] /\ f[hi] = Row(f[hi - 1], hi)
        BY <2>1, <3>2
      <4> QED BY <4>1
    <3>3. CASE hi = k + 1
      <4>1. hi - 1 = k /\ h[k] = f[k] /\ h[k + 1] = Row(f[k], k + 1)
        BY <3>3
      <4> QED BY <3>3, <4>1
    <3> QED BY <3>1, <3>2, <3>3
  <2>3. h = [hi \in 0..k + 1 |-> Row(h[hi - 1], hi)]
    BY <2>2
  <2>4. k + 1 \in Nat
    OBVIOUS
  <2> HIDE DEF h
  <2>5. Upto(k + 1, h)
    BY <2>3
  <2> QED BY <2>4, <2>5
<1>4. n \in S
  <2> HIDE DEF S
  <2> QED BY <1>2, <1>3, NatInduct
<1> DEFINE A == CHOOSE f : Upto(n, f)
<1>5. Upto(n, A)
  BY <1>4
<1>6. BuildBatchPlan(size, limit) = A[n][1]
  BY DEF BuildBatchPlan, RowFrom, BatchOf, LastOf, Run
<1> HIDE DEF A, Row
<1>7. \A hi \in 0..n : A[hi] = Row(A[hi - 1], hi)
  BY <1>5
<1> QED BY <1>6, <1>7 DEF Row

\* Batches that are apart, within the budget, and hold these samples.
Packs(P, ids, size, limit) ==
  /\ UNION P = ids
  /\ \A b, c \in P : b # c => b \cap c = {}
  /\ \A b \in P : WithinBudget(size, b, limit)

LEMMA ClampedBudget ==
  ASSUME NEW limit \in Nat \ {0}
  PROVE  Max({1, limit}) = limit
<1>1. {1, limit} \in SUBSET (0..limit) /\ {1, limit} # {}
  OBVIOUS
<1>2. Max({1, limit}) \in {1, limit} /\ \A y \in {1, limit} : y <= Max({1, limit})
  BY <1>1, MaxOfNats
<1> QED BY <1>2

LEMMA RowPacks ==
  ASSUME NEW n \in Nat, NEW size, DOMAIN size = 1..n, \A i \in 1..n : size[i] \in Nat,
         NEW limit,
         NEW order, \A k \in 1..n : order[k] \in 1..n,
         \A k, l \in 1..n : order[k] = order[l] => k = l,
         NEW lo \in 1..n, NEW hi \in lo..n, NEW last \in lo - 1..hi - 1,
         last = lo - 1 \/ size[order[hi]] + Nodes(size, Run(order, lo, last)) <= limit,
         NEW Rest, Packs(Rest, Run(order, last + 1, hi - 1), size, limit)
  PROVE  Packs({BatchOf(order, lo, hi, last)} \cup Rest, Run(order, lo, hi), size, limit)
<1> DEFINE B == BatchOf(order, lo, hi, last)
           small == Run(order, lo, last)
           later == Run(order, last + 1, hi - 1)
<1>1. lo \in Nat \ {0} /\ hi \in Nat /\ hi - 1 \in Nat /\ hi \in 1..n
        /\ last \in Int /\ last + 1 \in lo..hi
  OBVIOUS
<1>5. B = {order[hi]} \cup small /\ order[hi] \notin small /\ B \subseteq 1..n
  <2>1. \A m \in lo..last : m \in 1..n /\ m # hi
    BY <1>1
  <2>2. \A x \in small : x \in 1..n /\ x # order[hi]
    BY <1>1, <2>1 DEF Run
  <2> QED BY <1>1, <2>2 DEF BatchOf
<1>6. WithinBudget(size, B, limit)
  <2>1. CASE last = lo - 1
    <3>1. small = {}
      BY <1>1, <2>1 DEF Run
    <3>2. B = {order[hi]}
      BY <1>5, <3>1
    <3>3. Cardinality(B) = 1
      <4> HIDE DEF B
      <4> QED BY <3>2, FS_Singleton
    <3> QED BY <3>3 DEF WithinBudget
  <2>2. CASE last # lo - 1
    <3>1. IsFiniteSet(B) /\ \A x \in B : size[x] \in Nat
      <4>1. IsFiniteSet(1..n)
        BY FS_Interval
      <4> HIDE DEF B, small
      <4> QED BY <1>5, <4>1, FS_Subset
    <3>2. B \ {order[hi]} = small /\ order[hi] \in B
      BY <1>5
    <3>3. Nodes(size, B) = size[order[hi]] + Nodes(size, B \ {order[hi]})
      <4> HIDE DEF B, small
      <4>1. \A x \in B : Nodes(size, B) = size[x] + Nodes(size, B \ {x})
        BY <3>1, NodesSplit
      <4> QED BY <3>2, <4>1
    <3> QED BY <2>2, <3>2, <3>3 DEF WithinBudget
  <2> QED BY <2>1, <2>2
<1>7. Packs(Rest, later, size, limit)
  OBVIOUS
<1>8. Run(order, lo, hi) = B \cup later
  <2>1. \A m \in lo..hi : m = hi \/ m \in lo..last \/ m \in last + 1..hi - 1
    BY <1>1
  <2>2. \A m \in (lo..last) \cup (last + 1..hi - 1) : m \in lo..hi
    BY <1>1
  <2>3. hi \in lo..hi
    OBVIOUS
  <2> QED BY <2>1, <2>2, <2>3 DEF Run, BatchOf
<1>9. B \cap later = {}
  <2>1. ASSUME NEW x \in B, x \in later PROVE FALSE
    <3>1. PICK m \in last + 1..hi - 1 : x = order[m]
      BY <2>1 DEF Run
    <3>2. m \in 1..n /\ m # hi /\ m \notin lo..last
      BY <1>1, <3>1
    <3>3. CASE x = order[hi]
      BY <1>1, <3>1, <3>2, <3>3
    <3>4. CASE x \in small
      <4>1. PICK k \in lo..last : x = order[k]
        BY <3>4 DEF Run
      <4>2. k \in 1..n
        BY <1>1, <4>1
      <4> QED BY <3>1, <3>2, <4>1, <4>2
    <3> QED BY <1>5, <2>1, <3>3, <3>4
  <2> QED BY <2>1
<1> HIDE DEF B, later
<1>10. Packs({B} \cup Rest, B \cup later, size, limit)
  <2>1. UNION ({B} \cup Rest) = B \cup later
    BY <1>7 DEF Packs
  <2>2. \A b \in Rest : B \cap b = {}
    BY <1>7, <1>9 DEF Packs
  <2>3. \A b, c \in {B} \cup Rest : b # c => b \cap c = {}
    BY <1>7, <2>2 DEF Packs
  <2> QED BY <1>6, <1>7, <2>1, <2>3 DEF Packs
<1> QED BY <1>8, <1>10 DEF B

\* build_batch_plan puts every sample into one batch, and no batch of two
\* or more exceeds the budget.
LEMMA PlanPacks ==
  ASSUME NEW n \in Nat, NEW size, DOMAIN size = 1..n, Len(size) = n,
         \A i \in 1..n : size[i] \in Nat, NEW limit \in Nat \ {0}
  PROVE  /\ CoversOnce(BuildBatchPlan(size, limit), n)
         /\ \A b \in BuildBatchPlan(size, limit) : WithinBudget(size, b, limit)
<1> DEFINE order == SortedIndices(size)
<1>1. PICK p : /\ BuildBatchPlan(size, limit) = p[n][1]
               /\ \A hi \in 0..n : p[hi] = RowFrom(size, order, n, limit, p[hi - 1], hi)
  BY PackUnfolds
<1>2. /\ \A k \in 1..n : order[k] \in 1..n
      /\ \A k, l \in 1..n : order[k] = order[l] => k = l
      /\ Run(order, 1, n) = 1..n
  BY OrderPermutes
<1> HIDE DEF order
<1> DEFINE Good(hi) == \A lo \in 1..n + 1 :
                         Packs(p[hi][lo], Run(order, lo, hi), size, limit)
           S == {k \in Nat : k <= n => Good(k)}
<1>3. ASSUME NEW hi \in 0..n, NEW lo \in 1..n + 1, lo > hi
      PROVE  Packs(p[hi][lo], Run(order, lo, hi), size, limit)
  <2>1. p[hi][lo] = {}
    BY <1>1, <1>3 DEF RowFrom
  <2>2. Run(order, lo, hi) = {}
    BY <1>3 DEF Run
  <2> QED BY <2>1, <2>2 DEF Packs
<1> HIDE DEF Good
<1>4. 0 \in S
  <2>1. \A lo \in 1..n + 1 : lo > 0
    OBVIOUS
  <2>2. Good(0)
    BY <1>3, <2>1 DEF Good
  <2> QED BY <2>2
<1>5. ASSUME NEW k \in Nat, k \in S PROVE k + 1 \in S
  <2> SUFFICES ASSUME k + 1 <= n PROVE Good(k + 1)
    OBVIOUS
  <2> DEFINE hi == k + 1
  <2>1. hi \in 1..n /\ hi \in 0..n /\ hi - 1 = k /\ k <= n
    OBVIOUS
  <2>2. Good(hi - 1)
    BY <1>5, <2>1
  <2> HIDE DEF hi, S
  <2> SUFFICES ASSUME NEW lo \in 1..n + 1
               PROVE  Packs(p[hi][lo], Run(order, lo, hi), size, limit)
    BY DEF hi, Good
  <2>3. CASE lo > hi
    BY <1>3, <2>1, <2>3
  <2>4. CASE lo <= hi
    <3> DEFINE last == LastOf(size, order, lo, hi, limit)
    <3>1. lo \in 1..n /\ hi \in lo..n /\ lo \in Nat \ {0} /\ hi - 1 \in Nat /\ lo <= (hi - 1) + 1
      BY <2>1, <2>4
    <3>2. p[hi][lo] = {BatchOf(order, lo, hi, last)} \cup p[hi - 1][last + 1]
      <4>1. p[hi] = RowFrom(size, order, n, limit, p[hi - 1], hi)
        BY <1>1, <2>1
      <4> QED BY <2>1, <2>4, <4>1 DEF RowFrom
    <3>6. /\ last \in lo - 1..hi - 1
          /\ last = lo - 1 \/ size[order[hi]] + Nodes(size, Run(order, lo, last)) <= limit
      <4> DEFINE t == Fits(size, order, lo, hi - 1, size[order[hi]], limit)
      <4>1. /\ t \in lo - 1..hi - 1
            /\ t = lo - 1 \/ size[order[hi]] + Nodes(size, Run(order, lo, t)) <= limit
        BY <3>1, FitsSound
      <4>2. last = t
        BY ClampedBudget DEF LastOf
      <4> HIDE DEF t, last
      <4> QED BY <4>1, <4>2
    <3>3. last + 1 \in 1..n + 1
      <4>1. last \in lo - 1..hi - 1
        BY <3>6
      <4> HIDE DEF last
      <4> QED BY <2>1, <3>1, <4>1
    <3> HIDE DEF last
    <3>4. Packs(p[hi - 1][last + 1], Run(order, last + 1, hi - 1), size, limit)
      BY <2>2, <3>3 DEF Good
    <3>5. Packs({BatchOf(order, lo, hi, last)} \cup p[hi - 1][last + 1],
                Run(order, lo, hi), size, limit)
      BY <1>2, <3>1, <3>4, <3>6, RowPacks
    <3> QED BY <3>2, <3>5
  <2> QED BY <2>1, <2>3, <2>4
<1>6. n \in S
  <2> HIDE DEF S
  <2> QED BY <1>4, <1>5, NatInduct
<1>7. Packs(BuildBatchPlan(size, limit), 1..n, size, limit)
  <2>1. 1 \in 1..n + 1
    OBVIOUS
  <2>2. Good(n)
    BY <1>6
  <2> QED BY <1>1, <1>2, <2>1, <2>2 DEF Good
<1> QED BY <1>7 DEF Packs, CoversOnce

-----------------------------------------------------------------------------
(* Rows of a table                                                         *)

\* What one more row makes of the rows kept so far.
KeepRow(rows, set, kept, i) ==
  IF i = 0 THEN <<>> ELSE IF rows[i] \in set THEN Append(kept, rows[i]) ELSE kept

LEMMA RowsUnfold ==
  ASSUME NEW rows \in Seq(Graph), NEW set
  PROVE  \E f : /\ RowsIn(rows, set) = f[Len(rows)]
                /\ \A i \in 0..Len(rows) : f[i] = KeepRow(rows, set, f[i - 1], i)
<1> DEFINE n == Len(rows)
<1>0. n \in Nat
  OBVIOUS
<1> DEFINE Upto(k, f) == f = [i \in 0..k |-> KeepRow(rows, set, f[i - 1], i)]
           S == {k \in Nat : \E f : Upto(k, f)}
<1>1. 0 \in S
  <2> DEFINE h == [i \in 0..0 |-> <<>>]
  <2>1. \A i \in 0..0 : h[i] = KeepRow(rows, set, h[i - 1], i)
    BY DEF KeepRow
  <2>2. h = [i \in 0..0 |-> KeepRow(rows, set, h[i - 1], i)]
    BY <2>1
  <2> QED BY <2>2
<1>2. ASSUME NEW k \in Nat, k \in S PROVE k + 1 \in S
  <2>1. PICK f : Upto(k, f)
    BY <1>2
  <2> DEFINE h == [i \in 0..k + 1 |->
                     IF i = k + 1 THEN KeepRow(rows, set, f[k], k + 1) ELSE f[i]]
  <2>2. ASSUME NEW i \in 0..k + 1 PROVE h[i] = KeepRow(rows, set, h[i - 1], i)
    <3>1. CASE i = 0
      <4>1. h[0] = f[0] /\ f[0] = KeepRow(rows, set, f[0 - 1], 0)
        BY <2>1
      <4> QED BY <3>1, <4>1 DEF KeepRow
    <3>2. CASE i \in 1..k
      <4>1. h[i] = f[i] /\ h[i - 1] = f[i - 1] /\ f[i] = KeepRow(rows, set, f[i - 1], i)
        BY <2>1, <3>2
      <4> QED BY <4>1
    <3>3. CASE i = k + 1
      <4>1. i - 1 = k /\ h[k] = f[k] /\ h[k + 1] = KeepRow(rows, set, f[k], k + 1)
        BY <3>3
      <4> QED BY <3>3, <4>1
    <3> QED BY <3>1, <3>2, <3>3
  <2>3. h = [i \in 0..k + 1 |-> KeepRow(rows, set, h[i - 1], i)]
    BY <2>2
  <2>4. k + 1 \in Nat
    OBVIOUS
  <2> HIDE DEF h
  <2>5. Upto(k + 1, h)
    BY <2>3
  <2> QED BY <2>4, <2>5
<1>3. n \in S
  <2> HIDE DEF S, n
  <2> QED BY <1>0, <1>1, <1>2, NatInduct
<1> DEFINE A == CHOOSE f : Upto(n, f)
<1>4. Upto(n, A)
  BY <1>3
<1>5. RowsIn(rows, set) = A[n]
  BY DEF RowsIn, KeepRow
<1> HIDE DEF A
<1>6. \A i \in 0..n : A[i] = KeepRow(rows, set, A[i - 1], i)
  BY <1>4
<1> QED BY <1>5, <1>6

\* What is kept are rows of the table, and all of them that are in the set.
LEMMA RowsKept ==
  ASSUME NEW rows \in Seq(Graph), NEW set
  PROVE  /\ RowsIn(rows, set) \in Seq(Graph)
         /\ ToSet(RowsIn(rows, set)) = ToSet(rows) \cap set
<1> DEFINE n == Len(rows)
<1>1. n \in Nat /\ DOMAIN rows = 1..n /\ \A i \in 1..n : rows[i] \in Graph
  OBVIOUS
<1>2. PICK f : /\ RowsIn(rows, set) = f[n]
               /\ \A i \in 0..n : f[i] = KeepRow(rows, set, f[i - 1], i)
  BY RowsUnfold
<1> HIDE DEF n
<1> DEFINE Seen(k) == {rows[i] : i \in 1..k} \cap set
           Kept(k) == f[k] \in Seq(Graph) /\ ToSet(f[k]) = Seen(k)
           S == {k \in Nat : k <= n => Kept(k)}
<1>3. Kept(0)
  <2>1. f[0] = <<>> /\ 1..0 = {}
    BY <1>1, <1>2 DEF KeepRow
  <2>2. ToSet(<<>>) = {} /\ <<>> \in Seq(Graph)
    BY DEF ToSet
  <2> QED BY <2>1, <2>2
<1>4. ASSUME NEW k \in Nat, k + 1 <= n, Kept(k) PROVE Kept(k + 1)
  <2>1. f[k + 1] = IF rows[k + 1] \in set THEN Append(f[k], rows[k + 1]) ELSE f[k]
    <3>1. k + 1 \in 0..n /\ k + 1 # 0 /\ (k + 1) - 1 = k
      BY <1>1, <1>4
    <3> QED BY <1>2, <3>1 DEF KeepRow
  <2>2. rows[k + 1] \in Graph /\ 1..k + 1 = (1..k) \cup {k + 1}
    BY <1>1, <1>4
  <2>3. {rows[i] : i \in 1..k + 1} = {rows[i] : i \in 1..k} \cup {rows[k + 1]}
    BY <2>2
  <2>4. CASE rows[k + 1] \in set
    <3> DEFINE s == f[k]
               e == rows[k + 1]
    <3>1. s \in Seq(Graph) /\ e \in Graph
      BY <1>4, <2>2
    <3> HIDE DEF s, e
    <3>2. Append(s, e) \in Seq(Graph) /\ ToSet(Append(s, e)) = ToSet(s) \cup {e}
      <4>1. /\ DOMAIN s = 1..Len(s) /\ Len(s) \in Nat
            /\ DOMAIN Append(s, e) = 1..Len(s) + 1
            /\ \A i \in 1..Len(s) : Append(s, e)[i] = s[i]
            /\ Append(s, e)[Len(s) + 1] = e
        BY <3>1
      <4> QED BY <3>1, <4>1 DEF ToSet
    <3>3. f[k + 1] = Append(s, e)
      BY <2>1, <2>4 DEF s, e
    <3> QED BY <1>4, <2>3, <2>4, <3>2, <3>3 DEF s, e
  <2>5. CASE rows[k + 1] \notin set
    BY <1>4, <2>1, <2>3, <2>5
  <2> QED BY <2>4, <2>5
<1> HIDE DEF Kept
<1>5. n \in S
  <2>1. 0 \in S
    BY <1>3
  <2>2. ASSUME NEW k \in Nat, k \in S PROVE k + 1 \in S
    <3>1. CASE k + 1 <= n
      <4>1. k <= n
        BY <1>1, <3>1
      <4> QED BY <1>4, <2>2, <3>1, <4>1
    <3>2. CASE ~(k + 1 <= n)
      BY <3>2
    <3> QED BY <3>1, <3>2
  <2> HIDE DEF S
  <2> QED BY <1>1, <2>1, <2>2, NatInduct
<1>6. Kept(n)
  BY <1>1, <1>5
<1>7. {rows[i] : i \in 1..n} = ToSet(rows)
  BY <1>1 DEF ToSet
<1> QED BY <1>2, <1>6, <1>7 DEF Kept

\* Only the rows that are there matter, and without any nothing is kept.
LEMMA RowsSame ==
  ASSUME NEW rows \in Seq(Graph), NEW A, NEW B, ToSet(rows) \cap A = ToSet(rows) \cap B
  PROVE  RowsIn(rows, A) = RowsIn(rows, B)
<1> DEFINE n == Len(rows)
<1>1. n \in Nat /\ DOMAIN rows = 1..n
  OBVIOUS
<1>2. \A i \in 1..n : rows[i] \in A <=> rows[i] \in B
  BY <1>1 DEF ToSet
<1>3. PICK f : /\ RowsIn(rows, A) = f[n]
               /\ \A i \in 0..n : f[i] = KeepRow(rows, A, f[i - 1], i)
  BY RowsUnfold
<1>4. PICK h : /\ RowsIn(rows, B) = h[n]
               /\ \A i \in 0..n : h[i] = KeepRow(rows, B, h[i - 1], i)
  BY RowsUnfold
<1> HIDE DEF n
<1> DEFINE S == {k \in Nat : k <= n => f[k] = h[k]}
<1>5. 0 \in S
  BY <1>1, <1>3, <1>4 DEF KeepRow
<1>6. ASSUME NEW k \in Nat, k \in S PROVE k + 1 \in S
  <2> SUFFICES ASSUME k + 1 <= n PROVE f[k + 1] = h[k + 1]
    OBVIOUS
  <2>1. k + 1 \in 0..n /\ k + 1 \in 1..n /\ k + 1 # 0 /\ (k + 1) - 1 = k /\ k <= n
    BY <1>1
  <2>2. f[k] = h[k]
    BY <1>6, <2>1
  <2>3. /\ f[k + 1] = KeepRow(rows, A, f[k], k + 1)
        /\ h[k + 1] = KeepRow(rows, B, h[k], k + 1)
    BY <1>3, <1>4, <2>1
  <2> QED BY <1>2, <2>1, <2>2, <2>3 DEF KeepRow
<1>7. n \in S
  <2> HIDE DEF S
  <2> QED BY <1>1, <1>5, <1>6, NatInduct
<1> QED BY <1>1, <1>3, <1>4, <1>7

LEMMA RowsNone ==
  ASSUME NEW rows \in Seq(Graph), NEW set, ToSet(rows) \cap set = {}
  PROVE  RowsIn(rows, set) = <<>>
<1>1. RowsIn(rows, set) \in Seq(Graph) /\ ToSet(RowsIn(rows, set)) = {}
  BY RowsKept
<1> DEFINE s == RowsIn(rows, set)
<1> HIDE DEF s
<1>2. s \in Seq(Graph) /\ ToSet(s) = {}
  BY <1>1 DEF s
<1>3. DOMAIN s = 1..Len(s) /\ Len(s) \in Nat
  BY <1>2
<1>4. DOMAIN s = {}
  BY <1>2 DEF ToSet
<1>5. Len(s) = 0
  BY <1>3, <1>4
<1> QED BY <1>2, <1>5 DEF s

\* A start under the manifest of an undisturbed start finds the same list.
LEMMA ListStands ==
  ASSUME NEW rows \in Seq(Graph), NEW found, NEW index, NEW known,
         index \subseteq found, known = None \/ known = RowsIn(rows, found)
  PROVE  SampleList(rows, found, index, known) = RowsIn(rows, found)
<1>1. CASE known = None
  <2>1. index \cup found = found
    OBVIOUS
  <2> QED BY <1>1, <2>1 DEF SampleList
<1>2. CASE known # None
  <2> DEFINE listed == ToSet(known)
  <2>1. listed = ToSet(rows) \cap found
    BY <1>2, RowsKept
  <2>2. RowsIn(rows, listed) = RowsIn(rows, found)
    <3>1. ToSet(rows) \cap listed = ToSet(rows) \cap found
      BY <2>1
    <3> HIDE DEF listed
    <3> QED BY <3>1, RowsSame
  <2>3. RowsIn(rows, found \ listed) = <<>>
    <3>1. ToSet(rows) \cap (found \ listed) = {}
      BY <2>1
    <3> HIDE DEF listed
    <3> QED BY <3>1, RowsNone
  <2>4. RowsIn(rows, found) \in Seq(Graph)
    BY RowsKept
  <2>5. RowsIn(rows, found) \o <<>> = RowsIn(rows, found)
    <3> DEFINE s == RowsIn(rows, found)
    <3>1. s \in Seq(Graph)
      BY <2>4
    <3> HIDE DEF s
    <3>2. s \o <<>> = s
      BY <3>1
    <3> QED BY <3>2 DEF s
  <2> QED BY <1>2, <2>2, <2>3, <2>5 DEF SampleList
<1> QED BY <1>1, <1>2

-----------------------------------------------------------------------------
(* Every plan covers its samples, and keeps the budget in peace            *)

ShapeInv ==
  /\ table \in Tables
  /\ DOMAIN budget = Job /\ DOMAIN plan = Job /\ DOMAIN planFile = Budgets
  /\ manifest # None => manifest \in Seq(Graph)
  /\ \A j \in Job : /\ samples[j] \in Seq(Graph)
                    /\ pc[j] # "idle" => budget[j] \in Budgets
  /\ changes \in Nat

\* A stored plan covers the samples of whoever built it, however many.
CoverInv ==
  /\ \A b \in Budgets : planFile[b] # None => \E n \in Nat : CoversOnce(planFile[b], n)
  /\ PlanCovers

\* The list that every process finds while nothing changes.
Found == RowsIn(table, raw)

\* In peace all lists are one, so stored plans are plans for everybody.
PeaceInv == changes = 0 =>
  /\ indexed \subseteq raw
  /\ manifest = None \/ manifest = Found
  /\ \A j \in Job : pc[j] \in {"load", "rebuild", "write", "plan", "ready"} =>
       samples[j] = Found
  /\ \A b \in Budgets : planFile[b] # None =>
       \A batch \in planFile[b] : WithinBudget(SizesOf(Found), batch, b)
  /\ PlanWithinBudget

PlansInv == ShapeInv /\ CoverInv /\ PeaceInv

\* What a process is left with that has not just got its plan.
LEMMA OneMoves ==
  ASSUME IInv, PlansInv, NEW j \in Job,
         DOMAIN budget' = Job, DOMAIN plan' = Job,
         \A i \in Job : i # j => /\ pc'[i] = pc[i] /\ budget'[i] = budget[i]
                                 /\ samples'[i] = samples[i] /\ sizes'[i] = sizes[i]
                                 /\ plan'[i] = plan[i],
         UNCHANGED <<table, raw, planFile, changes>>,
         indexed' \subseteq indexed \cup raw,
         manifest' = manifest \/ (manifest' = samples[j] /\ pc[j] = "write"),
         pc'[j] # "ready", pc'[j] # "idle" => budget'[j] \in Budgets,
         samples'[j] \in Seq(Graph),
         changes = 0 /\ pc'[j] \in {"load", "rebuild", "write", "plan"} => samples'[j] = Found
  PROVE  PlansInv'
<1> USE DEF PlansInv
<1>1. ShapeInv'
  <2>1. ASSUME NEW i \in Job
        PROVE  samples'[i] \in Seq(Graph) /\ (pc'[i] # "idle" => budget'[i] \in Budgets)
    BY DEF ShapeInv
  <2>2. manifest' # None => manifest' \in Seq(Graph)
    BY DEF ShapeInv
  <2> QED BY <2>1, <2>2 DEF ShapeInv
<1>2. CoverInv'
  <2>1. PlanCovers'
    <3> SUFFICES ASSUME NEW i \in Job, pc'[i] = "ready"
                 PROVE  CoversOnce(plan'[i], Len(samples'[i]))
      BY DEF PlanCovers, CoversOnce
    <3>1. i # j
      OBVIOUS
    <3> QED BY <3>1 DEF CoverInv, PlanCovers
  <2> QED BY <2>1 DEF CoverInv
<1>3. PeaceInv'
  <2> SUFFICES ASSUME changes = 0
               PROVE  /\ indexed' \subseteq raw
                      /\ manifest' = None \/ manifest' = Found
                      /\ \A i \in Job :
                           pc'[i] \in {"load", "rebuild", "write", "plan", "ready"} =>
                             samples'[i] = Found
                      /\ \A b \in Budgets : planFile[b] # None =>
                           \A batch \in planFile[b] : WithinBudget(SizesOf(Found), batch, b)
                      /\ PlanWithinBudget'
    BY DEF PeaceInv, Found
  <2>1. indexed' \subseteq raw
    BY DEF PeaceInv
  <2>2. manifest' = None \/ manifest' = Found
    BY DEF PeaceInv
  <2>3. ASSUME NEW i \in Job, pc'[i] \in {"load", "rebuild", "write", "plan", "ready"}
        PROVE  samples'[i] = Found
    BY <2>3 DEF PeaceInv
  <2>4. PlanWithinBudget'
    <3> SUFFICES ASSUME NEW i \in Job, pc'[i] = "ready", NEW batch \in plan'[i]
                 PROVE  WithinBudget(sizes'[i], batch, budget'[i])
      BY DEF PlanWithinBudget
    <3>1. i # j
      OBVIOUS
    <3>2. pc[i] = "ready" /\ batch \in plan[i]
      BY <3>1
    <3>3. WithinBudget(sizes[i], batch, budget[i])
      BY <3>2 DEF PeaceInv, PlanWithinBudget
    <3> QED BY <3>1, <3>3
  <2> QED BY <2>1, <2>2, <2>3, <2>4 DEF PeaceInv
<1> QED BY <1>1, <1>2, <1>3

LEMMA SizesFacts ==
  ASSUME NEW s \in Seq(Graph)
  PROVE  /\ DOMAIN SizesOf(s) = 1..Len(s) /\ Len(SizesOf(s)) = Len(s)
         /\ \A i \in 1..Len(s) : SizesOf(s)[i] \in Nat
         /\ Len(s) \in Nat
<1>1. Len(s) \in Nat /\ DOMAIN s = 1..Len(s) /\ \A i \in 1..Len(s) : s[i] \in Graph
  OBVIOUS
<1>2. DOMAIN SizesOf(s) = 1..Len(s)
  BY <1>1 DEF SizesOf
<1>3. \A i \in 1..Len(s) : SizesOf(s)[i] \in Nat
  BY <1>1, ConstantsAssumption DEF SizesOf
<1>4. SizesOf(s) \in Seq(Nat)
  BY <1>1, <1>3 DEF SizesOf
<1>5. Len(SizesOf(s)) = Len(s)
  BY <1>1, <1>2, <1>4
<1> QED BY <1>1, <1>2, <1>3, <1>5

\* A stored plan of the right length covers the samples, and so does a new
\* one.
LEMMA PlanPlans ==
  ASSUME IInv, PlansInv, NEW j \in Job, Plan(j)
  PROVE  PlansInv'
<1> USE DEF PlansInv
<1> DEFINE b == budget[j]
           n == Len(samples[j])
           chosen == IF Normalized(planFile[b], Len(sizes[j])) THEN planFile[b]
                     ELSE BuildBatchPlan(sizes[j], b)
<1>1. /\ pc[j] = "plan" /\ pc' = [pc EXCEPT ![j] = "ready"]
      /\ plan' = [plan EXCEPT ![j] = chosen]
      /\ planFile' = [planFile EXCEPT ![b] = chosen]
      /\ UNCHANGED <<world, manifest, budget, samples, sizes, changes>>
  BY DEF Plan, PlanKey, Goto
<1>2. /\ DOMAIN pc = Job /\ DOMAIN plan = Job /\ DOMAIN planFile = Budgets
      /\ b \in Budgets /\ b \in Nat \ {0}
      /\ samples[j] \in Seq(Graph) /\ sizes[j] = SizesOf(samples[j])
  BY <1>1, ConstantsAssumption DEF IInv, FieldsInv, ShapeInv, SizesAligned
<1>3. /\ n \in Nat /\ DOMAIN sizes[j] = 1..n /\ Len(sizes[j]) = n
      /\ \A i \in 1..n : sizes[j][i] \in Nat
  BY <1>2, SizesFacts
<1>4. /\ CoversOnce(BuildBatchPlan(sizes[j], b), n)
      /\ \A batch \in BuildBatchPlan(sizes[j], b) : WithinBudget(sizes[j], batch, b)
  <2> DEFINE size == sizes[j]
  <2>1. n \in Nat /\ DOMAIN size = 1..n /\ Len(size) = n /\ \A i \in 1..n : size[i] \in Nat
    BY <1>3
  <2> HIDE DEF n, size, b
  <2>2. /\ CoversOnce(BuildBatchPlan(size, b), n)
        /\ \A batch \in BuildBatchPlan(size, b) : WithinBudget(size, batch, b)
    BY <1>2, <2>1, PlanPacks
  <2> QED BY <2>2 DEF size
<1>5. CoversOnce(chosen, n)
  <2>1. CASE Normalized(planFile[b], Len(sizes[j]))
    <3>1. planFile[b] # None /\ MapThenSumSet(Cardinality, planFile[b]) = n
      BY <1>3, <2>1 DEF Normalized
    <3>2. PICK m \in Nat : CoversOnce(planFile[b], m)
      BY <1>2, <3>1 DEF CoverInv
    <3>3. MapThenSumSet(Cardinality, planFile[b]) = m
      BY <3>2, CoverCounts
    <3> QED BY <2>1, <3>1, <3>2, <3>3
  <2>2. CASE ~Normalized(planFile[b], Len(sizes[j]))
    BY <1>4, <2>2
  <2> QED BY <2>1, <2>2
<1>6. changes = 0 => /\ samples[j] = Found
                     /\ \A batch \in chosen : WithinBudget(sizes[j], batch, b)
  <2> SUFFICES ASSUME changes = 0
               PROVE  /\ samples[j] = Found
                      /\ \A batch \in chosen : WithinBudget(sizes[j], batch, b)
    OBVIOUS
  <2>1. samples[j] = Found
    BY <1>1 DEF PeaceInv
  <2>2. CASE Normalized(planFile[b], Len(sizes[j]))
    <3>1. planFile[b] # None
      BY <2>2 DEF Normalized
    <3>2. \A batch \in planFile[b] : WithinBudget(SizesOf(Found), batch, b)
      BY <1>2, <3>1 DEF PeaceInv
    <3> QED BY <1>2, <2>1, <2>2, <3>2
  <2>3. CASE ~Normalized(planFile[b], Len(sizes[j]))
    BY <1>4, <2>1, <2>3
  <2> QED BY <2>2, <2>3
<1> HIDE DEF chosen, b
<1>7. /\ \A i \in Job : i # j => pc'[i] = pc[i] /\ plan'[i] = plan[i]
      /\ pc'[j] = "ready" /\ plan'[j] = chosen
      /\ \A c \in Budgets : c # b => planFile'[c] = planFile[c]
      /\ planFile'[b] = chosen
      /\ DOMAIN plan' = Job /\ DOMAIN planFile' = Budgets
      /\ UNCHANGED <<table, raw, indexed>>
  BY <1>1, <1>2 DEF world
<1>8. ShapeInv'
  <2>1. \A i \in Job : samples'[i] \in Seq(Graph)
                       /\ (pc'[i] # "idle" => budget'[i] \in Budgets)
    BY <1>1, <1>2, <1>7 DEF ShapeInv, b
  <2> QED BY <1>1, <1>7, <2>1 DEF ShapeInv
<1>9. CoverInv'
  <2>1. PlanCovers'
    <3> SUFFICES ASSUME NEW i \in Job, pc'[i] = "ready"
                 PROVE  CoversOnce(plan'[i], Len(samples[i]))
      BY <1>1 DEF PlanCovers, CoversOnce
    <3>1. CASE i = j
      BY <1>5, <1>7, <3>1
    <3>2. CASE i # j
      BY <1>7, <3>2 DEF CoverInv, PlanCovers
    <3> QED BY <3>1, <3>2
  <2>2. ASSUME NEW c \in Budgets, planFile'[c] # None
        PROVE  \E m \in Nat : CoversOnce(planFile'[c], m)
    <3>1. CASE c = b
      BY <1>3, <1>5, <1>7, <3>1
    <3>2. CASE c # b
      BY <1>7, <2>2, <3>2 DEF CoverInv
    <3> QED BY <3>1, <3>2
  <2> QED BY <2>1, <2>2 DEF CoverInv, CoversOnce
<1>10. PeaceInv'
  <2> SUFFICES ASSUME changes = 0
               PROVE  /\ indexed' \subseteq raw
                      /\ manifest' = None \/ manifest' = Found
                      /\ \A i \in Job :
                           pc'[i] \in {"load", "rebuild", "write", "plan", "ready"} =>
                             samples'[i] = Found
                      /\ \A c \in Budgets : planFile'[c] # None =>
                           \A batch \in planFile'[c] : WithinBudget(SizesOf(Found), batch, c)
                      /\ PlanWithinBudget'
    BY <1>1, <1>7 DEF PeaceInv, Found
  <2>1. indexed' \subseteq raw /\ (manifest' = None \/ manifest' = Found)
    BY <1>1, <1>7 DEF PeaceInv
  <2>2. ASSUME NEW i \in Job, pc'[i] \in {"load", "rebuild", "write", "plan", "ready"}
        PROVE  samples'[i] = Found
    BY <1>1, <1>6, <1>7, <2>2 DEF PeaceInv
  <2>3. ASSUME NEW c \in Budgets, planFile'[c] # None, NEW batch \in planFile'[c]
        PROVE  WithinBudget(SizesOf(Found), batch, c)
    <3>1. CASE c = b
      BY <1>2, <1>6, <1>7, <2>3, <3>1
    <3>2. CASE c # b
      BY <1>7, <2>3, <3>2 DEF PeaceInv
    <3> QED BY <3>1, <3>2
  <2>4. PlanWithinBudget'
    <3> SUFFICES ASSUME NEW i \in Job, pc'[i] = "ready", NEW batch \in plan'[i]
                 PROVE  WithinBudget(sizes[i], batch, budget[i])
      BY <1>1 DEF PlanWithinBudget
    <3>1. CASE i = j
      BY <1>6, <1>7, <3>1 DEF b
    <3>2. CASE i # j
      BY <1>7, <3>2 DEF PeaceInv, PlanWithinBudget
    <3> QED BY <3>1, <3>2
  <2> QED BY <2>1, <2>2, <2>3, <2>4
<1> QED BY <1>8, <1>9, <1>10

\* The end of a process: it keeps nothing.
LEMMA GonePlans ==
  ASSUME IInv, PlansInv, NEW j \in Job, Gone(j), indexed' \subseteq indexed \cup raw,
         UNCHANGED <<table, raw, disk, changes>>
  PROVE  PlansInv'
<1>1. /\ DOMAIN pc = Job /\ DOMAIN budget = Job /\ DOMAIN samples = Job
      /\ DOMAIN sizes = Job /\ DOMAIN plan = Job
  BY DEF PlansInv, ShapeInv, IInv, FieldsInv
<1>2. /\ \A i \in Job : i # j => /\ pc'[i] = pc[i] /\ budget'[i] = budget[i]
                                 /\ samples'[i] = samples[i] /\ sizes'[i] = sizes[i]
                                 /\ plan'[i] = plan[i]
      /\ pc'[j] = "idle" /\ samples'[j] = <<>>
      /\ DOMAIN budget' = Job /\ DOMAIN plan' = Job
  BY <1>1 DEF Gone, Goto
<1>3. samples'[j] \in Seq(Graph)
  BY <1>2
<1>4. UNCHANGED <<table, raw, planFile, changes, manifest>>
  BY DEF disk
<1> QED BY <1>2, <1>3, <1>4, OneMoves

LEMMA StepPlans ==
  ASSUME IInv, PlansInv, NEW j \in Job, NEW b \in Budgets,
         \/ Start(j, b) \/ BuildSamples(j) \/ UseManifest(j) \/ RejectManifest(j)
         \/ Rebuild(j) \/ WriteManifest(j)
  PROVE  PlansInv'
<1>1. /\ DOMAIN pc = Job /\ DOMAIN budget = Job /\ DOMAIN samples = Job
      /\ DOMAIN sizes = Job /\ DOMAIN plan = Job
  BY DEF PlansInv, ShapeInv, IInv, FieldsInv
<1>2. samples[j] \in Seq(Graph) /\ (pc[j] # "idle" => budget[j] \in Budgets)
  BY DEF PlansInv, ShapeInv
<1>3. CASE Start(j, b)
  <2>1. /\ \A i \in Job : i # j => pc'[i] = pc[i] /\ budget'[i] = budget[i]
        /\ pc'[j] = "build" /\ budget'[j] = b /\ DOMAIN budget' = Job
        /\ UNCHANGED <<table, raw, indexed, manifest, planFile, changes, samples, sizes, plan>>
    BY <1>1, <1>3 DEF Start, Goto, world, disk
  <2> QED BY <1>1, <1>2, <2>1, OneMoves
<1>4. CASE BuildSamples(j)
  <2> DEFINE list == SampleList(table, raw, indexed, manifest)
  <2>1. /\ pc[j] = "build" /\ samples' = [samples EXCEPT ![j] = list]
        /\ pc' = [pc EXCEPT ![j] = "load"]
        /\ UNCHANGED <<table, raw, indexed, manifest, planFile, changes, sizes, plan, budget>>
    BY <1>4 DEF BuildSamples, Goto, world, disk
  <2>2. table \in Seq(Graph)
    BY ConstantsAssumption DEF PlansInv, ShapeInv
  <2>3. list \in Seq(Graph)
    <3>1. \A set : RowsIn(table, set) \in Seq(Graph)
      BY <2>2, RowsKept
    <3>2. \A s, t \in Seq(Graph) : s \o t \in Seq(Graph)
      OBVIOUS
    <3> QED BY <3>1, <3>2 DEF SampleList
  <2>4. changes = 0 => list = Found
    <3>1. changes = 0 => indexed \subseteq raw /\ (manifest = None \/ manifest = Found)
      BY DEF PlansInv, PeaceInv
    <3> QED BY <2>2, <3>1, ListStands DEF Found
  <2> HIDE DEF list
  <2>5. /\ \A i \in Job : i # j => pc'[i] = pc[i] /\ samples'[i] = samples[i]
        /\ pc'[j] = "load" /\ samples'[j] = list
    BY <1>1, <2>1
  <2> QED BY <1>1, <1>2, <2>1, <2>3, <2>4, <2>5, OneMoves
<1>5. CASE UseManifest(j) \/ WriteManifest(j)
  <2>1. /\ pc[j] \in {"load", "write"}
        /\ pc' = [pc EXCEPT ![j] = "plan"]
        /\ \E size : sizes' = [sizes EXCEPT ![j] = size]
        /\ manifest' = manifest \/ (manifest' = samples[j] /\ pc[j] = "write")
        /\ UNCHANGED <<table, raw, indexed, planFile, changes, samples, plan, budget>>
    BY <1>5 DEF UseManifest, WriteManifest, Goto, world, disk
  <2>2. /\ \A i \in Job : i # j => pc'[i] = pc[i] /\ sizes'[i] = sizes[i]
        /\ pc'[j] = "plan"
    BY <1>1, <2>1
  <2>3. changes = 0 => samples[j] = Found
    BY <2>1 DEF PlansInv, PeaceInv
  <2> QED BY <1>1, <1>2, <2>1, <2>2, <2>3, OneMoves
<1>6. CASE RejectManifest(j) \/ Rebuild(j)
  <2>1. /\ pc[j] \in {"load", "rebuild"}
        /\ \E where \in {"rebuild", "write"} : pc' = [pc EXCEPT ![j] = where]
        /\ indexed' = indexed \/ (indexed' = indexed \cup ToSet(samples[j]) /\ Servable(j))
        /\ UNCHANGED <<table, raw, manifest, planFile, changes, samples, sizes, plan, budget>>
    BY <1>6 DEF RejectManifest, Rebuild, Goto, world, disk
  <2>2. /\ \A i \in Job : i # j => pc'[i] = pc[i]
        /\ pc'[j] \in {"rebuild", "write"}
    BY <1>1, <2>1
  <2>3. indexed' \subseteq indexed \cup raw
    BY <2>1 DEF Servable
  <2>4. changes = 0 => samples[j] = Found
    BY <2>1 DEF PlansInv, PeaceInv
  <2> QED BY <1>1, <1>2, <2>1, <2>2, <2>3, <2>4, OneMoves
<1> QED BY <1>3, <1>4, <1>5, <1>6

LEMMA EndPlans ==
  ASSUME IInv, PlansInv, NEW j \in Job, Exit(j) \/ Fail(j) \/ Crash(j)
  PROVE  PlansInv'
<1>1. /\ Gone(j) /\ indexed' \subseteq indexed \cup raw
      /\ UNCHANGED <<table, raw, disk, changes>>
  <2>1. CASE Exit(j)
    BY <2>1 DEF Exit, world
  <2>2. CASE Fail(j)
    BY <2>2 DEF Fail
  <2>3. CASE Crash(j)
    BY <2>3 DEF Crash
  <2> QED BY <2>1, <2>2, <2>3
<1> QED BY <1>1, GonePlans

LEMMA EnvironmentPlans ==
  ASSUME IInv, PlansInv, Environment
  PROVE  PlansInv'
<1>1. /\ changes' = changes + 1 /\ changes \in Nat
      /\ UNCHANGED <<manifest, planFile, pc, budget, samples, sizes, plan>>
      /\ table \in Tables /\ table' \in Tables
  BY DEF Environment, disk, jobvars, PlansInv, ShapeInv
<1>2. changes' # 0 /\ changes' \in Nat
  BY <1>1
<1>3. ShapeInv'
  BY <1>1, <1>2 DEF PlansInv, ShapeInv
<1>4. CoverInv'
  BY <1>1 DEF PlansInv, CoverInv, PlanCovers
<1>5. PeaceInv'
  BY <1>2 DEF PeaceInv
<1> QED BY <1>3, <1>4, <1>5 DEF PlansInv

LEMMA PlansInductive == Spec => []PlansInv
<1>1. Init => PlansInv
  <2> SUFFICES ASSUME Init PROVE PlansInv
    OBVIOUS
  <2>1. ShapeInv
    BY DEF Init, ShapeInv
  <2>2. CoverInv
    BY DEF Init, CoverInv, PlanCovers
  <2>3. PeaceInv
    BY DEF Init, PeaceInv, PlanWithinBudget
  <2> QED BY <2>1, <2>2, <2>3 DEF PlansInv
<1>2. IInv /\ PlansInv /\ [Next]_vars => PlansInv'
  <2> SUFFICES ASSUME IInv, PlansInv, [Next]_vars PROVE PlansInv'
    OBVIOUS
  <2>1. PICK b \in Budgets : TRUE
    BY ConstantsAssumption
  <2>2. ASSUME NEW j \in Job, \E c \in Budgets : Start(j, c) PROVE PlansInv'
    BY <2>2, StepPlans
  <2>3. ASSUME NEW j \in Job, BuildSamples(j) \/ UseManifest(j) \/ RejectManifest(j)
                              \/ Rebuild(j) \/ WriteManifest(j)
        PROVE  PlansInv'
    BY <2>1, <2>3, StepPlans
  <2>4. ASSUME NEW j \in Job, Plan(j) PROVE PlansInv'
    BY <2>4, PlanPlans
  <2>5. ASSUME NEW j \in Job, Exit(j) \/ Fail(j) \/ Crash(j) PROVE PlansInv'
    BY <2>5, EndPlans
  <2>6. CASE Environment
    BY <2>6, EnvironmentPlans
  <2>7. CASE UNCHANGED vars
    <3>1. UNCHANGED <<table, raw, indexed, manifest, planFile, pc, budget, samples, sizes,
                      plan, changes>>
      BY <2>7 DEF vars, world, disk, jobvars
    <3>2. ShapeInv' /\ CoverInv'
      BY <3>1 DEF PlansInv, ShapeInv, CoverInv, PlanCovers
    <3>3. PeaceInv'
      BY <3>1 DEF PlansInv, PeaceInv, PlanWithinBudget, Found
    <3> QED BY <3>2, <3>3 DEF PlansInv
  <2> QED BY <2>2, <2>3, <2>4, <2>5, <2>6, <2>7 DEF Next, Step
<1> QED BY <1>1, <1>2, Inductive, PTL DEF Spec

(* A plan, built or reused from any earlier process of whatever budget,    *)
(* table or sample count, puts each sample of this one in exactly one      *)
(* batch: the length test of _normalize_batch_plan is enough, because      *)
(* every plan ever stored covered somebody's samples once.                 *)
THEOREM PlansCover == Spec => []PlanCovers
<1>1. PlansInv => PlanCovers
  BY DEF PlansInv, CoverInv
<1> QED BY <1>1, PlansInductive, PTL

(* While nothing changes under the processes, no batch that any of them    *)
(* will load exceeds its budget, single graphs aside, however many         *)
(* processes start, race, are killed and reuse each other's plans.         *)
THEOREM BudgetHoldsInPeace == Spec => []BudgetKeptInPeace
<1>1. PlansInv => BudgetKeptInPeace
  BY DEF PlansInv, PeaceInv, BudgetKeptInPeace
<1> QED BY <1>1, PlansInductive, PTL
=============================================================================
