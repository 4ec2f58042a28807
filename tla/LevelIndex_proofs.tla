-------------------------- MODULE LevelIndex_proofs --------------------------
(* A run of precompute_levels that no other run overlaps takes no entry    *)
(* from an index it could read, and none for good that it can compute from *)
(* one it could not, for any files, cadence, kills and restarts; and       *)
(* every level in the index or handed out is the depth of its node, since  *)
(* one pass over the nodes in index order computes what ExtractedLevels    *)
(* defines by recursion.  Slices by depth are even and never point         *)
(* backwards, compaction keeps order and edges, and the stored features    *)
(* count paths and add up distances.                                       *)
EXTENDS LevelIndex, FiniteSetTheorems, WellFoundedInduction, TLAPS

Active(r) == run[r].phase # "idle"

RunShape ==
  /\ DOMAIN run = Runs
  /\ \A r \in Runs : DOMAIN run[r] = {"phase", "index", "todo", "successes"}

\* A run by itself that has read the index holds all that the index holds;
\* others know of each other.
HoldInv ==
  /\ RunShape
  /\ \A r \in Runs : Active(r) /\ r \notin overlapped \cup blind =>
       DOMAIN index \subseteq DOMAIN run[r].index
  /\ \A r, s \in Runs : r # s /\ Active(r) /\ Active(s) => r \in overlapped

LEMMA InitHold == Init => HoldInv
<1> SUFFICES ASSUME Init PROVE HoldInv
  OBVIOUS
<1>1. DOMAIN run = Runs /\ \A r \in Runs : run[r] = Idle /\ ~Active(r)
  BY DEF Init, Idle, Active
<1>2. RunShape
  BY <1>1 DEF RunShape, Idle
<1> QED
  BY <1>1, <1>2 DEF HoldInv

LEMMA StartHold == \A r \in Runs : HoldInv /\ (Start(r) \/ StartBlind(r)) => HoldInv'
<1> SUFFICES ASSUME NEW r \in Runs, HoldInv, Start(r) \/ StartBlind(r) PROVE HoldInv'
  OBVIOUS
<1>1. PICK found : /\ Begin(r, found)
                   /\ \/ found = index /\ blind' = blind \ {r}
                      \/ blind' = blind \cup {r}
  BY DEF Start, StartBlind
<1>2. /\ index' = index /\ ~Active(r)
      /\ run' = [run EXCEPT ![r] = [Idle EXCEPT !.phase = "scan", !.index = found]]
      /\ overlapped' = IF Running = {} THEN overlapped \ {r}
                       ELSE overlapped \cup Running \cup {r}
  BY <1>1 DEF Begin, Active
<1>3. /\ DOMAIN run' = Runs /\ \A s \in Runs : s # r => run'[s] = run[s]
      /\ run'[r] = [phase |-> "scan", index |-> found, todo |-> {}, successes |-> 0]
  BY <1>2 DEF HoldInv, RunShape, Idle
<1>4. RunShape'
  BY <1>3 DEF HoldInv, RunShape
<1>5. r \notin blind' => found = index
  BY <1>1
<1>6. \A s \in Runs : s # r => (s \in blind' <=> s \in blind)
  BY <1>1
<1>7. CASE Running = {}
  <2>1. \A s \in Runs : ~Active(s)
    BY <1>7 DEF Running, Active
  <2> QED BY <1>2, <1>3, <1>4, <1>5, <2>1 DEF HoldInv, Active
<1>8. CASE Running # {}
  <2>1. \A s \in Runs : Active(s) => s \in Running
    BY DEF Running, Active
  <2> QED BY <1>2, <1>3, <1>4, <1>8, <2>1 DEF HoldInv, Active
<1> QED
  BY <1>7, <1>8

\* One run goes on, keeps its entries and writes at most what it holds.
LEMMA MoveHold ==
  ASSUME HoldInv, RunShape', NEW r \in Runs, Active(r),
         overlapped' = overlapped, blind' = blind,
         \A s \in Runs : s # r => run'[s] = run[s],
         \/ ~Active(r)' /\ (index' = index \/ index' = run[r].index)
         \/ /\ DOMAIN run[r].index \subseteq DOMAIN run'[r].index
            /\ index' = index \/ index' = run'[r].index
  PROVE  HoldInv'
<1>1. ASSUME NEW s \in Runs, Active(s)', s \notin overlapped \cup blind
      PROVE  DOMAIN index' \subseteq DOMAIN run'[s].index
  <2>1. CASE s = r
    BY <1>1, <2>1 DEF HoldInv
  <2>2. CASE s # r
    BY <1>1, <2>2 DEF HoldInv, Active
  <2> QED BY <2>1, <2>2
<1>2. ASSUME NEW s \in Runs, NEW t \in Runs, s # t, Active(s)', Active(t)'
      PROVE  s \in overlapped
  BY <1>2 DEF HoldInv, Active
<1> QED
  BY <1>1, <1>2 DEF HoldInv

LEMMA ScanHold == \A r \in Runs : HoldInv /\ Scan(r) => HoldInv'
<1> SUFFICES ASSUME NEW r \in Runs, HoldInv, Scan(r) PROVE HoldInv'
  OBVIOUS
<1>1. /\ Active(r) /\ index' = index /\ overlapped' = overlapped /\ blind' = blind
      /\ run' = [run EXCEPT ![r].phase = "compute",
                            ![r].todo = present \ DOMAIN run[r].index]
  BY DEF Scan, Active, history
<1>a. run' = [run EXCEPT ![r] = [run[r] EXCEPT !.phase = "compute",
                                               !.todo = present \ DOMAIN run[r].index]]
  BY <1>1 DEF HoldInv, RunShape
<1>2. /\ DOMAIN run' = Runs /\ \A s \in Runs : s # r => run'[s] = run[s]
      /\ DOMAIN run'[r] = DOMAIN run[r] /\ run'[r].index = run[r].index
  BY <1>a DEF HoldInv, RunShape
<1>3. RunShape'
  BY <1>2 DEF HoldInv, RunShape
<1> QED
  BY <1>1, <1>2, <1>3, MoveHold

LEMMA CollectHold == \A r \in Runs, f \in Files : HoldInv /\ Collect(r, f) => HoldInv'
<1> SUFFICES ASSUME NEW r \in Runs, NEW f \in Files, HoldInv, Collect(r, f) PROVE HoldInv'
  OBVIOUS
<1> DEFINE acc == IF f \in present
                  THEN [x \in DOMAIN run[r].index \cup {f} |->
                          IF x = f THEN NodeLevels(content[f]) ELSE run[r].index[x]]
                  ELSE run[r].index
           wins == run[r].successes + (IF f \in present THEN 1 ELSE 0)
<1>1. /\ Active(r) /\ overlapped' = overlapped /\ blind' = blind
      /\ index' = acc \/ index' = index
      /\ run' = [run EXCEPT ![r].index = acc, ![r].todo = @ \ {f}, ![r].successes = wins]
  BY DEF Collect, Active, history
<1>2. DOMAIN run[r].index \subseteq DOMAIN acc
  OBVIOUS
<1> HIDE DEF acc, wins
<1>a. run' = [run EXCEPT ![r] = [run[r] EXCEPT !.index = acc, !.todo = @ \ {f},
                                               !.successes = wins]]
  BY <1>1 DEF HoldInv, RunShape
<1>3. /\ DOMAIN run' = Runs /\ \A s \in Runs : s # r => run'[s] = run[s]
      /\ DOMAIN run'[r] = DOMAIN run[r] /\ run'[r].index = acc
  BY <1>a DEF HoldInv, RunShape
<1>4. RunShape'
  BY <1>3 DEF HoldInv, RunShape
<1> QED
  BY <1>1, <1>2, <1>3, <1>4, MoveHold

LEMMA EndHold == \A r \in Runs : HoldInv /\ (Finish(r) \/ Crash(r)) => HoldInv'
<1> SUFFICES ASSUME NEW r \in Runs, HoldInv, Finish(r) \/ Crash(r) PROVE HoldInv'
  OBVIOUS
<1>1. /\ Active(r) /\ overlapped' = overlapped /\ blind' = blind
      /\ run' = [run EXCEPT ![r] = Idle]
      /\ index' = index \/ index' = run[r].index
  BY DEF Finish, Crash, Active, history
<1>2. /\ DOMAIN run' = Runs /\ \A s \in Runs : s # r => run'[s] = run[s]
      /\ run'[r] = [phase |-> "idle", index |-> Empty, todo |-> {}, successes |-> 0]
  BY <1>1 DEF HoldInv, RunShape, Idle
<1>3. RunShape' /\ ~Active(r)'
  BY <1>2 DEF HoldInv, RunShape, Active
<1> QED
  BY <1>1, <1>2, <1>3, MoveHold

LEMMA HoldInductive == Spec => []HoldInv
<1>1. HoldInv /\ UNCHANGED <<run, index, overlapped, blind>> => HoldInv'
  BY DEF HoldInv, RunShape, Active
<1>2. HoldInv /\ [Next]_vars => HoldInv'
  <2> SUFFICES ASSUME HoldInv, [Next]_vars PROVE HoldInv'
    OBVIOUS
  <2>1. ASSUME \/ Load \/ NewReader
               \/ \E f \in Files : LookUp(f) \/ FileAppears(f) \/ FileGoes(f)
               \/ UNCHANGED vars
        PROVE  UNCHANGED <<run, index, overlapped, blind>>
    BY <2>1 DEF Load, NewReader, LookUp, FileAppears, FileGoes, vars, history
  <2> QED
    BY <1>1, <2>1, StartHold, ScanHold, CollectHold, EndHold DEF Next
<1> QED
  BY <1>2, InitHold, PTL DEF Spec

-----------------------------------------------------------------------------
(* The single pass of compute_node_levels gives the levels of the AIG.     *)

\* A nonempty set of naturals has a least member.
LEMMA LeastNat ==
  ASSUME NEW T \in SUBSET Nat, T # {}
  PROVE  \E x \in T : \A y \in T : x <= y
<1> DEFINE R == OpToRel(<, Nat)
<1>1. IsWellFoundedOn(R, Nat)
  BY NatLessThanWellFounded
<1>2. \A x, y \in Nat : y < x => <<y, x>> \in R
  BY DEF OpToRel
<1> HIDE DEF R
<1>3. PICK x \in T : \A y \in T : ~(<<y, x>> \in R)
  BY <1>1, WFMin
<1>4. ASSUME NEW y \in T PROVE x <= y
  <2>1. x \in Nat /\ y \in Nat /\ ~(y < x)
    BY <1>2, <1>3, Zenon
  <2> QED BY <2>1
<1> QED BY <1>4

\* A nonempty set of numbers up to n has a greatest member.
LEMMA GreatestUpTo ==
  ASSUME NEW n \in Nat, NEW T \in SUBSET (1..n), T # {}
  PROVE  \E x \in T : \A y \in T : y <= x
<1> DEFINE D == {n - y : y \in T}
<1>1. D \in SUBSET Nat
  OBVIOUS
<1>2. D # {}
  OBVIOUS
<1>3. PICK d \in D : \A e \in D : d <= e
  <2> HIDE DEF D
  <2> QED BY <1>1, <1>2, LeastNat
<1>4. PICK x \in T : d = n - x
  BY <1>3
<1>5. ASSUME NEW y \in T PROVE y <= x
  <2>1. n - x <= n - y
    BY <1>3, <1>4
  <2> QED BY <2>1
<1> QED BY <1>5

\* Induction over the naturals, for a set of them.
LEMMA NatInduct ==
  ASSUME NEW S, 0 \in S, \A n \in Nat : n \in S => n + 1 \in S
  PROVE  \A n \in Nat : n \in S
<1> DEFINE T == Nat \ S
<1> SUFFICES ASSUME T # {} PROVE FALSE
  OBVIOUS
<1>1. PICK x \in T : \A y \in T : x <= y
  <2>1. T \in SUBSET Nat /\ T # {}
    OBVIOUS
  <2> HIDE DEF T
  <2> QED BY <2>1, LeastNat
<1>2. x \in Nat /\ x \notin S /\ x # 0
  OBVIOUS
<1>3. x - 1 \in Nat /\ x - 1 + 1 = x
  BY <1>2
<1>4. x - 1 \in S
  <2>1. ~(x <= x - 1)
    BY <1>2
  <2> QED BY <1>1, <1>3, <2>1
<1> QED BY <1>2, <1>3, <1>4

LEMMA MaxOfNats ==
  ASSUME NEW n \in Nat, NEW T \in SUBSET (0..n), T # {}
  PROVE  Max(T) \in 0..n
<1> DEFINE D == {y + 1 : y \in T}
<1>0. \A y \in T : y \in 0..n /\ y + 1 \in 1..n + 1
  OBVIOUS
<1>1. D \in SUBSET (1..n + 1) /\ D # {}
  BY <1>0, Zenon
<1>2. PICK d \in D : \A e \in D : e <= d
  <2>1. n + 1 \in Nat
    OBVIOUS
  <2> HIDE DEF D
  <2> QED BY <1>1, <2>1, GreatestUpTo
<1>3. PICK x \in T : d = x + 1
  OBVIOUS
<1>4. \A y \in T : x >= y
  <2> TAKE y \in T
  <2>1. y + 1 <= x + 1
    BY <1>2, <1>3
  <2> QED BY <2>1
<1>5. \E z \in T : \A y \in T : z >= y
  BY <1>4
<1>6. Max(T) \in T
  BY <1>5 DEF Max
<1> QED BY <1>6

LEMMA Topological ==
  ASSUME NEW g, WellFormed(g)
  PROVE  /\ NumBase(g) \in Nat /\ NumNodes(g) \in Nat /\ NumNodes(g) >= 1
         /\ \A n \in Nodes(g) : Fanins(g, n) \subseteq 0..n - 1
         /\ \A n \in Nodes(g) : Levelled(g, n) <=> Fanins(g, n) # {}
         /\ Fanins(g, 0) = {}
<1>1. /\ g.pis \in Nat /\ Len(g.gates) \in Nat /\ Len(g.pos) \in Nat
      /\ DOMAIN g.gates = 1..Len(g.gates) /\ DOMAIN g.pos = 1..Len(g.pos)
      /\ \A i \in DOMAIN g.pos : g.pos[i] \in Nat
  BY DEF WellFormed
<1>2. NumBase(g) \in Nat /\ NumNodes(g) \in Nat /\ NumNodes(g) >= 1
  BY <1>1 DEF NumBase, NumNodes
<1>3. ASSUME NEW n \in Nodes(g) PROVE Fanins(g, n) \subseteq 0..n - 1
  <2>1. n \in Nat /\ n < NumNodes(g)
    BY <1>2, <1>3 DEF Nodes
  <2>2. CASE Kind(g, n) = "gate"
    <3>1. n \in g.pis + 1..NumBase(g) - 1
      BY <2>2 DEF Kind
    <3>2. n - g.pis \in DOMAIN g.gates
      BY <1>1, <2>1, <3>1 DEF NumBase
    <3>3. g.gates[n - g.pis] \subseteq 0..g.pis + (n - g.pis) - 1
      BY <3>2 DEF WellFormed
    <3> QED BY <1>1, <2>1, <2>2, <3>3 DEF Fanins
  <2>3. CASE Kind(g, n) = "po"
    <3>1. n >= NumBase(g)
      BY <1>1, <2>1, <2>3 DEF Kind, NumBase
    <3>2. n - NumBase(g) + 1 \in DOMAIN g.pos
      BY <1>1, <1>2, <2>1, <3>1 DEF NumNodes
    <3>3. g.pos[n - NumBase(g) + 1] \in 0..n - 1
      BY <1>1, <1>2, <2>1, <3>1, <3>2 DEF WellFormed
    <3> QED BY <2>3, <3>3 DEF Fanins
  <2>4. CASE Kind(g, n) \notin {"gate", "po"}
    BY <2>4 DEF Fanins
  <2> QED BY <2>2, <2>3, <2>4
<1>4. \A n \in Nodes(g) : Levelled(g, n) <=> Fanins(g, n) # {}
  BY DEF Levelled, Fanins
<1>5. Fanins(g, 0) = {}
  <2>1. Kind(g, 0) = "const"
    BY <1>1 DEF Kind, NumBase
  <2> QED BY <2>1 DEF Fanins
<1> QED BY <1>2, <1>3, <1>4, <1>5

\* What the levels of the fanins make of a node.
LevelAt(g, f, n) == IF Fanins(g, n) = {} THEN 0 ELSE 1 + Max({f[m] : m \in Fanins(g, n)})

\* The recursive definition has a solution, node by node.
LEMMA LevelsExist ==
  ASSUME NEW g, WellFormed(g)
  PROVE  \E f : f = [n \in Nodes(g) |-> LevelAt(g, f, n)]
<1> DEFINE Upto(k, f) == f = [n \in 0..k |-> LevelAt(g, f, n)]
           S == {k \in Nat : k < NumNodes(g) => \E f : Upto(k, f)}
<1>1. 0 \in S
  <2>1. LevelAt(g, [n \in 0..0 |-> 0], 0) = 0
    BY Topological DEF LevelAt
  <2>2. Upto(0, [n \in 0..0 |-> 0])
    BY <2>1
  <2> QED BY <2>2
<1>2. ASSUME NEW k \in Nat, k \in S PROVE k + 1 \in S
  <2> SUFFICES ASSUME k + 1 < NumNodes(g) PROVE \E f : Upto(k + 1, f)
    OBVIOUS
  <2>1. PICK f : Upto(k, f)
    BY <1>2, Topological
  <2> DEFINE h == [n \in 0..k + 1 |-> IF n = k + 1 THEN LevelAt(g, f, n) ELSE f[n]]
  <2>2. ASSUME NEW n \in 0..k + 1 PROVE h[n] = LevelAt(g, h, n)
    <3>1. n \in Nodes(g)
      BY Topological DEF Nodes
    <3>2. Fanins(g, n) \subseteq 0..n - 1
      BY <3>1, Topological
    <3>3. \A m \in Fanins(g, n) : h[m] = f[m]
      BY <3>2
    <3>4. {h[m] : m \in Fanins(g, n)} = {f[m] : m \in Fanins(g, n)}
      BY <3>3
    <3>5. LevelAt(g, h, n) = LevelAt(g, f, n)
      BY <3>4 DEF LevelAt
    <3>6. n # k + 1 => f[n] = LevelAt(g, f, n)
      BY <2>1
    <3> QED BY <3>5, <3>6
  <2>3. Upto(k + 1, h)
    BY <2>2
  <2> QED BY <2>3
<1>3. NumNodes(g) - 1 \in Nat /\ NumNodes(g) - 1 < NumNodes(g)
  BY Topological
<1>4. NumNodes(g) - 1 \in S
  <2> HIDE DEF S
  <2> QED BY <1>1, <1>2, <1>3, NatInduct
<1> QED BY <1>3, <1>4 DEF Nodes

LEMMA LevelsUnfold ==
  ASSUME NEW g, WellFormed(g)
  PROVE  /\ ExtractedLevels(g) = [n \in Nodes(g) |-> ExtractedLevels(g)[n]]
         /\ \A n \in Nodes(g) : /\ ExtractedLevels(g)[n] = LevelAt(g, ExtractedLevels(g), n)
                                /\ ExtractedLevels(g)[n] \in 0..n
<1> DEFINE Sol(f) == f = [n \in Nodes(g) |-> LevelAt(g, f, n)]
           L == CHOOSE f : Sol(f)
<1>1. Sol(L)
  BY LevelsExist
<1>2. ExtractedLevels(g) = L
  BY DEF ExtractedLevels, LevelAt
<1> HIDE DEF L
<1> DEFINE S == {k \in Nat : \A n \in Nodes(g) : n <= k => L[n] \in 0..n}
<1>3. 0 \in S
  <2>1. L[0] = 0 \/ 0 \notin Nodes(g)
    BY <1>1, Topological DEF LevelAt
  <2> QED BY <2>1, Topological DEF Nodes
<1>4. ASSUME NEW k \in Nat, k \in S PROVE k + 1 \in S
  <2> SUFFICES ASSUME k + 1 \in Nodes(g) PROVE L[k + 1] \in 0..k + 1
    <3>1. Nodes(g) \subseteq Nat
      BY Topological DEF Nodes
    <3> QED BY <1>4, <3>1
  <2>1. Fanins(g, k + 1) \subseteq 0..k
    BY Topological
  <2>2. \A m \in Fanins(g, k + 1) : m \in Nodes(g) /\ m <= k
    BY <2>1, Topological DEF Nodes
  <2>3. \A m \in Fanins(g, k + 1) : L[m] \in 0..k
    BY <1>4, <2>1, <2>2
  <2>4. L[k + 1] = LevelAt(g, L, k + 1)
    BY <1>1
  <2>5. CASE Fanins(g, k + 1) = {}
    BY <2>4, <2>5 DEF LevelAt
  <2>6. CASE Fanins(g, k + 1) # {}
    <3>1. {L[m] : m \in Fanins(g, k + 1)} \in SUBSET (0..k)
      BY <2>3
    <3>2. {L[m] : m \in Fanins(g, k + 1)} # {}
      BY <2>6
    <3>3. Max({L[m] : m \in Fanins(g, k + 1)}) \in 0..k
      BY <3>1, <3>2, MaxOfNats
    <3> QED BY <2>4, <2>6, <3>3 DEF LevelAt
  <2> QED BY <2>5, <2>6
<1>5. \A k \in Nat : k \in S
  <2> HIDE DEF S
  <2> QED BY <1>3, <1>4, NatInduct
<1>6. ASSUME NEW n \in Nodes(g) PROVE L[n] \in 0..n
  <2>1. n \in Nat
    BY Topological DEF Nodes
  <2>2. n \in S
    BY <1>5, <2>1
  <2> QED BY <2>1, <2>2
<1>7. L = [n \in Nodes(g) |-> L[n]] /\ \A n \in Nodes(g) : L[n] = LevelAt(g, L, n)
  BY <1>1
<1> QED BY <1>2, <1>6, <1>7

\* The array after n nodes: their levels, and zeros.
PassUpTo(g, n) == [m \in Nodes(g) |-> IF m < n THEN ExtractedLevels(g)[m] ELSE 0]

\* One step of the pass.
PassStep(g, done, n) ==
  IF Levelled(g, n) THEN [done EXCEPT ![n] = Max({done[m] : m \in Fanins(g, n)}) + 1]
  ELSE done

LEMMA PassAdvances ==
  ASSUME NEW g, WellFormed(g), NEW n \in Nodes(g)
  PROVE  PassStep(g, PassUpTo(g, n), n) = PassUpTo(g, n + 1)
<1> DEFINE L == ExtractedLevels(g)
           done == PassUpTo(g, n)
<1>1. n \in Nat /\ Nodes(g) \subseteq Nat
  BY Topological DEF Nodes
<1>2. Fanins(g, n) \subseteq 0..n - 1 /\ (Levelled(g, n) <=> Fanins(g, n) # {})
  BY Topological
<1>3. L[n] = LevelAt(g, L, n) /\ \A m \in Nodes(g) : L[m] \in 0..m
  BY LevelsUnfold
<1> HIDE DEF L
<1>4. \A m \in Nodes(g) : done[m] = IF m < n THEN L[m] ELSE 0
  BY DEF PassUpTo, L
<1>5. DOMAIN done = Nodes(g)
  BY DEF PassUpTo
<1>6. PassUpTo(g, n + 1) = [m \in Nodes(g) |-> IF m = n THEN L[n] ELSE done[m]]
  <2>1. \A m \in Nodes(g) : (IF m < n + 1 THEN L[m] ELSE 0) = (IF m = n THEN L[n] ELSE done[m])
    BY <1>1, <1>4
  <2> QED BY <2>1 DEF PassUpTo, L
<1> HIDE DEF done
<1>7. CASE Levelled(g, n)
  <2>1. \A m \in Fanins(g, n) : m \in Nodes(g) /\ m < n
    BY <1>1, <1>2, Topological DEF Nodes
  <2>2. \A m \in Fanins(g, n) : done[m] = L[m]
    BY <1>4, <2>1
  <2>3. {done[m] : m \in Fanins(g, n)} = {L[m] : m \in Fanins(g, n)}
    BY <2>2
  <2> DEFINE T == {L[m] : m \in Fanins(g, n)}
  <2>4. L[n] = 1 + Max(T)
    BY <1>2, <1>3, <1>7 DEF LevelAt
  <2>5. Max(T) \in Int
    <3>1. T \in SUBSET (0..n)
      BY <1>1, <1>3, <2>1
    <3>2. T # {}
      BY <1>2, <1>7
    <3> HIDE DEF T
    <3>3. Max(T) \in 0..n
      BY <1>1, <3>1, <3>2, MaxOfNats
    <3> QED BY <3>3
  <2>6. PassStep(g, done, n) = [done EXCEPT ![n] = L[n]]
    <3> HIDE DEF T
    <3>1. {done[m] : m \in Fanins(g, n)} = T
      BY <2>3 DEF T
    <3>2. Max({done[m] : m \in Fanins(g, n)}) + 1 = L[n]
      BY <2>4, <2>5, <3>1
    <3> QED BY <1>7, <3>2 DEF PassStep
  <2> QED BY <1>5, <1>6, <2>6 DEF done
<1>8. CASE ~Levelled(g, n)
  <2>1. L[n] = 0
    BY <1>2, <1>3, <1>8 DEF LevelAt
  <2>2. done[n] = 0
    BY <1>1, <1>4
  <2>3. PassStep(g, done, n) = done
    BY <1>8 DEF PassStep
  <2>4. [m \in Nodes(g) |-> IF m = n THEN L[n] ELSE done[m]] = done
    BY <1>5, <2>1, <2>2 DEF PassUpTo, done
  <2> QED BY <1>6, <2>3, <2>4 DEF done
<1> QED BY <1>7, <1>8


\* The single pass of compute_node_levels is enough.
LEMMA PassIsEnough ==
  ASSUME NEW g, WellFormed(g)
  PROVE  NodeLevels(g) = ExtractedLevels(g)
<1> DEFINE N == NumNodes(g)
           Sol(f) == f = [n \in 0..N |-> IF n = 0 THEN [m \in Nodes(g) |-> 0]
                                         ELSE PassStep(g, f[n - 1], n - 1)]
           A == CHOOSE f : Sol(f)
           h == [n \in 0..N |-> PassUpTo(g, n)]
<1>1. N \in Nat /\ \A n \in 1..N : n - 1 \in Nodes(g)
  BY Topological DEF Nodes
<1>2. PassUpTo(g, 0) = [m \in Nodes(g) |-> 0]
  <2>1. \A m \in Nodes(g) : ~(m < 0)
    BY <1>1 DEF Nodes
  <2> QED BY <2>1 DEF PassUpTo
<1>3. ASSUME NEW n \in 1..N PROVE PassStep(g, PassUpTo(g, n - 1), n - 1) = PassUpTo(g, n)
  <2>1. n - 1 \in Nodes(g) /\ (n - 1) + 1 = n
    BY <1>1
  <2>2. PassStep(g, PassUpTo(g, n - 1), n - 1) = PassUpTo(g, (n - 1) + 1)
    BY <2>1, PassAdvances
  <2> QED BY <2>1, <2>2
<1>4. Sol(h)
  <2>1. ASSUME NEW n \in 0..N
        PROVE  h[n] = IF n = 0 THEN [m \in Nodes(g) |-> 0] ELSE PassStep(g, h[n - 1], n - 1)
    <3>1. CASE n = 0
      BY <1>2, <3>1
    <3>2. CASE n # 0
      <4>1. n \in 1..N /\ n - 1 \in 0..N
        BY <1>1, <3>2
      <4>2. h[n] = PassUpTo(g, n) /\ h[n - 1] = PassUpTo(g, n - 1)
        BY <4>1
      <4> QED BY <1>3, <3>2, <4>1, <4>2
    <3> QED BY <3>1, <3>2
  <2> QED BY <2>1
<1>5. Sol(A)
  BY <1>4
<1>6. NodeLevels(g) = A[N]
  BY DEF NodeLevels, PassStep
<1> HIDE DEF A, h
<1> DEFINE S == {k \in Nat : k <= N => A[k] = PassUpTo(g, k)}
<1>7. 0 \in S
  BY <1>1, <1>2, <1>5
<1>8. ASSUME NEW k \in Nat, k \in S PROVE k + 1 \in S
  <2> SUFFICES ASSUME k + 1 <= N PROVE A[k + 1] = PassUpTo(g, k + 1)
    OBVIOUS
  <2>1. k + 1 \in 1..N /\ k + 1 \in 0..N /\ k + 1 # 0 /\ (k + 1) - 1 = k /\ k <= N
    BY <1>1
  <2>2. A[k + 1] = PassStep(g, A[k], k)
    BY <1>5, <2>1
  <2>3. A[k] = PassUpTo(g, k)
    BY <1>8, <2>1
  <2>4. PassStep(g, PassUpTo(g, k), k) = PassUpTo(g, k + 1)
    BY <1>3, <2>1
  <2> QED BY <2>2, <2>3, <2>4
<1>9. N \in S
  <2> HIDE DEF S, Sol, N
  <2> QED BY <1>1, <1>7, <1>8, NatInduct
<1>10. PassUpTo(g, N) = ExtractedLevels(g)
  <2>1. \A m \in Nodes(g) : m < N
    BY <1>1 DEF Nodes
  <2>2. ExtractedLevels(g) = [m \in Nodes(g) |-> ExtractedLevels(g)[m]]
    BY LevelsUnfold
  <2> QED BY <2>1, <2>2 DEF PassUpTo
<1> QED BY <1>1, <1>6, <1>9, <1>10


\* An index whose entries are the levels of the files they name.
RightEntries(x) ==
  \A f \in DOMAIN x : f \in Files /\ x[f] = ExtractedLevels(content[f])

\* Whatever is read, accumulated, loaded or answered came from right entries.
LevelInv ==
  /\ content \in Catalogue
  /\ RightEntries(index)
  /\ \A r \in Runs : RightEntries(run[r].index)
  /\ memo # Unread => RightEntries(memo)
  /\ answer # <<>> => answer[2] = ExtractedLevels(content[answer[1]])

LEMMA InitLevels == Init => LevelInv
  BY DEF Init, LevelInv, RightEntries, Empty, Idle

LEMMA NodeLevelsRight ==
  ASSUME content \in Catalogue, NEW f \in Files
  PROVE  NodeLevels(content[f]) = ExtractedLevels(content[f])
<1>1. WellFormed(content[f])
  BY CatalogueAssumption DEF Files
<1> QED BY <1>1, PassIsEnough

\* A step of one run.
LEMMA RunLevels ==
  ASSUME LevelInv, content' = content, memo' = memo, answer' = answer,
         NEW r \in Runs, \A s \in Runs : s # r => run'[s] = run[s],
         RightEntries(run'[r].index), RightEntries(index')
  PROVE  LevelInv'
<1>1. ASSUME NEW s \in Runs PROVE RightEntries(run'[s].index)
  BY DEF LevelInv
<1> QED
  BY <1>1 DEF LevelInv, RightEntries, Files

LEMMA StepLevels == HoldInv /\ LevelInv /\ [Next]_vars => LevelInv'
<1> SUFFICES ASSUME HoldInv, LevelInv, [Next]_vars PROVE LevelInv'
  OBVIOUS
<1>1. ASSUME NEW r \in Runs, Start(r) \/ StartBlind(r) PROVE LevelInv'
  <2>1. PICK found \in {index, Empty} : Begin(r, found)
    BY <1>1 DEF Start, StartBlind
  <2>2. /\ run' = [run EXCEPT ![r] = [Idle EXCEPT !.phase = "scan", !.index = found]]
        /\ UNCHANGED <<content, index, memo, answer>>
    BY <2>1 DEF Begin
  <2>3. /\ \A s \in Runs : s # r => run'[s] = run[s]
        /\ run'[r].index = found
    BY <2>2 DEF HoldInv, RunShape, Idle
  <2>4. RightEntries(index) /\ RightEntries(Empty)
    BY DEF LevelInv, RightEntries, Empty
  <2> QED BY <2>2, <2>3, <2>4, RunLevels
<1>2. ASSUME NEW r \in Runs, Scan(r) PROVE LevelInv'
  <2>1. /\ run' = [run EXCEPT ![r].phase = "compute",
                              ![r].todo = present \ DOMAIN run[r].index]
        /\ UNCHANGED <<content, index, memo, answer>>
    BY <1>2 DEF Scan
  <2>2. run' = [run EXCEPT ![r] = [run[r] EXCEPT !.phase = "compute",
                                                 !.todo = present \ DOMAIN run[r].index]]
    BY <2>1 DEF HoldInv, RunShape
  <2>3. /\ \A s \in Runs : s # r => run'[s] = run[s]
        /\ run'[r].index = run[r].index
    BY <2>2 DEF HoldInv, RunShape
  <2>4. RightEntries(index) /\ RightEntries(run[r].index)
    BY DEF LevelInv
  <2> QED BY <2>1, <2>3, <2>4, RunLevels
<1>3. ASSUME NEW r \in Runs, NEW f \in Files, Collect(r, f) PROVE LevelInv'
  <2> DEFINE acc == IF f \in present
                    THEN [x \in DOMAIN run[r].index \cup {f} |->
                            IF x = f THEN NodeLevels(content[f]) ELSE run[r].index[x]]
                    ELSE run[r].index
             wins == run[r].successes + (IF f \in present THEN 1 ELSE 0)
  <2>1. /\ run' = [run EXCEPT ![r].index = acc, ![r].todo = @ \ {f}, ![r].successes = wins]
        /\ index' = acc \/ index' = index
        /\ UNCHANGED <<content, memo, answer>>
    BY <1>3 DEF Collect
  <2>2. RightEntries(acc)
    <3>1. NodeLevels(content[f]) = ExtractedLevels(content[f])
      BY NodeLevelsRight DEF LevelInv
    <3>2. RightEntries(run[r].index)
      BY DEF LevelInv
    <3> QED BY <3>1, <3>2 DEF RightEntries
  <2> HIDE DEF acc, wins
  <2>3. run' = [run EXCEPT ![r] = [run[r] EXCEPT !.index = acc, !.todo = @ \ {f},
                                                 !.successes = wins]]
    BY <2>1 DEF HoldInv, RunShape
  <2>4. /\ \A s \in Runs : s # r => run'[s] = run[s]
        /\ run'[r].index = acc
    BY <2>3 DEF HoldInv, RunShape
  <2>5. RightEntries(index)
    BY DEF LevelInv
  <2> QED BY <2>1, <2>2, <2>4, <2>5, RunLevels
<1>4. ASSUME NEW r \in Runs, Finish(r) \/ Crash(r) PROVE LevelInv'
  <2>1. /\ run' = [run EXCEPT ![r] = Idle]
        /\ index' = run[r].index \/ index' = index
        /\ UNCHANGED <<content, memo, answer>>
    BY <1>4 DEF Finish, Crash
  <2>2. /\ \A s \in Runs : s # r => run'[s] = run[s]
        /\ run'[r].index = Empty
    BY <2>1 DEF HoldInv, RunShape, Idle
  <2>3. RightEntries(index) /\ RightEntries(run[r].index) /\ RightEntries(Empty)
    BY DEF LevelInv, RightEntries, Empty
  <2> QED BY <2>1, <2>2, <2>3, RunLevels
<1>5. ASSUME NEW f \in Files, LookUp(f) PROVE LevelInv'
  <2>1. /\ memo # Unread
        /\ answer' = <<f, IF f \in DOMAIN memo THEN memo[f] ELSE NodeLevels(content[f])>>
        /\ UNCHANGED <<content, index, run, memo>>
    BY <1>5 DEF LookUp
  <2>2. RightEntries(memo) /\ NodeLevels(content[f]) = ExtractedLevels(content[f])
    BY <2>1, NodeLevelsRight DEF LevelInv
  <2>3. answer'[1] = f /\ answer'[2] = ExtractedLevels(content[f])
    BY <2>1, <2>2 DEF RightEntries
  <2> QED BY <2>1, <2>3 DEF LevelInv, RightEntries, Files
<1>6. ASSUME Load \/ NewReader PROVE LevelInv'
  <2>1. /\ UNCHANGED <<content, index, run>>
        /\ memo' = index \/ memo' = Unread
        /\ answer' = answer \/ answer' = <<>>
    BY <1>6 DEF Load, NewReader
  <2> QED BY <2>1 DEF LevelInv, RightEntries, Files
<1>7. ASSUME (\E f \in Files : FileAppears(f) \/ FileGoes(f)) \/ UNCHANGED vars
      PROVE  LevelInv'
  <2>1. UNCHANGED <<content, index, run, memo, answer>>
    BY <1>7 DEF FileAppears, FileGoes, vars
  <2> QED BY <2>1 DEF LevelInv, RightEntries, Files
<1> QED
  BY <1>1, <1>2, <1>3, <1>4, <1>5, <1>6, <1>7 DEF Next

(* Every entry of the index and every answer is the levels that the AIG    *)
(* itself has, for any graphs, any kills and any number of runs at once.   *)
THEOREM LevelsAreRight == Spec => []LevelsRight
<1>1. Spec => []LevelInv
  BY InitLevels, StepLevels, HoldInductive, PTL DEF Spec
<1>2. LevelInv => LevelsRight
  BY DEF LevelInv, RightEntries, LevelsRight
<1> QED
  BY <1>1, <1>2, PTL

-----------------------------------------------------------------------------
(* What the index forgets.                                                 *)

\* A run by itself accounts for every file: it has an entry, is still to be
\* done, or was not there.
AccountInv ==
  \A r \in Runs : Active(r) /\ r \notin overlapped =>
    /\ Files \ present \subseteq absent
    /\ run[r].phase = "compute" =>
         Files \subseteq DOMAIN run[r].index \cup run[r].todo \cup absent

LEMMA StepAccount == HoldInv /\ AccountInv /\ [Next]_vars => AccountInv'
<1> SUFFICES ASSUME HoldInv, AccountInv, [Next]_vars,
                    NEW s \in Runs, Active(s)', s \notin overlapped'
             PROVE  /\ (Files \ present \subseteq absent)'
                    /\ run'[s].phase = "compute" =>
                         (Files \subseteq DOMAIN run[s].index \cup run[s].todo \cup absent)'
  BY DEF AccountInv
<1>1. ASSUME NEW r \in Runs, Start(r) \/ StartBlind(r)
      PROVE  /\ (Files \ present \subseteq absent)'
             /\ run'[s].phase # "compute"
  <2>1. PICK found : Begin(r, found)
    BY <1>1 DEF Start, StartBlind
  <2>2. /\ content' = content /\ present' = present /\ absent' = Files \ present
        /\ run' = [run EXCEPT ![r] = [Idle EXCEPT !.phase = "scan", !.index = found]]
        /\ overlapped' = IF Running = {} THEN overlapped \ {r}
                         ELSE overlapped \cup Running \cup {r}
    BY <2>1 DEF Begin
  <2>3. /\ \A t \in Runs : t # r => run'[t] = run[t]
        /\ run'[r].phase = "scan"
    BY <2>2 DEF HoldInv, RunShape, Idle
  <2>4. s = r
    BY <2>2, <2>3 DEF Active, Running
  <2> QED BY <2>2, <2>3, <2>4 DEF Files
<1>2. ASSUME NEW r \in Runs, Scan(r) \/ (\E f \in Files : Collect(r, f)) \/ Finish(r) \/ Crash(r)
      PROVE  /\ (Files \ present \subseteq absent)'
             /\ run'[s].phase = "compute" =>
                  (Files \subseteq DOMAIN run[s].index \cup run[s].todo \cup absent)'
  <2>1. /\ UNCHANGED <<content, present, overlapped, absent>> /\ Active(r)
    BY <1>2 DEF Scan, Collect, Finish, Crash, Active, history
  <2>2. \A t \in Runs : t # r => run'[t] = run[t]
    <3>1. ASSUME Scan(r) \/ Finish(r) \/ Crash(r), NEW t \in Runs, t # r
          PROVE  run'[t] = run[t]
      BY <3>1 DEF Scan, Finish, Crash, HoldInv, RunShape
    <3>2. ASSUME NEW f \in Files, Collect(r, f), NEW t \in Runs, t # r
          PROVE  run'[t] = run[t]
      BY <3>2 DEF Collect, HoldInv, RunShape
    <3> QED BY <1>2, <3>1, <3>2
  <2>3. CASE s # r
    BY <2>1, <2>2, <2>3 DEF AccountInv, Active, Files
  <2>4. CASE s = r
    <3>1. Files' = Files /\ Files \ present \subseteq absent
      BY <2>1, <2>4 DEF AccountInv, Files
    <3>2. CASE Scan(r)
      <4>1. run' = [run EXCEPT ![r] = [run[r] EXCEPT !.phase = "compute",
                                                     !.todo = present \ DOMAIN run[r].index]]
        BY <3>2 DEF Scan, HoldInv, RunShape
      <4>2. run'[r].index = run[r].index /\ run'[r].todo = present \ DOMAIN run[r].index
        BY <4>1 DEF HoldInv, RunShape
      <4> QED BY <2>1, <2>4, <3>1, <4>2
    <3>3. ASSUME NEW f \in Files, Collect(r, f)
          PROVE  (Files \subseteq DOMAIN run[r].index \cup run[r].todo \cup absent)'
      <4> DEFINE acc == IF f \in present
                        THEN [x \in DOMAIN run[r].index \cup {f} |->
                                IF x = f THEN NodeLevels(content[f]) ELSE run[r].index[x]]
                        ELSE run[r].index
                 wins == run[r].successes + (IF f \in present THEN 1 ELSE 0)
      <4>1. /\ run' = [run EXCEPT ![r].index = acc, ![r].todo = @ \ {f}, ![r].successes = wins]
            /\ run[r].phase = "compute"
        BY <3>3 DEF Collect
      <4>2. DOMAIN run[r].index \subseteq DOMAIN acc /\ (f \in present => f \in DOMAIN acc)
        OBVIOUS
      <4> HIDE DEF acc, wins
      <4>3. run' = [run EXCEPT ![r] = [run[r] EXCEPT !.index = acc, !.todo = @ \ {f},
                                                     !.successes = wins]]
        BY <4>1 DEF HoldInv, RunShape
      <4>4. run'[r].index = acc /\ run'[r].todo = run[r].todo \ {f}
        BY <4>3 DEF HoldInv, RunShape
      <4>5. Files \subseteq DOMAIN run[r].index \cup run[r].todo \cup absent
        BY <2>1, <2>4, <4>1 DEF AccountInv
      <4> QED BY <2>1, <3>1, <4>2, <4>4, <4>5
    <3>4. ~(Finish(r) \/ Crash(r))
      BY <2>4 DEF Finish, Crash, HoldInv, RunShape, Idle, Active
    <3> QED BY <1>2, <2>1, <2>4, <3>1, <3>2, <3>3, <3>4
  <2> QED BY <2>3, <2>4
<1>3. ASSUME \/ Load \/ NewReader
             \/ \E f \in Files : LookUp(f) \/ FileAppears(f) \/ FileGoes(f)
             \/ UNCHANGED vars
      PROVE  /\ (Files \ present \subseteq absent)'
             /\ run'[s].phase = "compute" =>
                  (Files \subseteq DOMAIN run[s].index \cup run[s].todo \cup absent)'
  <2>1. /\ UNCHANGED <<content, run, overlapped>>
        /\ absent \subseteq absent' /\ present \ present' \subseteq absent'
    BY <1>3 DEF Load, NewReader, LookUp, FileAppears, FileGoes, vars, history
  <2> QED BY <2>1 DEF AccountInv, Active, Files
<1> QED BY <1>1, <1>2, <1>3 DEF Next

\* A run that writes keeps what it has, and of the rest only what it accounts
\* for can be lost.
LEMMA WritesLose ==
  ASSUME HoldInv, LevelInv, AccountInv, NEW r \in Runs,
         Finish(r) \/ \E x \in Files : Collect(r, x),
         NEW f \in DOMAIN index \ DOMAIN index', r \notin overlapped
  PROVE  r \in blind /\ f \in run'[r].todo \cup absent
<1>1. /\ Active(r) /\ run[r].phase = "compute" /\ f \in Files
  BY DEF Finish, Collect, Active, LevelInv, RightEntries
<1>2. /\ r \notin blind => f \in DOMAIN run[r].index
      /\ Files \ present \subseteq absent
      /\ f \in DOMAIN run[r].index \cup run[r].todo \cup absent
  BY <1>1 DEF HoldInv, AccountInv
<1>3. CASE Finish(r)
  <2>1. run[r].todo = {} /\ index' = run[r].index
    BY <1>3 DEF Finish
  <2> QED BY <1>2, <2>1
<1>4. ASSUME NEW x \in Files, Collect(r, x)
      PROVE  r \in blind /\ f \in run'[r].todo \cup absent
  <2> DEFINE acc == IF x \in present
                    THEN [y \in DOMAIN run[r].index \cup {x} |->
                            IF y = x THEN NodeLevels(content[x]) ELSE run[r].index[y]]
                    ELSE run[r].index
             wins == run[r].successes + (IF x \in present THEN 1 ELSE 0)
  <2>1. /\ run' = [run EXCEPT ![r].index = acc, ![r].todo = @ \ {x}, ![r].successes = wins]
        /\ index' = acc \/ index' = index
    BY <1>4 DEF Collect
  <2>2. /\ DOMAIN run[r].index \subseteq DOMAIN acc
        /\ x \in present => x \in DOMAIN acc
    OBVIOUS
  <2> HIDE DEF acc, wins
  <2>3. run' = [run EXCEPT ![r] = [run[r] EXCEPT !.index = acc, !.todo = @ \ {x},
                                                 !.successes = wins]]
    BY <2>1 DEF HoldInv, RunShape
  <2>4. run'[r].todo = run[r].todo \ {x}
    BY <2>3 DEF HoldInv, RunShape
  <2>5. f \notin DOMAIN acc
    BY <2>1
  <2> QED BY <1>1, <1>2, <2>2, <2>4, <2>5
<1> QED BY <1>3, <1>4

(* An entry is lost only to a run that was overlapped by another, or to    *)
(* one that could not read the index and has the file still to do, for any *)
(* files, cadence, kills and failed reads.                                 *)
THEOREM ForgetsForCause == Spec => ForgetsOnlyForCause
<1> DEFINE Law == \A f \in DOMAIN index \ DOMAIN index' : \E r \in Runs :
                    /\ Finish(r) \/ \E x \in Files : Collect(r, x)
                    /\ \/ r \in overlapped
                       \/ r \in blind /\ f \in run'[r].todo \cup absent
<1>1. HoldInv /\ LevelInv /\ AccountInv /\ [Next]_vars => [Law]_vars
  <2> SUFFICES ASSUME HoldInv, LevelInv, AccountInv, Next,
                      NEW f \in DOMAIN index \ DOMAIN index'
               PROVE  \E r \in Runs :
                        /\ Finish(r) \/ \E x \in Files : Collect(r, x)
                        /\ \/ r \in overlapped
                           \/ r \in blind /\ f \in run'[r].todo \cup absent
    OBVIOUS
  <2>1. index' # index
    OBVIOUS
  <2>2. PICK r \in Runs : Finish(r) \/ \E x \in Files : Collect(r, x)
    BY <2>1 DEF Next, Start, StartBlind, Begin, Scan, Crash, Load, NewReader, LookUp,
                FileAppears, FileGoes
  <2> QED BY <2>2, WritesLose
<1>2. Init => AccountInv
  BY DEF Init, AccountInv, Active, Idle
<1> QED
  BY <1>1, <1>2, StepAccount, InitLevels, StepLevels, HoldInductive, InitHold,
     PTL DEF Spec, ForgetsOnlyForCause

-----------------------------------------------------------------------------
(* Reductions keep the order and the edges, for any well-formed graph.     *)

\* The members of S that R puts before n, and how many they are.
Before(S, R, n) == {m \in S : <<m, n>> \in R}
Place(S, R, n) == Cardinality(Before(S, R, n))

\* R orders S strictly and totally.
Orders(R, S) ==
  /\ \A m \in S : <<m, m>> \notin R
  /\ \A l, m, n \in S : <<l, m>> \in R /\ <<m, n>> \in R => <<l, n>> \in R
  /\ \A m, n \in S : m # n => <<m, n>> \in R \/ <<n, m>> \in R

\* Places grow with the order and number the set from 0.
LEMMA Places ==
  ASSUME NEW S, IsFiniteSet(S), NEW R, Orders(R, S)
  PROVE  /\ Cardinality(S) \in Nat
         /\ \A n \in S : Place(S, R, n) \in 0..Cardinality(S) - 1
         /\ \A m, n \in S : <<m, n>> \in R => Place(S, R, m) < Place(S, R, n)
         /\ \A m, n \in S : Place(S, R, m) = Place(S, R, n) => m = n
         /\ \A i \in 0..Cardinality(S) - 1 : \E n \in S : Place(S, R, n) = i
<1> DEFINE C == Cardinality(S)
<1>1. C \in Nat
  BY FS_CardinalityType
<1>2. ASSUME NEW n \in S
      PROVE  IsFiniteSet(Before(S, R, n)) /\ Place(S, R, n) \in Nat
  <2>1. Before(S, R, n) \in SUBSET S
    BY DEF Before
  <2>2. IsFiniteSet(Before(S, R, n))
    BY <2>1, FS_Subset
  <2> QED BY <2>2, FS_CardinalityType DEF Place
<1>3. ASSUME NEW n \in S PROVE Place(S, R, n) \in 0..C - 1
  <2>1. Before(S, R, n) \in SUBSET (S \ {n})
    BY DEF Before, Orders
  <2>2. IsFiniteSet(S \ {n}) /\ Cardinality(S \ {n}) = C - 1
    BY FS_RemoveElement
  <2>3. Place(S, R, n) <= C - 1
    BY <2>1, <2>2, FS_Subset DEF Place
  <2> QED BY <1>1, <1>2, <2>3
<1>4. ASSUME NEW m \in S, NEW n \in S, <<m, n>> \in R
      PROVE  Place(S, R, m) < Place(S, R, n)
  <2> DEFINE B == Before(S, R, m)
  <2>1. m \notin B
    BY DEF Before, Orders
  <2>2. B \cup {m} \in SUBSET Before(S, R, n)
    BY <1>4 DEF Before, Orders
  <2>3. Cardinality(B \cup {m}) = Place(S, R, m) + 1
    BY <1>2, <2>1, FS_AddElement DEF Place
  <2>4. Cardinality(B \cup {m}) <= Place(S, R, n)
    BY <1>2, <2>2, FS_Subset DEF Place
  <2> QED BY <1>2, <2>3, <2>4
<1>5. ASSUME NEW m \in S, NEW n \in S, Place(S, R, m) = Place(S, R, n)
      PROVE  m = n
  <2> SUFFICES ASSUME m # n PROVE FALSE
    OBVIOUS
  <2>1. <<m, n>> \in R \/ <<n, m>> \in R
    BY DEF Orders
  <2>2. Place(S, R, m) < Place(S, R, n) \/ Place(S, R, n) < Place(S, R, m)
    BY <1>4, <2>1
  <2> QED BY <1>2, <1>5, <2>2
<1>6. ASSUME NEW i \in 0..C - 1 PROVE \E n \in S : Place(S, R, n) = i
  <2> DEFINE f == [n \in S |-> Place(S, R, n)]
  <2>1. f \in Injection(S, 0..C - 1)
    BY <1>3, <1>5 DEF Injection, IsInjective
  <2>2. IsFiniteSet(0..C - 1) /\ Cardinality(0..C - 1) = C
    BY <1>1, FS_Interval
  <2>3. f \in Surjection(S, 0..C - 1)
    BY <2>1, <2>2, FS_Injection
  <2> QED BY <2>3 DEF Surjection
<1> QED BY <1>1, <1>3, <1>4, <1>5, <1>6

\* A nonempty set of naturals up to n has a greatest member, which Max is.
LEMMA GreatestOfNats ==
  ASSUME NEW n \in Nat, NEW T \in SUBSET (0..n), T # {}
  PROVE  Max(T) \in Nat /\ Max(T) \in T /\ \A y \in T : y \in Nat /\ y <= Max(T)
<1> DEFINE D == {y + 1 : y \in T}
<1>0. \A y \in T : y \in 0..n /\ y + 1 \in 1..n + 1
  OBVIOUS
<1>1. D \in SUBSET (1..n + 1) /\ D # {}
  BY <1>0, Zenon
<1>2. PICK d \in D : \A e \in D : e <= d
  <2>1. n + 1 \in Nat
    OBVIOUS
  <2> HIDE DEF D
  <2> QED BY <1>1, <2>1, GreatestUpTo
<1>3. PICK x \in T : d = x + 1
  OBVIOUS
<1>4. \A y \in T : x >= y
  <2> TAKE y \in T
  <2>1. y + 1 <= x + 1
    BY <1>2, <1>3
  <2> QED BY <2>1
<1>5. Max(T) \in T /\ \A y \in T : Max(T) >= y
  BY <1>4 DEF Max
<1> QED BY <1>5

\* Nodes are finitely many naturals.
LEMMA NodesFinite ==
  ASSUME NEW g, WellFormed(g)
  PROVE  /\ IsFiniteSet(Nodes(g)) /\ Cardinality(Nodes(g)) = NumNodes(g)
         /\ Nodes(g) \subseteq Nat
<1>1. NumNodes(g) \in Nat /\ NumNodes(g) >= 1
  BY Topological
<1>2. 0 \in Int /\ NumNodes(g) - 1 \in Int
  BY <1>1
<1>3. IsFiniteSet(0..NumNodes(g) - 1) /\ Cardinality(0..NumNodes(g) - 1) = NumNodes(g)
  BY <1>1, <1>2, FS_Interval
<1> QED BY <1>1, <1>3 DEF Nodes

\* Edges lead to higher indices and to higher levels.
LEMMA EdgesClimb ==
  ASSUME NEW g, WellFormed(g), NEW e \in Edges(g)
  PROVE  /\ e = <<e[1], e[2]>> /\ e[1] \in Nodes(g) /\ e[2] \in Nodes(g)
         /\ e[1] < e[2]
         /\ ExtractedLevels(g)[e[1]] < ExtractedLevels(g)[e[2]]
<1> DEFINE L == ExtractedLevels(g)
           T == {L[m] : m \in Fanins(g, e[2])}
<1>1. /\ e = <<e[1], e[2]>> /\ e[1] \in Nodes(g) /\ e[2] \in Nodes(g)
      /\ e[1] \in Fanins(g, e[2])
  BY DEF Edges
<1>2. Fanins(g, e[2]) \subseteq 0..e[2] - 1 /\ Nodes(g) \subseteq Nat
  BY <1>1, Topological, NodesFinite
<1>3. e[1] < e[2]
  BY <1>1, <1>2
<1>4. L[e[2]] = 1 + Max(T)
  BY <1>1, LevelsUnfold DEF LevelAt
<1>5. \A m \in Fanins(g, e[2]) : m \in Nodes(g) /\ L[m] \in 0..m
  <2>1. \A m \in Fanins(g, e[2]) : m \in Nodes(g)
    BY <1>1, <1>2, Topological DEF Nodes
  <2> QED BY <2>1, LevelsUnfold
<1> HIDE DEF L
<1>6. T \in SUBSET (0..e[2]) /\ L[e[1]] \in T /\ e[2] \in Nat
  BY <1>1, <1>2, <1>5
<1> HIDE DEF T
<1>7. Max(T) \in Nat /\ L[e[1]] <= Max(T) /\ L[e[1]] \in Nat
  BY <1>6, GreatestOfNats
<1>8. L[e[1]] < L[e[2]]
  BY <1>4, <1>7
<1> QED BY <1>1, <1>3, <1>8 DEF L

-----------------------------------------------------------------------------
(* Compaction                                                              *)

Ascending == {e \in Nat \X Nat : e[1] < e[2]}

\* NewIndex numbers the kept nodes from 0 in their order.
LEMMA NewIndexPlaces ==
  ASSUME NEW g, WellFormed(g), NEW keep \in SUBSET Nodes(g)
  PROVE  /\ Cardinality(keep) \in Nat
         /\ \A n \in keep : /\ NewIndex(keep, n) \in 0..Cardinality(keep) - 1
                            /\ NewIndex(keep, n) = Cardinality({m \in keep : m < n})
         /\ \A m, n \in keep : m < n => NewIndex(keep, m) < NewIndex(keep, n)
         /\ \A m, n \in keep : NewIndex(keep, m) = NewIndex(keep, n) => m = n
<1>1. IsFiniteSet(keep) /\ keep \subseteq Nat
  BY NodesFinite, FS_Subset
<1>2. \A m, n \in keep : <<m, n>> \in Ascending <=> m < n
  BY <1>1 DEF Ascending
<1>3. Orders(Ascending, keep)
  BY <1>1, <1>2 DEF Orders
<1>4. ASSUME NEW n \in keep
      PROVE  /\ NewIndex(keep, n) = Place(keep, Ascending, n)
             /\ Place(keep, Ascending, n) = Cardinality({m \in keep : m < n})
  <2> DEFINE B == {m \in keep : m < n}
  <2>1. Before(keep, Ascending, n) = B
    BY <1>2 DEF Before
  <2>2. {m \in keep : m <= n} = B \cup {n} /\ n \notin B
    <3>1. \A m \in keep : m <= n <=> m < n \/ m = n
      BY <1>1
    <3>2. n \notin B
      BY <1>1
    <3> QED BY <3>1, <3>2
  <2>3. IsFiniteSet(B)
    BY <1>1, FS_Subset
  <2>4. Cardinality(B) \in Nat /\ Cardinality(B \cup {n}) = Cardinality(B) + 1
    BY <2>2, <2>3, FS_AddElement, FS_CardinalityType
  <2> HIDE DEF B
  <2>5. NewIndex(keep, n) = Cardinality(B)
    <3>1. NewIndex(keep, n) = Cardinality(B \cup {n}) - 1
      BY <2>2 DEF NewIndex
    <3> QED BY <2>4, <3>1
  <2> QED BY <2>1, <2>5 DEF Place, B
<1>5. /\ Cardinality(keep) \in Nat
      /\ \A n \in keep : Place(keep, Ascending, n) \in 0..Cardinality(keep) - 1
      /\ \A m, n \in keep : m < n => Place(keep, Ascending, m) < Place(keep, Ascending, n)
      /\ \A m, n \in keep : Place(keep, Ascending, m) = Place(keep, Ascending, n) => m = n
  BY <1>1, <1>2, <1>3, Places
<1> QED BY <1>4, <1>5

\* The node that stands at index i after compaction.
OldIndex(keep, i) == CHOOSE n \in keep : Cardinality({m \in keep : m < n}) = i

\* The node at the new index of n is n.
LEMMA OldOfNew ==
  ASSUME NEW g, WellFormed(g), NEW keep \in SUBSET Nodes(g), NEW n \in keep
  PROVE  OldIndex(keep, NewIndex(keep, n)) = n
<1> DEFINE P(m) == Cardinality({l \in keep : l < m}) = NewIndex(keep, n)
<1>1. ASSUME NEW m \in keep PROVE P(m) <=> m = n
  <2>1. Cardinality({l \in keep : l < m}) = NewIndex(keep, m)
    <3>1. \A k \in keep : NewIndex(keep, k) = Cardinality({l \in keep : l < k})
      BY NewIndexPlaces
    <3> QED BY <3>1, Zenon
  <2>2. NewIndex(keep, m) = NewIndex(keep, n) => m = n
    BY NewIndexPlaces
  <2> QED BY <2>1, <2>2
<1>2. OldIndex(keep, NewIndex(keep, n)) = CHOOSE m \in keep : P(m)
  BY DEF OldIndex
<1> HIDE DEF P
<1>3. (CHOOSE m \in keep : P(m)) \in keep /\ P(CHOOSE m \in keep : P(m))
  BY <1>1
<1> QED BY <1>1, <1>2, <1>3

\* Whatever is kept, its nodes keep their order and its edges are those of
\* the graph between kept nodes, one for one.
LEMMA Compacts ==
  ASSUME NEW g, WellFormed(g), NEW keep \in SUBSET Nodes(g)
  PROVE  /\ Compacted(g, keep).nodes = Cardinality(keep)
         /\ \A e \in Compacted(g, keep).edges :
              0 <= e[1] /\ e[1] < e[2] /\ e[2] < Compacted(g, keep).nodes
         /\ {<<OldIndex(keep, e[1]), OldIndex(keep, e[2])>> : e \in Compacted(g, keep).edges}
              = Edges(g) \cap (keep \X keep)
<1> DEFINE new(n) == NewIndex(keep, n)
           kept == {e \in Edges(g) : e[1] \in keep /\ e[2] \in keep}
           c == Compacted(g, keep)
<1>1. c.nodes = Cardinality(keep) /\ c.edges = {<<new(e[1]), new(e[2])>> : e \in kept}
  BY DEF Compacted
<1>2. ASSUME NEW e \in c.edges PROVE 0 <= e[1] /\ e[1] < e[2] /\ e[2] < c.nodes
  <2>1. PICK d \in kept : e = <<new(d[1]), new(d[2])>>
    BY <1>1
  <2>2. d[1] < d[2] /\ d[1] \in keep /\ d[2] \in keep
    BY EdgesClimb
  <2>3. new(d[1]) < new(d[2]) /\ new(d[1]) \in 0..Cardinality(keep) - 1
        /\ new(d[2]) \in 0..Cardinality(keep) - 1 /\ Cardinality(keep) \in Nat
    BY <2>2, NewIndexPlaces
  <2> QED BY <1>1, <2>1, <2>3
<1>3. {<<OldIndex(keep, e[1]), OldIndex(keep, e[2])>> : e \in c.edges} = kept
  <2>1. ASSUME NEW d \in kept
        PROVE  <<OldIndex(keep, new(d[1])), OldIndex(keep, new(d[2]))>> = d
    <3>1. d = <<d[1], d[2]>>
      BY EdgesClimb
    <3> QED BY <3>1, OldOfNew
  <2>2. {<<OldIndex(keep, e[1]), OldIndex(keep, e[2])>> : e \in c.edges}
          = {<<OldIndex(keep, new(d[1])), OldIndex(keep, new(d[2]))>> : d \in kept}
    <3> DEFINE pair(e) == <<OldIndex(keep, e[1]), OldIndex(keep, e[2])>>
               image(d) == <<new(d[1]), new(d[2])>>
    <3>1. \A d : pair(image(d)) = <<OldIndex(keep, new(d[1])), OldIndex(keep, new(d[2]))>>
      OBVIOUS
    <3> HIDE DEF image
    <3>2. c.edges = {image(d) : d \in kept}
      BY <1>1 DEF image
    <3>3. {pair(e) : e \in c.edges} = {pair(image(d)) : d \in kept}
      <4> HIDE DEF pair, kept, c
      <4> QED BY <3>2
    <3> QED BY <3>1, <3>3
  <2> HIDE DEF kept, new, c
  <2>3. {<<OldIndex(keep, new(d[1])), OldIndex(keep, new(d[2]))>> : d \in kept} = kept
    BY <2>1
  <2> QED BY <2>2, <2>3
<1>4. kept = Edges(g) \cap (keep \X keep)
  BY EdgesClimb
<1> QED BY <1>1, <1>2, <1>3, <1>4

\* In a catalogue every graph is well formed, so compaction is sound.
LEMMA CompactionHolds == content \in Catalogue => CompactionSound
<1> SUFFICES ASSUME content \in Catalogue, NEW g \in Graphs,
                    NEW keep \in {AndGateOnly(g)} \cup {Nodes(g) \ {n} : n \in Nodes(g)}
             PROVE  LET c == Compacted(g, keep)
                        old(i) == CHOOSE n \in keep : Cardinality({m \in keep : m < n}) = i
                    IN  /\ c.nodes = Cardinality(keep)
                        /\ \A e \in c.edges : 0 <= e[1] /\ e[1] < e[2] /\ e[2] < c.nodes
                        /\ {<<old(e[1]), old(e[2])>> : e \in c.edges} = Edges(g) \cap (keep \X keep)
  BY DEF CompactionSound
<1>1. WellFormed(g)
  BY CatalogueAssumption DEF Graphs, Files
<1>2. keep \in SUBSET Nodes(g)
  BY DEF AndGateOnly
<1> QED BY <1>1, <1>2, Compacts DEF OldIndex

-----------------------------------------------------------------------------
(* Level slices                                                            *)

\* What a quotient is, and products of naturals, for the solver.
LEMMA Dividing ==
  ASSUME NEW a \in Nat, NEW b \in Nat \ {0}
  PROVE  a \div b \in Nat /\ (a \div b) * b <= a /\ a < (a \div b) * b + b
  OBVIOUS

LEMMA Times ==
  ASSUME NEW a \in Nat, NEW b \in Nat, NEW c \in Nat
  PROVE  /\ a * b \in Nat
         /\ a <= b => a * c <= b * c
         /\ a < b => a * c + c <= b * c
         /\ (a + 1) * c = a * c + c
         /\ (a + b) * c = a * c + b * c
  OBVIOUS

\* A quotient is the number whose multiple is next below.
LEMMA Quotient ==
  ASSUME NEW a \in Nat, NEW b \in Nat \ {0}, NEW q \in Nat
  PROVE  a \div b = q <=> q * b <= a /\ a < q * b + b
<1> DEFINE d == a \div b
<1>1. d \in Nat /\ d * b <= a /\ a < d * b + b
  BY Dividing
<1> HIDE DEF d
<1>2. ASSUME q * b <= a, a < q * b + b PROVE d = q
  <2>1. /\ d * b \in Nat /\ q * b \in Nat
        /\ d < q => d * b + b <= q * b
        /\ q < d => q * b + b <= d * b
    BY <1>1, Times
  <2>2. ~(d < q) /\ ~(q < d)
    BY <1>1, <1>2, <2>1
  <2> QED BY <1>1, <2>2
<1> QED BY <1>1, <1>2 DEF d

\* The least number whose multiple by k reaches a.
LEMMA Ceiling ==
  ASSUME NEW a \in Nat, NEW k \in Nat \ {0}
  PROVE  \E b \in Nat : /\ a <= b * k /\ b * k < a + k
                        /\ \A p \in Nat : a <= p * k <=> b <= p
<1> DEFINE q == a \div k
<1>1. q \in Nat /\ q * k <= a /\ a < q * k + k
  BY Dividing
<1> HIDE DEF q
<1> DEFINE b == IF a = q * k THEN q ELSE q + 1
<1>2. q * k \in Nat /\ (q + 1) * k = q * k + k
  BY <1>1, Times
<1>3. b \in Nat /\ a <= b * k /\ b * k < a + k
  BY <1>1, <1>2
<1> HIDE DEF b
<1>4. ASSUME NEW p \in Nat PROVE a <= p * k <=> b <= p
  <2>1. /\ p * k \in Nat /\ b * k \in Nat
        /\ b <= p => b * k <= p * k
        /\ p < b => p * k + k <= b * k
    BY <1>3, Times
  <2> QED BY <1>3, <2>1
<1> QED BY <1>3, <1>4

\* A position among N, scaled to k, is one of k numbers.
LEMMA Scaled ==
  ASSUME NEW N \in Nat \ {0}, NEW k \in Nat \ {0}, NEW p \in 0..N - 1
  PROVE  (p * k) \div N \in 0..k - 1
<1>1. p \in Nat /\ p < N
  OBVIOUS
<1>2. p * k \in Nat /\ p * k + k <= N * k
  BY <1>1, Times
<1> DEFINE d == (p * k) \div N
<1>3. d \in Nat /\ d * N <= p * k
  BY <1>2, Dividing
<1>4. k <= d => k * N <= d * N
  BY <1>3, Times
<1>5. k * N = N * k /\ k * N \in Nat /\ d * N \in Nat
  BY <1>3, Times
<1> HIDE DEF d
<1>6. ~(k <= d)
  BY <1>2, <1>3, <1>4, <1>5
<1> QED BY <1>3, <1>6 DEF d

\* Scaling keeps the order.
LEMMA ScaledGrows ==
  ASSUME NEW N \in Nat \ {0}, NEW k \in Nat \ {0}, NEW p \in Nat, NEW q \in Nat, p <= q
  PROVE  (p * k) \div N <= (q * k) \div N
<1> DEFINE a == p * k
           b == q * k
           c == a \div N
           d == b \div N
<1>1. a \in Nat /\ b \in Nat /\ a <= b
  BY Times
<1> HIDE DEF a, b
<1>2. c \in Nat /\ c * N <= a /\ a < c * N + N
  BY <1>1, Dividing
<1>3. d \in Nat /\ d * N <= b /\ b < d * N + N
  BY <1>1, Dividing
<1> HIDE DEF c, d
<1>4. d < c => d * N + N <= c * N
  BY <1>2, <1>3, Times
<1>5. c * N \in Nat /\ d * N \in Nat
  BY <1>2, <1>3, Times
<1>6. ~(d < c)
  BY <1>1, <1>2, <1>3, <1>4, <1>5
<1> QED BY <1>2, <1>3, <1>6 DEF a, b, c, d

\* Each of the k numbers gets its even share of the N positions.
LEMMA Shares ==
  ASSUME NEW N \in Nat \ {0}, NEW k \in Nat \ {0}, NEW i \in 0..k - 1
  PROVE  /\ IsFiniteSet({p \in 0..N - 1 : (p * k) \div N = i})
         /\ Cardinality({p \in 0..N - 1 : (p * k) \div N = i}) \in {N \div k, N \div k + 1}
<1> DEFINE P == {p \in 0..N - 1 : (p * k) \div N = i}
<1>1. i * N \in Nat /\ i * N + N \in Nat /\ i * N + N <= k * N /\ k * N = N * k
  <2>1. i \in Nat /\ i < k
    OBVIOUS
  <2> QED BY <2>1, Times
<1> DEFINE a == i * N
<1> HIDE DEF a
<1>2. PICK b \in Nat : a <= b * k /\ b * k < a + k /\ \A p \in Nat : a <= p * k <=> b <= p
  BY <1>1, Ceiling DEF a
<1>3. PICK c \in Nat : /\ a + N <= c * k /\ c * k < a + N + k
                       /\ \A p \in Nat : a + N <= p * k <=> c <= p
  BY <1>1, Ceiling DEF a
<1>4. c <= N
  BY <1>1, <1>3 DEF a
<1>5. P = b..c - 1
  <2>1. ASSUME NEW p \in Nat PROVE (p * k) \div N = i <=> b <= p /\ p < c
    <3>1. p * k \in Nat
      BY Times
    <3>2. (p * k) \div N = i <=> a <= p * k /\ p * k < a + N
      BY <3>1, Quotient DEF a
    <3> QED BY <1>1, <1>2, <1>3, <3>1, <3>2 DEF a
  <2> DEFINE at(p) == (p * k) \div N
  <2>2. \A p \in Nat : at(p) = i <=> b <= p /\ p < c
    BY <2>1
  <2> HIDE DEF at
  <2>3. {p \in 0..N - 1 : at(p) = i} = b..c - 1
    BY <1>4, <2>2
  <2> QED BY <2>3 DEF at
<1> DEFINE q == N \div k
<1>6. q \in Nat /\ q * k <= N /\ N < q * k + k
  BY Dividing
<1> HIDE DEF q, P
<1>7. c = b + q \/ c = b + q + 1
  <2>1. /\ (b + q) * k = b * k + q * k
        /\ (b + q + 1) * k = b * k + q * k + k
        /\ c < b + q => c * k + k <= (b + q) * k
        /\ b + q + 1 < c => (b + q + 1) * k + k <= c * k
    <3>1. b + q \in Nat /\ b + q + 1 \in Nat
      BY <1>6
    <3> QED BY <1>6, <3>1, Times
  <2>2. b * k \in Nat /\ q * k \in Nat /\ c * k \in Nat /\ a \in Nat
    BY <1>1, <1>6, Times DEF a
  <2>3. ~(c < b + q)
    BY <1>2, <1>3, <1>6, <2>1, <2>2
  <2>4. ~(b + q + 1 < c)
    BY <1>2, <1>3, <1>6, <2>1, <2>2
  <2> QED BY <1>6, <2>3, <2>4
<1>8. IsFiniteSet(P) /\ Cardinality(P) = c - b
  <2>1. b \in Int /\ c - 1 \in Int /\ b <= c
    BY <1>6, <1>7
  <2>2. IsFiniteSet(b..c - 1) /\ Cardinality(b..c - 1) = IF b > c - 1 THEN 0 ELSE c - 1 - b + 1
    BY <2>1, FS_Interval
  <2> QED BY <1>5, <2>1, <2>2
<1>9. Cardinality(P) = q \/ Cardinality(P) = q + 1
  BY <1>6, <1>7, <1>8
<1> QED BY <1>8, <1>9 DEF P, q

\* Nodes by level, equal levels by index.
ByLevel(g) ==
  LET level == ExtractedLevels(g)
  IN  {e \in Nodes(g) \X Nodes(g) : \/ level[e[1]] < level[e[2]]
                                    \/ level[e[1]] = level[e[2]] /\ e[1] < e[2]}

Position(g, n) == Place(Nodes(g), ByLevel(g), n)
Share(g, k, n) == (Position(g, n) * k) \div NumNodes(g)

\* Positions are a numbering of the nodes, growing along edges.
LEMMA Positions ==
  ASSUME NEW g, WellFormed(g)
  PROVE  /\ \A n \in Nodes(g) : Position(g, n) \in 0..NumNodes(g) - 1
         /\ \A m, n \in Nodes(g) : Position(g, m) = Position(g, n) => m = n
         /\ \A i \in 0..NumNodes(g) - 1 : \E n \in Nodes(g) : Position(g, n) = i
         /\ \A e \in Edges(g) : Position(g, e[1]) < Position(g, e[2])
<1> DEFINE L == ExtractedLevels(g)
           S == Nodes(g)
           R == ByLevel(g)
<1>1. IsFiniteSet(S) /\ Cardinality(S) = NumNodes(g) /\ S \subseteq Nat
  BY NodesFinite
<1>2. \A n \in S : L[n] \in Nat
  BY <1>1, LevelsUnfold
<1>3. \A m, n \in S : <<m, n>> \in R <=> L[m] < L[n] \/ (L[m] = L[n] /\ m < n)
  BY DEF ByLevel
<1>4. \A e \in Edges(g) : e[1] \in S /\ e[2] \in S /\ L[e[1]] < L[e[2]]
  BY EdgesClimb
<1> HIDE DEF L, S, R
<1>5. Orders(R, S)
  BY <1>1, <1>2, <1>3 DEF Orders
<1>6. \A e \in Edges(g) : Place(S, R, e[1]) < Place(S, R, e[2])
  <2>1. \A m, n \in S : <<m, n>> \in R => Place(S, R, m) < Place(S, R, n)
    BY <1>1, <1>5, Places
  <2> QED BY <1>3, <1>4, <2>1
<1>7. /\ \A n \in S : Place(S, R, n) \in 0..NumNodes(g) - 1
      /\ \A m, n \in S : Place(S, R, m) = Place(S, R, n) => m = n
      /\ \A i \in 0..NumNodes(g) - 1 : \E n \in S : Place(S, R, n) = i
  <2>0. IsFiniteSet(S)
    BY <1>1
  <2>1. \A n \in S : Place(S, R, n) \in 0..Cardinality(S) - 1
    BY <1>5, <2>0, Places
  <2>2. \A m, n \in S : Place(S, R, m) = Place(S, R, n) => m = n
    BY <1>5, <2>0, Places
  <2>3. \A i \in 0..Cardinality(S) - 1 : \E n \in S : Place(S, R, n) = i
    BY <1>5, <2>0, Places
  <2> QED BY <1>1, <2>1, <2>2, <2>3
<1> QED BY <1>6, <1>7 DEF Position, S, R

\* A slice is its node's position, scaled to the number of slices; the
\* cap at the last slice never bites.
LEMMA SlicesAreShares ==
  ASSUME NEW g, WellFormed(g), NEW k \in Nat \ {0}
  PROVE  /\ LevelSlices(g, k) = [n \in Nodes(g) |-> Share(g, k, n)]
         /\ \A n \in Nodes(g) : Share(g, k, n) \in 0..k - 1
<1>1. NumNodes(g) \in Nat \ {0}
  BY Topological
<1>2. \A n \in Nodes(g) : Share(g, k, n) \in 0..k - 1
  BY <1>1, Positions, Scaled DEF Share
<1>3. ASSUME NEW i \in 0..k - 1 PROVE Min({k - 1, i}) = i
  BY DEF Min
<1> DEFINE L == NodeLevels(g)
           position(n) == Cardinality({m \in Nodes(g) : \/ L[m] < L[n]
                                                        \/ L[m] = L[n] /\ m < n})
<1>4. ASSUME NEW n \in Nodes(g) PROVE position(n) = Position(g, n)
  <2>1. {m \in Nodes(g) : L[m] < L[n] \/ (L[m] = L[n] /\ m < n)}
          = Before(Nodes(g), ByLevel(g), n)
    BY PassIsEnough DEF Before, ByLevel
  <2> QED BY <2>1 DEF Position, Place
<1>5. LevelSlices(g, k) = [n \in Nodes(g) |-> Min({k - 1, (position(n) * k) \div NumNodes(g)})]
  BY DEF LevelSlices
<1> HIDE DEF position
<1>6. ASSUME NEW n \in Nodes(g)
      PROVE  Min({k - 1, (position(n) * k) \div NumNodes(g)}) = Share(g, k, n)
  <2>1. (position(n) * k) \div NumNodes(g) = Share(g, k, n)
    BY <1>4 DEF Share
  <2> QED BY <1>2, <1>3, <2>1
<1> QED BY <1>2, <1>5, <1>6

\* A label below MAX_K is its stored form.
LEMMA StoredSame ==
  ASSUME NEW label \in Nat, label < MaxK
  PROVE  Stored(label) = label
<1> DEFINE S == 1..LabelBits - 1
           T == 1..LabelBits
<1>1. LabelBits \in Nat /\ LabelBits >= 1 /\ MaxK \in Nat /\ MaxK <= 2 ^ (LabelBits - 1)
  BY GraphDataAssumption
<1>2. /\ IsFiniteSet(S) /\ Cardinality(S) = LabelBits - 1
      /\ IsFiniteSet(T) /\ Cardinality(T) = LabelBits
  BY <1>1, FS_Interval
<1>3. SUBSET S \in SUBSET (SUBSET T)
  BY <1>1
<1>4. /\ IsFiniteSet(SUBSET T) /\ Cardinality(SUBSET T) = 2 ^ LabelBits
      /\ IsFiniteSet(SUBSET S) /\ Cardinality(SUBSET S) = 2 ^ (LabelBits - 1)
  BY <1>2, FS_SUBSET
<1>5. 2 ^ (LabelBits - 1) <= 2 ^ LabelBits /\ 2 ^ LabelBits \in Nat /\ 2 ^ (LabelBits - 1) \in Nat
  BY <1>3, <1>4, FS_Subset, FS_CardinalityType
<1> DEFINE full == 2 ^ LabelBits
           half == 2 ^ (LabelBits - 1)
<1>6. Stored(label) = IF label % full >= half THEN (label % full) - full ELSE label % full
  BY DEF Stored
<1> HIDE DEF full, half
<1>7. full \in Nat /\ half \in Nat /\ label < half /\ half <= full
  BY <1>1, <1>5 DEF full, half
<1>8. label % full = label
  BY <1>7
<1> QED BY <1>6, <1>7, <1>8

\* Labels are stored as they are.
LEMMA PartitionedIsShares ==
  ASSUME NEW g, WellFormed(g), NEW k \in MinK..MaxK
  PROVE  /\ Partitioned(g, k).id = [n \in Nodes(g) |-> Share(g, k, n)]
         /\ Partitioned(g, k).k = k
         /\ \A n \in Nodes(g) : Share(g, k, n) \in 0..k - 1
         /\ k \in Nat \ {0}
<1>1. k \in Nat \ {0} /\ k <= MaxK /\ MaxK \in Nat
  BY GraphDataAssumption
<1>2. /\ LevelSlices(g, k) = [n \in Nodes(g) |-> Share(g, k, n)]
      /\ \A n \in Nodes(g) : Share(g, k, n) \in 0..k - 1
  BY <1>1, SlicesAreShares
<1>3. ASSUME NEW n \in Nodes(g) PROVE Stored(LevelSlices(g, k)[n]) = Share(g, k, n)
  <2>1. Share(g, k, n) \in Nat /\ Share(g, k, n) < MaxK
    BY <1>1, <1>2
  <2> QED BY <1>2, <2>1, StoredSame
<1>4. Partitioned(g, k).id = [n \in Nodes(g) |-> Stored(LevelSlices(g, k)[n])]
  BY DEF Partitioned
<1>5. Partitioned(g, k).k = k
  BY DEF Partitioned
<1> QED BY <1>1, <1>2, <1>3, <1>4, <1>5

\* Each slice has its even share of the nodes.
LEMMA SliceSizes ==
  ASSUME NEW g, WellFormed(g), NEW k \in MinK..MaxK, NEW i \in 0..k - 1
  PROVE  Cardinality(Slice(Partitioned(g, k), i))
           \in {NumNodes(g) \div k, NumNodes(g) \div k + 1}
<1> DEFINE N == NumNodes(g)
           P == {p \in 0..N - 1 : (p * k) \div N = i}
           S == Slice(Partitioned(g, k), i)
           f == [n \in S |-> Position(g, n)]
<1>1. N \in Nat \ {0} /\ k \in Nat \ {0}
  BY Topological, PartitionedIsShares
<1>2. S = {n \in Nodes(g) : Share(g, k, n) = i}
  <2>1. Partitioned(g, k).id = [n \in Nodes(g) |-> Share(g, k, n)]
    BY PartitionedIsShares
  <2> QED BY <2>1 DEF Slice
<1>3. \A n \in S : n \in Nodes(g) /\ Position(g, n) \in P
  BY <1>2, Positions DEF Share
<1>4. \A p \in P : \E n \in S : Position(g, n) = p
  BY <1>2, Positions DEF Share
<1>5. \A m, n \in S : Position(g, m) = Position(g, n) => m = n
  BY <1>3, Positions
<1>6. IsFiniteSet(P) /\ Cardinality(P) \in {N \div k, N \div k + 1}
  BY <1>1, Shares
<1>7. IsFiniteSet(S)
  <2>1. S \in SUBSET Nodes(g)
    BY <1>3
  <2> QED BY <2>1, NodesFinite, FS_Subset
<1> HIDE DEF P, S
<1>8. f \in Bijection(S, P)
  BY <1>3, <1>4, <1>5 DEF Bijection, Injection, Surjection, IsInjective
<1>9. Cardinality(P) = Cardinality(S)
  BY <1>7, <1>8, FS_Bijection DEF ExistsBijection
<1> QED BY <1>6, <1>9 DEF S

\* Slices cover the nodes, are even and never lead back.
LEMMA PartsSound ==
  ASSUME NEW g, WellFormed(g), NEW k \in MinK..MaxK
  PROVE  LET parts == Partitioned(g, k)
             sizes == {Cardinality(Slice(parts, i)) : i \in 0..k - 1}
         IN  /\ UNION {Slice(parts, i) : i \in 0..k - 1} = Nodes(g)
             /\ Max(sizes) - Min(sizes) <= 1
             /\ \A e \in Edges(g) : parts.id[e[1]] <= parts.id[e[2]]
<1> DEFINE parts == Partitioned(g, k)
           sizes == {Cardinality(Slice(parts, i)) : i \in 0..k - 1}
           N == NumNodes(g)
           q == N \div k
<1>1. /\ parts.id = [n \in Nodes(g) |-> Share(g, k, n)]
      /\ \A n \in Nodes(g) : Share(g, k, n) \in 0..k - 1
      /\ k \in Nat \ {0} /\ N \in Nat \ {0}
  BY PartitionedIsShares, Topological
<1>2. UNION {Slice(parts, i) : i \in 0..k - 1} = Nodes(g)
  <2>1. \A i : Slice(parts, i) = {n \in Nodes(g) : Share(g, k, n) = i}
    BY <1>1 DEF Slice
  <2> QED BY <1>1, <2>1
<1>3. Max(sizes) - Min(sizes) <= 1
  <2>1. sizes \in SUBSET {q, q + 1}
    BY SliceSizes
  <2>2. Cardinality(Slice(parts, 0)) \in sizes
    <3>1. 0 \in 0..k - 1
      BY <1>1
    <3> QED BY <3>1
  <2>3. q \in Nat
    BY <1>1, Dividing
  <2> HIDE DEF q, sizes
  <2>4. sizes = {q} \/ sizes = {q + 1} \/ sizes = {q, q + 1}
    BY <2>1, <2>2
  <2>5. Max({q}) = q /\ Max({q + 1}) = q + 1 /\ Max({q, q + 1}) = q + 1
    BY <2>3 DEF Max
  <2>6. Min({q}) = q /\ Min({q + 1}) = q + 1 /\ Min({q, q + 1}) = q
    BY <2>3 DEF Min
  <2> QED BY <2>3, <2>4, <2>5, <2>6
<1>4. ASSUME NEW e \in Edges(g) PROVE parts.id[e[1]] <= parts.id[e[2]]
  <2>1. e[1] \in Nodes(g) /\ e[2] \in Nodes(g)
    BY EdgesClimb
  <2>2. Position(g, e[1]) < Position(g, e[2]) /\ Position(g, e[1]) \in Nat
        /\ Position(g, e[2]) \in Nat
    BY <1>1, <2>1, Positions
  <2>3. Share(g, k, e[1]) <= Share(g, k, e[2])
    <3>1. Position(g, e[1]) <= Position(g, e[2])
      BY <2>2
    <3>2. (Position(g, e[1]) * k) \div N <= (Position(g, e[2]) * k) \div N
      BY <1>1, <2>2, <3>1, ScaledGrows
    <3> QED BY <3>2 DEF Share
  <2> QED BY <1>1, <2>1, <2>3
<1> QED BY <1>2, <1>3, <1>4

\* compute_dynamic_k stays between MIN_K and MAX_K.
LEMMA DynamicInRange == \A g : WellFormed(g) => DynamicK(g) \in MinK..MaxK
<1> SUFFICES ASSUME NEW g, WellFormed(g) PROVE DynamicK(g) \in MinK..MaxK
  OBVIOUS
<1>1. NumNodes(g) \in Nat /\ Target \in Nat /\ MinK \in Nat /\ MaxK \in Nat /\ MinK <= MaxK
  BY Topological, GraphDataAssumption
<1> DEFINE t == Max({1, Target})
           k == NumNodes(g) \div t
           low == Min({MaxK, k})
<1>2. t \in Nat \ {0}
  BY <1>1 DEF Max
<1>3. k \in Nat
  BY <1>1, <1>2, Dividing
<1> HIDE DEF k
<1>4. low \in Nat /\ low <= MaxK
  BY <1>1, <1>3 DEF Min
<1> HIDE DEF low
<1>5. Max({MinK, low}) \in MinK..MaxK
  BY <1>1, <1>4 DEF Max
<1> QED BY <1>5 DEF DynamicK, low, k

-----------------------------------------------------------------------------
(* Sums over a set.  (These lemmas are also in DatasetStartup_proofs and    *)
(* Training_proofs, whose variables this module cannot have.)              *)

\* Among subsets of a finite set one contains none of the others.
LEMMA LeastSet ==
  ASSUME NEW U, IsFiniteSet(U), NEW C \in SUBSET SUBSET U, C # {}
  PROVE  \E S \in C : \A T \in C : T \subseteq S => T = S
<1> DEFINE D == {Cardinality(S) : S \in C}
<1>1. \A S \in C : IsFiniteSet(S) /\ Cardinality(S) \in Nat
  BY FS_Subset, FS_CardinalityType
<1>2. D \in SUBSET Nat /\ D # {}
  BY <1>1
<1>3. PICK d \in D : \A e \in D : d <= e
  <2> HIDE DEF D
  <2> QED BY <1>2, LeastNat
<1>4. PICK S \in C : d = Cardinality(S)
  BY <1>3
<1>5. ASSUME NEW T \in C, T \subseteq S PROVE T = S
  <2>1. Cardinality(S) <= Cardinality(T)
    BY <1>3, <1>4
  <2>2. Cardinality(T) <= Cardinality(S) /\ (Cardinality(S) = Cardinality(T) => S = T)
    BY <1>1, <1>5, FS_Subset
  <2> QED BY <1>1, <2>1, <2>2
<1> QED BY <1>5

\* The member a sum takes first.
First(S) == CHOOSE x \in S : TRUE

LEMMA FirstLess ==
  ASSUME NEW S, S # {}
  PROVE  First(S) \in S /\ S \ {First(S)} \subseteq S /\ S \ {First(S)} # S
BY DEF First

\* The equation of the recursive function behind a sum.
Summed(w, f, S) == IF S = {} THEN 0 ELSE w[First(S)] + f[S \ {First(S)}]
Sums(w, f, U) == \A S \in SUBSET U : f[S] = Summed(w, f, S)

LEMMA SumsAgree ==
  ASSUME NEW w, NEW U, IsFiniteSet(U),
         NEW f, Sums(w, f, U), NEW h, Sums(w, h, U)
  PROVE  f[U] = h[U]
<1> DEFINE C == {S \in SUBSET U : f[S] # h[S]}
<1>1. ASSUME C # {} PROVE FALSE
  <2>1. PICK S \in C : \A T \in C : T \subseteq S => T = S
    <3>1. C \in SUBSET SUBSET U
      OBVIOUS
    <3> HIDE DEF C
    <3> QED BY <1>1, <3>1, LeastSet
  <2>2. f[S] = Summed(w, f, S) /\ h[S] = Summed(w, h, S)
    BY DEF Sums
  <2>3. S # {}
    BY <2>2 DEF Summed
  <2>4. S \ {First(S)} \in SUBSET U /\ S \ {First(S)} \notin C
    BY <2>1, <2>3, FirstLess
  <2>5. f[S \ {First(S)}] = h[S \ {First(S)}]
    BY <2>4
  <2> QED BY <2>2, <2>5 DEF Summed
<1> QED BY <1>1

\* The total of w over S.
Total(w, S) == MapThenSumSet(LAMBDA x : w[x], S)

\* A total takes its first term and the total of the rest.
LEMMA TotalUnfold ==
  ASSUME NEW w, NEW U, IsFiniteSet(U)
  PROVE  Total(w, U) = IF U = {} THEN 0
                          ELSE w[First(U)] + Total(w, U \ {First(U)})
<1> DEFINE Once(S) == IF S = {} THEN 0 ELSE w[First(S)] + Total(w, S \ {First(S)})
           C == {S \in SUBSET U : Total(w, S) # Once(S)}
<1> SUFFICES C = {}
  OBVIOUS
<1> SUFFICES ASSUME C # {} PROVE FALSE
  OBVIOUS
<1>1. PICK S \in C : \A T \in C : T \subseteq S => T = S
  <2>1. C \in SUBSET SUBSET U
    OBVIOUS
  <2> HIDE DEF C
  <2> QED BY <2>1, LeastSet
<1>2. IsFiniteSet(S)
  BY FS_Subset
<1>3. ASSUME NEW T \in SUBSET S, T # S PROVE Total(w, T) = Once(T)
  BY <1>1, <1>3
<1> HIDE DEF C
<1> DEFINE Sol(f) == f = [T \in SUBSET S |-> Summed(w, f, T)]
           A == CHOOSE f : Sol(f)
           h == [T \in SUBSET S |-> Once(T)]
<1>4. Sol(h)
  <2>1. ASSUME NEW T \in SUBSET S PROVE Once(T) = Summed(w, h, T)
    <3>1. CASE T = {}
      BY <3>1 DEF Summed
    <3>2. CASE T # {}
      <4>1. T \ {First(T)} \in SUBSET S /\ T \ {First(T)} # S
        BY <3>2, FirstLess
      <4>2. h[T \ {First(T)}] = Once(T \ {First(T)})
        BY <4>1
      <4>3. h[T \ {First(T)}] = Total(w, T \ {First(T)})
        BY <1>3, <4>1, <4>2
      <4> QED BY <3>2, <4>3 DEF Summed
    <3> QED BY <3>1, <3>2
  <2> HIDE DEF Once
  <2> QED BY <2>1
<1>5. Total(w, S) = A[S]
  BY DEF Total, MapThenSumSet, MapThenFoldSet, Summed, First
<1> HIDE DEF A, Once
<1>6. Sol(A)
  BY <1>4 DEF A
<1>7. A[S] = h[S]
  <2> HIDE DEF h
  <2>1. Sums(w, A, S)
    BY <1>6 DEF Sums
  <2>2. Sums(w, h, S)
    BY <1>4 DEF Sums
  <2> QED BY <1>2, <2>1, <2>2, SumsAgree
<1>8. h[S] = Once(S)
  OBVIOUS
<1> QED BY <1>1, <1>5, <1>7, <1>8 DEF C

\* A total does not depend on the order of the terms.
LEMMA TotalSplit ==
  ASSUME NEW w, NEW U, IsFiniteSet(U), \A x \in U : w[x] \in Nat
  PROVE  /\ Total(w, U) \in Nat
         /\ U = {} => Total(w, U) = 0
         /\ \A x \in U : Total(w, U) = w[x] + Total(w, U \ {x})
<1> DEFINE Splits(S) == /\ Total(w, S) \in Nat
                        /\ \A x \in S : Total(w, S) = w[x] + Total(w, S \ {x})
           C == {S \in SUBSET U : ~Splits(S)}
<1>1. U = {} => Total(w, U) = 0
  BY TotalUnfold
<1> SUFFICES C = {}
  BY <1>1
<1> SUFFICES ASSUME C # {} PROVE FALSE
  OBVIOUS
<1>2. PICK S \in C : \A T \in C : T \subseteq S => T = S
  <2>1. C \in SUBSET SUBSET U
    OBVIOUS
  <2> HIDE DEF C
  <2> QED BY <2>1, LeastSet
<1>3. ASSUME NEW T \in SUBSET S, T # S PROVE Splits(T)
  BY <1>2, <1>3
<1>4. Total(w, S) = IF S = {} THEN 0 ELSE w[First(S)] + Total(w, S \ {First(S)})
  BY TotalUnfold, FS_Subset
<1>5. CASE S = {}
  <2>1. Splits(S)
    BY <1>4, <1>5
  <2> QED BY <2>1
<1>6. CASE S # {}
  <2> DEFINE y == First(S)
  <2>1. y \in S
    BY <1>6, FirstLess
  <2> HIDE DEF y
  <2>2. Splits(S \ {y})
    BY <1>3, <2>1
  <2>3. Total(w, S) = w[y] + Total(w, S \ {y})
    BY <1>4, <1>6 DEF y
  <2>4. ASSUME NEW x \in S PROVE Total(w, S) = w[x] + Total(w, S \ {x})
    <3>1. CASE x = y
      BY <2>3, <3>1
    <3>2. CASE x # y
      <4>1. Splits(S \ {x})
        BY <1>3
      <4>2. Total(w, S \ {y}) = w[x] + Total(w, (S \ {y}) \ {x})
        BY <2>2, <3>2
      <4>3. Total(w, S \ {x}) = w[y] + Total(w, (S \ {x}) \ {y})
        BY <2>1, <3>2, <4>1
      <4>4. (S \ {y}) \ {x} = (S \ {x}) \ {y}
        OBVIOUS
      <4>5. Splits((S \ {x}) \ {y})
        BY <1>3, <2>1
      <4>6. w[x] \in Nat /\ w[y] \in Nat /\ Total(w, (S \ {x}) \ {y}) \in Nat
        BY <2>1, <4>5
      <4> HIDE DEF Splits
      <4> QED BY <2>3, <4>2, <4>3, <4>4, <4>6
    <3> QED BY <3>1, <3>2
  <2>5. Total(w, S) \in Nat
    BY <2>1, <2>2, <2>3
  <2>6. Splits(S)
    BY <2>4, <2>5
  <2> QED BY <2>6
<1> QED BY <1>5, <1>6

\* The offset of a graph in a batch, as a total.
Offset(parts, P) == MapThenSumSet(LAMBDA j : parts[j].k, P)

LEMMA OffsetIsTotal ==
  ASSUME NEW parts, NEW P, IsFiniteSet(P)
  PROVE  Offset(parts, P) = Total([j \in P |-> parts[j].k], P)
<1> DEFINE w == [j \in P |-> parts[j].k]
           Sol(f) == f = [T \in SUBSET P |->
                            IF T = {} THEN 0
                            ELSE parts[First(T)].k + f[T \ {First(T)}]]
           A == CHOOSE f : Sol(f)
           h == [T \in SUBSET P |-> Total(w, T)]
<1>1. \A T \in SUBSET P : T # {} => /\ w[First(T)] = parts[First(T)].k
                                    /\ T \ {First(T)} \in SUBSET P
  BY FirstLess
<1>2. \A T \in SUBSET P : Total(w, T) = IF T = {} THEN 0
                                        ELSE w[First(T)] + Total(w, T \ {First(T)})
  <2> HIDE DEF w
  <2> QED BY TotalUnfold, FS_Subset
<1>3. Offset(parts, P) = A[P]
  BY DEF Offset, MapThenSumSet, MapThenFoldSet, First
<1> HIDE DEF A, w
<1>4. Sol(h)
  <2>1. ASSUME NEW T \in SUBSET P
        PROVE  h[T] = IF T = {} THEN 0 ELSE parts[First(T)].k + h[T \ {First(T)}]
    BY <1>1, <1>2
  <2> QED BY <2>1
<1>5. Sol(A)
  BY <1>4 DEF A
<1>6. Sums(w, h, P)
  BY <1>2, <1>1 DEF Sums, Summed
<1>7. Sums(w, A, P)
  BY <1>1, <1>5 DEF Sums, Summed
<1>8. A[P] = h[P]
  <2> HIDE DEF h
  <2> QED BY <1>6, <1>7, SumsAgree
<1>9. h[P] = Total(w, P)
  OBVIOUS
<1> QED BY <1>3, <1>8, <1>9 DEF w

\* The offsets of three graphs in a batch.
LEMMA Offsets ==
  ASSUME NEW parts, parts[1].k \in Nat, parts[2].k \in Nat
  PROVE  /\ Offset(parts, 1..1 - 1) = 0
         /\ Offset(parts, 1..2 - 1) = parts[1].k
         /\ Offset(parts, 1..3 - 1) = parts[1].k + parts[2].k
<1>1. 1..1 - 1 = {} /\ 1..2 - 1 = {1} /\ 1..3 - 1 = {1, 2}
  OBVIOUS
<1>2. IsFiniteSet({1, 2}) /\ IsFiniteSet({1}) /\ IsFiniteSet({})
  <2>1. {1, 2} = {1} \cup {2}
    OBVIOUS
  <2>2. IsFiniteSet({1}) /\ IsFiniteSet({})
    BY FS_Singleton, FS_EmptySet
  <2>3. IsFiniteSet({1} \cup {2})
    BY <2>2, FS_AddElement
  <2> QED BY <2>1, <2>2, <2>3
<1> DEFINE v(P) == [j \in P |-> parts[j].k]
<1>3. \A P : \A j \in P : v(P)[j] = parts[j].k
  OBVIOUS
<1>4. /\ Offset(parts, {}) = Total(v({}), {})
      /\ Offset(parts, {1}) = Total(v({1}), {1})
      /\ Offset(parts, {1, 2}) = Total(v({1, 2}), {1, 2})
  BY <1>2, OffsetIsTotal
<1> HIDE DEF v
<1>5. \A w : Total(w, {}) = 0
  BY <1>2, TotalUnfold
<1>6. \A w : w[1] \in Nat => Total(w, {1}) = w[1]
  <2> SUFFICES ASSUME NEW w, w[1] \in Nat PROVE Total(w, {1}) = w[1]
    OBVIOUS
  <2>1. Total(w, {1}) = w[1] + Total(w, {1} \ {1})
    BY <1>2, TotalSplit
  <2>2. {1} \ {1} = {}
    OBVIOUS
  <2> QED BY <1>5, <2>1, <2>2
<1>7. \A w : w[1] \in Nat /\ w[2] \in Nat => Total(w, {1, 2}) = w[1] + w[2]
  <2> SUFFICES ASSUME NEW w, w[1] \in Nat, w[2] \in Nat
               PROVE  Total(w, {1, 2}) = w[1] + w[2]
    OBVIOUS
  <2>1. Total(w, {1, 2}) = w[2] + Total(w, {1, 2} \ {2})
    BY <1>2, TotalSplit
  <2>2. {1, 2} \ {2} = {1}
    OBVIOUS
  <2>3. Total(w, {1, 2} \ {2}) = Total(w, {1})
    BY <2>2
  <2>4. Total(w, {1}) = w[1]
    BY <1>6
  <2> QED BY <2>1, <2>3, <2>4
<1>8. Total(v({1}), {1}) = parts[1].k /\ Total(v({1, 2}), {1, 2}) = parts[1].k + parts[2].k
  <2>1. v({1})[1] = parts[1].k /\ v({1, 2})[1] = parts[1].k /\ v({1, 2})[2] = parts[2].k
    BY <1>3
  <2> QED BY <1>6, <1>7, <2>1
<1> QED BY <1>1, <1>4, <1>5, <1>8

\* Graphs in a batch share no partition.
LEMMA BatchesApart ==
  ASSUME NEW a, NEW b, a.k \in Nat, b.k \in Nat,
         \A n \in DOMAIN a.id : a.id[n] \in 0..a.k - 1,
         \A n \in DOMAIN b.id : b.id[n] \in 0..b.k - 1
  PROVE  LET batch == <<a, b, a>>
         IN  \A i, j \in DOMAIN batch :
               i # j => BatchIds(batch, i) \cap BatchIds(batch, j) = {}
<1> DEFINE batch == <<a, b, a>>
<1>1. batch[1] = a /\ batch[2] = b /\ batch[3] = a /\ DOMAIN batch = {1, 2, 3}
  OBVIOUS
<1> HIDE DEF batch
<1>2. /\ Offset(batch, 1..1 - 1) = 0
      /\ Offset(batch, 1..2 - 1) = a.k
      /\ Offset(batch, 1..3 - 1) = a.k + b.k
  BY <1>1, Offsets
<1>3. /\ BatchIds(batch, 1) = {a.id[n] + 0 : n \in DOMAIN a.id}
      /\ BatchIds(batch, 2) = {b.id[n] + a.k : n \in DOMAIN b.id}
      /\ BatchIds(batch, 3) = {a.id[n] + (a.k + b.k) : n \in DOMAIN a.id}
  BY <1>1, <1>2 DEF BatchIds, Offset
<1>4. BatchIds(batch, 1) \subseteq 0..a.k - 1
  BY <1>3
<1>5. BatchIds(batch, 2) \subseteq a.k..a.k + b.k - 1
  BY <1>3
<1>6. BatchIds(batch, 3) \subseteq a.k + b.k..a.k + b.k + a.k - 1
  BY <1>3
<1>7. /\ BatchIds(batch, 1) \cap BatchIds(batch, 2) = {}
      /\ BatchIds(batch, 1) \cap BatchIds(batch, 3) = {}
      /\ BatchIds(batch, 2) \cap BatchIds(batch, 3) = {}
  BY <1>4, <1>5, <1>6
<1> QED BY <1>1, <1>7 DEF batch

\* In a catalogue every graph is well formed, so slices are sound.
LEMMA SlicesHold == content \in Catalogue => SlicesSound
<1> SUFFICES ASSUME content \in Catalogue, NEW g \in Graphs, NEW k \in MinK..MaxK
             PROVE  LET parts == Partitioned(g, k)
                        sizes == {Cardinality(Slice(parts, i)) : i \in 0..k - 1}
                    IN  /\ UNION {Slice(parts, i) : i \in 0..k - 1} = Nodes(g)
                        /\ Max(sizes) - Min(sizes) <= 1
                        /\ \A e \in Edges(g) : parts.id[e[1]] <= parts.id[e[2]]
                        /\ \A h \in Graphs :
                             LET batch == <<parts, Partitioned(h, DynamicK(h)), parts>>
                             IN  \A i, j \in DOMAIN batch :
                                   i # j => BatchIds(batch, i) \cap BatchIds(batch, j) = {}
  BY DEF SlicesSound
<1>1. \A h \in Graphs : WellFormed(h)
  BY CatalogueAssumption DEF Graphs, Files
<1>2. ASSUME NEW h \in Graphs, NEW d \in MinK..MaxK
      PROVE  /\ Partitioned(h, d).k \in Nat
             /\ \A n \in DOMAIN Partitioned(h, d).id :
                  Partitioned(h, d).id[n] \in 0..Partitioned(h, d).k - 1
  <2>1. /\ Partitioned(h, d).id = [n \in Nodes(h) |-> Share(h, d, n)]
        /\ Partitioned(h, d).k = d
        /\ \A n \in Nodes(h) : Share(h, d, n) \in 0..d - 1
        /\ d \in Nat \ {0}
    BY <1>1, PartitionedIsShares
  <2> QED BY <2>1
<1>3. ASSUME NEW h \in Graphs
      PROVE  LET batch == <<Partitioned(g, k), Partitioned(h, DynamicK(h)), Partitioned(g, k)>>
             IN  \A i, j \in DOMAIN batch :
                   i # j => BatchIds(batch, i) \cap BatchIds(batch, j) = {}
  <2>1. DynamicK(h) \in MinK..MaxK
    BY <1>1, DynamicInRange
  <2> DEFINE a == Partitioned(g, k)
             b == Partitioned(h, DynamicK(h))
  <2>2. /\ a.k \in Nat /\ b.k \in Nat
        /\ \A n \in DOMAIN a.id : a.id[n] \in 0..a.k - 1
        /\ \A n \in DOMAIN b.id : b.id[n] \in 0..b.k - 1
    BY <1>2, <2>1
  <2> HIDE DEF a, b
  <2> QED BY <2>2, BatchesApart DEF a, b
<1>4. LET parts == Partitioned(g, k)
          sizes == {Cardinality(Slice(parts, i)) : i \in 0..k - 1}
      IN  /\ UNION {Slice(parts, i) : i \in 0..k - 1} = Nodes(g)
          /\ Max(sizes) - Min(sizes) <= 1
          /\ \A e \in Edges(g) : parts.id[e[1]] <= parts.id[e[2]]
  BY <1>1, PartsSound
<1> QED BY <1>3, <1>4

(* Slices are even, fit their storage type, never point backwards and stay *)
(* apart in batches, and dropping nodes keeps order and edges, for any     *)
(* graphs and any allowed number of slices.                                *)
THEOREM ReductionsAreSound == Spec => []ReductionsSound
<1>1. Spec => []LevelInv
  BY InitLevels, StepLevels, HoldInductive, PTL DEF Spec
<1>2. LevelInv => ReductionsSound
  BY SlicesHold, CompactionHolds DEF LevelInv, ReductionsSound
<1> QED
  BY <1>1, <1>2, PTL

-----------------------------------------------------------------------------
(* Chains: how a path grows by one edge.                                   *)

\* Min is the least member of a nonempty set of naturals.
LEMMA LeastIs ==
  ASSUME NEW T \in SUBSET Nat, T # {}
  PROVE  Min(T) \in T /\ \A y \in T : Min(T) <= y
<1>1. \E x \in T : \A y \in T : x <= y
  BY LeastNat
<1> QED BY <1>1 DEF Min

\* A member that is no more than any other is Min.
LEMMA MinIs ==
  ASSUME NEW T \in SUBSET Nat, NEW x \in T, \A y \in T : x <= y
  PROVE  Min(T) = x
<1>1. Min(T) \in T /\ \A y \in T : Min(T) <= y
  BY LeastIs
<1>2. Min(T) <= x /\ x <= Min(T) /\ Min(T) \in Nat
  BY <1>1
<1> QED BY <1>2

\* The member of s that follows n.
After(s, n) == Min({m \in s : m > n})

\* A last member, added, follows the one that was last.
LEMMA AfterAdded ==
  ASSUME NEW t \in SUBSET Nat, NEW q \in t, \A x \in t : x <= q,
         NEW m \in Nat, q < m, NEW n \in t
  PROVE  After(t \cup {m}, n) = IF n = q THEN m ELSE After(t, n)
<1> DEFINE U == {x \in t \cup {m} : x > n}
           T == {x \in t : x > n}
<1>1. CASE n = q
  <2>1. \A x \in t : ~(x > n)
    BY <1>1
  <2>2. U = {m}
    BY <1>1, <2>1
  <2>3. Min({m}) = m
    BY MinIs
  <2> QED BY <1>1, <2>2, <2>3 DEF After
<1>2. CASE n # q
  <2>1. q \in T /\ T \in SUBSET Nat
    <3>1. n <= q /\ n \in Nat /\ q \in Nat
      OBVIOUS
    <3>2. q > n
      BY <1>2, <3>1
    <3> QED BY <3>2
  <2>2. Min(T) \in T /\ \A y \in T : Min(T) <= y
    BY <2>1, LeastIs
  <2>3. U \in SUBSET Nat /\ \A y \in U : y \in T \/ y = m
    OBVIOUS
  <2>4. Min(T) \in U /\ Min(T) <= m
    <3>1. Min(T) \in t /\ Min(T) > n
      BY <2>2
    <3>2. Min(T) <= q
      BY <3>1
    <3> HIDE DEF T
    <3>3. Min(T) \in U
      BY <3>1
    <3>4. Min(T) \in Nat /\ q \in Nat
      BY <3>1
    <3> QED BY <3>2, <3>3, <3>4
  <2>5. \A y \in U : Min(T) <= y
    BY <2>2, <2>3, <2>4
  <2> HIDE DEF T, U
  <2>6. Min(U) = Min(T)
    BY <2>3, <2>4, <2>5, MinIs
  <2> QED BY <1>2, <2>6 DEF After, T, U
<1> QED BY <1>1, <1>2

\* Chains, by what follows each member.
LEMMA ChainIs ==
  ASSUME NEW g, NEW from, NEW to, NEW s
  PROVE  s \in Chains(g, from, to) <=>
           /\ s \in SUBSET (from..to) /\ from \in s /\ to \in s
           /\ \A n \in s \ {to} : <<n, After(s, n)>> \in Edges(g)
BY DEF Chains, After

\* From a node to itself there is one chain.
LEMMA ChainAtOnce ==
  ASSUME NEW g, NEW n \in Nat
  PROVE  Chains(g, n, n) = {{n}}
<1>1. n..n = {n}
  OBVIOUS
<1>2. \A s : s \in Chains(g, n, n) <=> s = {n}
  BY <1>1, ChainIs
<1> QED BY <1>2

\* The nodes of a chain lie between its ends.
LEMMA ChainShape ==
  ASSUME NEW g, WellFormed(g), NEW from \in Nodes(g), NEW to \in Nodes(g),
         NEW s \in Chains(g, from, to)
  PROVE  /\ s \in SUBSET Nodes(g) /\ s \in SUBSET Nat /\ IsFiniteSet(s)
         /\ from \in s /\ to \in s /\ \A x \in s : from <= x /\ x <= to
<1>1. /\ s \in SUBSET (from..to) /\ from \in s /\ to \in s
      /\ from \in Nat /\ to \in Nat /\ NumNodes(g) \in Nat /\ to <= NumNodes(g) - 1
  BY ChainIs, Topological DEF Nodes
<1>2. IsFiniteSet(from..to)
  BY <1>1, FS_Interval
<1>3. IsFiniteSet(s)
  BY <1>1, <1>2, FS_Subset
<1>4. \A x \in s : x \in Nat /\ from <= x /\ x <= to /\ x <= NumNodes(g) - 1
  BY <1>1
<1> QED BY <1>1, <1>3, <1>4 DEF Nodes

\* An edge from its end makes a longer chain.
LEMMA ChainGrows ==
  ASSUME NEW g, WellFormed(g), NEW from \in Nodes(g), NEW q \in Nodes(g),
         NEW m \in Nodes(g), NEW t \in Chains(g, from, q), <<q, m>> \in Edges(g)
  PROVE  /\ t \cup {m} \in Chains(g, from, m) /\ m \notin t /\ q < m
         /\ \A n \in t : After(t \cup {m}, n) = IF n = q THEN m ELSE After(t, n)
<1>1. q < m /\ q \in Nat /\ m \in Nat /\ from \in Nat
  BY EdgesClimb, NodesFinite
<1>2. /\ t \in SUBSET Nat /\ from \in t /\ q \in t
      /\ \A x \in t : from <= x /\ x <= q
  BY ChainShape
<1>3. \A n \in t : After(t \cup {m}, n) = IF n = q THEN m ELSE After(t, n)
  BY <1>1, <1>2, AfterAdded
<1>4. m \notin t
  BY <1>1, <1>2
<1>5. \A n \in t \ {q} : <<n, After(t, n)>> \in Edges(g)
  BY ChainIs
<1>6. t \cup {m} \in SUBSET (from..m)
  BY <1>1, <1>2
<1>7. \A n \in (t \cup {m}) \ {m} : <<n, After(t \cup {m}, n)>> \in Edges(g)
  <2> TAKE n \in (t \cup {m}) \ {m}
  <2>1. n \in t
    OBVIOUS
  <2>2. CASE n = q
    BY <1>3, <2>1, <2>2
  <2>3. CASE n # q
    BY <1>3, <1>5, <2>1, <2>3
  <2> QED BY <2>2, <2>3
<1> QED BY <1>1, <1>2, <1>3, <1>4, <1>6, <1>7, ChainIs

\* A chain that is more than its end is a shorter one and an edge.
LEMMA ChainShrinks ==
  ASSUME NEW g, WellFormed(g), NEW from \in Nodes(g), NEW m \in Nodes(g),
         NEW s \in Chains(g, from, m), from # m
  PROVE  \E q \in Nodes(g) : /\ <<q, m>> \in Edges(g) /\ q = Max(s \ {m})
                             /\ s \ {m} \in Chains(g, from, q)
<1> DEFINE t == s \ {m}
           q == Max(t)
<1>1. /\ s \in SUBSET Nodes(g) /\ s \in SUBSET Nat /\ from \in s /\ m \in s
      /\ \A x \in s : from <= x /\ x <= m
  BY ChainShape
<1>2. from \in Nat /\ m \in Nat
  BY <1>1
<1>3. t \in SUBSET (0..m) /\ t # {}
  BY <1>1, <1>2
<1>4. q \in t /\ \A y \in t : y <= q
  <2> HIDE DEF t
  <2> QED BY <1>2, <1>3, GreatestOfNats
<1> HIDE DEF q
<1>5. q \in Nodes(g) /\ q \in Nat /\ q < m /\ from <= q
  BY <1>1, <1>4
<1>6. s = t \cup {m} /\ t \in SUBSET Nat
  BY <1>1
<1> HIDE DEF t
<1>7. \A n \in t : After(s, n) = IF n = q THEN m ELSE After(t, n)
  BY <1>2, <1>4, <1>5, <1>6, AfterAdded
<1>8. \A n \in s \ {m} : <<n, After(s, n)>> \in Edges(g)
  BY ChainIs
<1>9. \A n \in t : <<n, After(s, n)>> \in Edges(g)
  BY <1>8 DEF t
<1>10. <<q, m>> \in Edges(g)
  BY <1>4, <1>7, <1>9
<1>11. t \in Chains(g, from, q)
  <2>1. \A n \in t \ {q} : <<n, After(t, n)>> \in Edges(g)
    BY <1>7, <1>9
  <2>2. from \in t
    BY <1>1 DEF t
  <2>3. t \in SUBSET (from..q)
    BY <1>1, <1>2, <1>4, <1>5 DEF t
  <2> QED BY <1>4, <2>1, <2>2, <2>3, ChainIs
<1> QED BY <1>5, <1>10, <1>11 DEF t, q

-----------------------------------------------------------------------------
(* Paths of short spans.                                                   *)

\* An edge, written as a pair.
LEMMA PairClimbs ==
  ASSUME NEW g, WellFormed(g), NEW q, NEW m, <<q, m>> \in Edges(g)
  PROVE  /\ q \in Nodes(g) /\ m \in Nodes(g) /\ q < m /\ q \in Fanins(g, m)
         /\ ExtractedLevels(g)[q] < ExtractedLevels(g)[m]
<1> DEFINE e == <<q, m>>
<1>1. e \in Edges(g) /\ e[1] = q /\ e[2] = m
  OBVIOUS
<1> HIDE DEF e
<1>2. /\ e[1] \in Nodes(g) /\ e[2] \in Nodes(g) /\ e[1] < e[2]
      /\ ExtractedLevels(g)[e[1]] < ExtractedLevels(g)[e[2]]
  BY <1>1, EdgesClimb
<1>3. e[1] \in Fanins(g, e[2])
  BY <1>1 DEF Edges
<1> QED BY <1>1, <1>2, <1>3

\* Every step of the chain s to its end spans few levels.
Short(g, s, to) ==
  \A n \in s \ {to} : ExtractedLevels(g)[After(s, n)] - ExtractedLevels(g)[n] <= MaxPathDepth

\* A member that is no less than any other is Max.
LEMMA MaxIs ==
  ASSUME NEW n \in Nat, NEW T \in SUBSET (0..n), NEW x \in T, \A y \in T : y <= x
  PROVE  Max(T) = x
<1>1. Max(T) \in T /\ \A y \in T : y \in Nat /\ y <= Max(T)
  BY GreatestOfNats
<1>2. Max(T) <= x /\ x <= Max(T) /\ Max(T) \in Nat /\ x \in Nat
  BY <1>1
<1> QED BY <1>2

\* A span is within the limit exactly when every step is.
LEMMA SpanIsShort ==
  ASSUME NEW g, WellFormed(g), NEW from \in Nodes(g), NEW to \in Nodes(g),
         NEW s \in Chains(g, from, to)
  PROVE  Span(g, s) <= MaxPathDepth <=> Short(g, s, to)
<1> DEFINE L == ExtractedLevels(g)
           N == NumNodes(g)
           gap(n) == L[After(s, n)] - L[n]
           T == {gap(n) : n \in s \ {to}}
<1>0. MaxPathDepth \in Nat /\ N \in Nat
  BY GraphDataAssumption, Topological
<1>1. /\ s \in SUBSET Nodes(g) /\ s \in SUBSET Nat /\ to \in s /\ to \in Nat
      /\ \A x \in s : x <= to
  BY ChainShape
<1>2. Max(s) = to
  <2>1. s \in SUBSET (0..to)
    BY <1>1
  <2> QED BY <1>1, <2>1, MaxIs
<1>3. \A n \in Nodes(g) : L[n] \in 0..n /\ n \in Nat /\ n <= N - 1
  BY <1>0, LevelsUnfold DEF Nodes
<1>4. \A n \in s \ {to} : <<n, After(s, n)>> \in Edges(g)
  BY ChainIs
<1>5. ASSUME NEW n \in s \ {to} PROVE gap(n) \in 0..N
  <2>1. n \in Nodes(g) /\ After(s, n) \in Nodes(g) /\ L[n] < L[After(s, n)]
    BY <1>4, PairClimbs
  <2> HIDE DEF L
  <2> QED BY <1>0, <1>3, <2>1
<1>6. Span(g, s) = Max({0} \cup T)
  BY <1>2 DEF Span, After
<1> HIDE DEF gap, N
<1>7. {0} \cup T \in SUBSET (0..N) /\ {0} \cup T # {}
  BY <1>0, <1>5
<1>8. /\ Max({0} \cup T) \in Nat /\ Max({0} \cup T) \in {0} \cup T
      /\ \A y \in {0} \cup T : y \in Nat /\ y <= Max({0} \cup T)
  <2> DEFINE Z == {0} \cup T
  <2> HIDE DEF Z
  <2>1. Max(Z) \in Nat /\ Max(Z) \in Z /\ \A y \in Z : y \in Nat /\ y <= Max(Z)
    BY <1>0, <1>7, GreatestOfNats DEF Z
  <2> QED BY <2>1 DEF Z
<1>9. Max({0} \cup T) <= MaxPathDepth <=> \A y \in T : y <= MaxPathDepth
  <2> DEFINE M == Max({0} \cup T)
  <2>1. M \in Nat /\ (M = 0 \/ M \in T) /\ \A y \in T : y \in Nat /\ y <= M
    BY <1>8
  <2> HIDE DEF M, T
  <2> QED BY <1>0, <2>1 DEF M
<1>10. (\A y \in T : y <= MaxPathDepth) <=> \A n \in s \ {to} : gap(n) <= MaxPathDepth
  OBVIOUS
<1> QED BY <1>6, <1>9, <1>10 DEF gap, Short

\* A path to n of short spans.
IsPath(g, s, n) == \E p \in 1..g.pis : s \in Chains(g, p, n) /\ Short(g, s, n)

\* The inputs, among the nodes.
LEMMA InputsAreNodes ==
  ASSUME NEW g, WellFormed(g)
  PROVE  /\ 1..g.pis \subseteq Nodes(g) /\ g.pis \in Nat
         /\ \A n \in Nodes(g) : Kind(g, n) = "pi" <=> n \in 1..g.pis
<1>1. g.pis \in Nat /\ Len(g.gates) \in Nat /\ Len(g.pos) \in Nat
  BY DEF WellFormed
<1>2. 1..g.pis \subseteq Nodes(g)
  BY <1>1 DEF Nodes, NumNodes, NumBase
<1>3. \A n \in Nodes(g) : Kind(g, n) = "pi" <=> n \in 1..g.pis
  BY <1>1 DEF Kind
<1> QED BY <1>1, <1>2, <1>3

\* What PathsTo holds, and that it is finite.
LEMMA PathsAre ==
  ASSUME NEW g, WellFormed(g), NEW n \in Nodes(g)
  PROVE  /\ \A s : s \in PathsTo(g, n) <=> IsPath(g, s, n)
         /\ \A s \in PathsTo(g, n) : /\ s \in SUBSET Nat /\ IsFiniteSet(s) /\ n \in s
                                     /\ \A x \in s : x <= n
         /\ IsFiniteSet(PathsTo(g, n)) /\ Cardinality(PathsTo(g, n)) \in Nat
<1>1. \A s : s \in PathsTo(g, n) <=> IsPath(g, s, n)
  <2> TAKE s
  <2>1. \A p \in 1..g.pis : s \in Chains(g, p, n) =>
          (Span(g, s) <= MaxPathDepth <=> Short(g, s, n))
    BY InputsAreNodes, SpanIsShort
  <2>2. s \in PathsTo(g, n) <=>
          \E p \in 1..g.pis : s \in Chains(g, p, n) /\ Span(g, s) <= MaxPathDepth
    BY DEF PathsTo
  <2> QED BY <2>1, <2>2 DEF IsPath
<1>2. ASSUME NEW s \in PathsTo(g, n)
      PROVE  s \in SUBSET Nat /\ IsFiniteSet(s) /\ n \in s /\ \A x \in s : x <= n
  <2>1. PICK p \in 1..g.pis : s \in Chains(g, p, n)
    BY <1>1 DEF IsPath
  <2>2. p \in Nodes(g)
    BY InputsAreNodes
  <2> QED BY <2>1, <2>2, ChainShape
<1>3. IsFiniteSet(PathsTo(g, n)) /\ Cardinality(PathsTo(g, n)) \in Nat
  <2>1. n \in Nat
    BY NodesFinite
  <2>2. IsFiniteSet(0..n)
    BY <2>1, FS_Interval
  <2>3. IsFiniteSet(SUBSET (0..n))
    BY <2>2, FS_SUBSET
  <2>4. PathsTo(g, n) \in SUBSET SUBSET (0..n)
    BY <1>2, <2>1
  <2>5. IsFiniteSet(PathsTo(g, n))
    BY <2>3, <2>4, FS_Subset
  <2> QED BY <2>5, FS_CardinalityType
<1> QED BY <1>1, <1>2, <1>3

\* An input is the only path of one node.
LEMMA PathOfOne ==
  ASSUME NEW g, WellFormed(g), NEW n \in Nodes(g)
  PROVE  {n} \in PathsTo(g, n) <=> n \in 1..g.pis
<1>1. ASSUME n \in 1..g.pis PROVE IsPath(g, {n}, n)
  <2>1. {n} \in Chains(g, n, n)
    BY <1>1, ChainAtOnce
  <2>2. Short(g, {n}, n)
    BY DEF Short
  <2> QED BY <1>1, <2>1, <2>2 DEF IsPath
<1>2. ASSUME IsPath(g, {n}, n) PROVE n \in 1..g.pis
  <2>1. PICK p \in 1..g.pis : {n} \in Chains(g, p, n)
    BY <1>2 DEF IsPath
  <2>2. p \in {n}
    BY <2>1, ChainIs
  <2> QED BY <2>2
<1> QED BY <1>1, <1>2, PathsAre

\* An edge of a short span makes a longer path.
LEMMA PathGrows ==
  ASSUME NEW g, WellFormed(g), NEW q \in Nodes(g), NEW m \in Nodes(g),
         <<q, m>> \in Edges(g), ShortSpan(ExtractedLevels(g)[m] - ExtractedLevels(g)[q]),
         NEW t \in PathsTo(g, q)
  PROVE  /\ t \cup {m} \in PathsTo(g, m) /\ m \notin t /\ t \cup {m} # {m}
         /\ (t \cup {m}) \ {m} = t /\ Max(t) = q
<1>1. PICK p \in 1..g.pis : t \in Chains(g, p, q) /\ Short(g, t, q)
  BY PathsAre DEF IsPath
<1>2. p \in Nodes(g)
  BY InputsAreNodes
<1>3. /\ t \cup {m} \in Chains(g, p, m) /\ m \notin t
      /\ \A n \in t : After(t \cup {m}, n) = IF n = q THEN m ELSE After(t, n)
  <2>1. t \in Chains(g, p, q)
    BY <1>1
  <2>2. t \cup {m} \in Chains(g, p, m) /\ m \notin t
    BY <1>2, <2>1, ChainGrows
  <2>3. \A n \in t : After(t \cup {m}, n) = IF n = q THEN m ELSE After(t, n)
    BY <1>2, <2>1, ChainGrows
  <2> QED BY <2>2, <2>3
<1>4. Short(g, t \cup {m}, m)
  <2> SUFFICES ASSUME NEW n \in (t \cup {m}) \ {m}
               PROVE  ExtractedLevels(g)[After(t \cup {m}, n)] - ExtractedLevels(g)[n]
                        <= MaxPathDepth
    BY DEF Short
  <2>1. n \in t
    OBVIOUS
  <2>2. CASE n = q
    BY <1>3, <2>1, <2>2 DEF ShortSpan
  <2>3. CASE n # q
    BY <1>1, <1>3, <2>1, <2>3 DEF Short
  <2> QED BY <2>2, <2>3
<1>5. t \in SUBSET Nat /\ q \in t /\ \A x \in t : x <= q
  BY PathsAre
<1>6. Max(t) = q
  <2>1. t \in SUBSET (0..q) /\ q \in Nat
    BY <1>5
  <2> QED BY <1>5, <2>1, MaxIs
<1>7. t \cup {m} \in PathsTo(g, m)
  BY <1>3, <1>4, PathsAre DEF IsPath
<1> QED BY <1>3, <1>5, <1>6, <1>7

\* A path that is more than its end is a shorter one and an edge of a short
\* span.
LEMMA PathShrinks ==
  ASSUME NEW g, WellFormed(g), NEW m \in Nodes(g), NEW s \in PathsTo(g, m), s # {m}
  PROVE  \E q \in Nodes(g) : /\ <<q, m>> \in Edges(g) /\ q = Max(s \ {m})
                             /\ ShortSpan(ExtractedLevels(g)[m] - ExtractedLevels(g)[q])
                             /\ s \ {m} \in PathsTo(g, q)
<1>1. PICK p \in 1..g.pis : s \in Chains(g, p, m) /\ Short(g, s, m)
  BY PathsAre DEF IsPath
<1>2. p \in Nodes(g) /\ p \in Nat
  BY InputsAreNodes
<1>3. p # m
  BY <1>1, <1>2, ChainAtOnce
<1>4. PICK q \in Nodes(g) : /\ <<q, m>> \in Edges(g) /\ q = Max(s \ {m})
                            /\ s \ {m} \in Chains(g, p, q)
  BY <1>1, <1>2, <1>3, ChainShrinks
<1> DEFINE t == s \ {m}
<1>5. s = t \cup {m}
  BY <1>1, ChainIs
<1>6. t \in Chains(g, p, q)
  BY <1>4
<1>7. q \in t
  BY <1>6, ChainIs
<1> HIDE DEF t
<1>8. \A n \in t : After(s, n) = IF n = q THEN m ELSE After(t, n)
  <2>1. <<q, m>> \in Edges(g) /\ q \in Nodes(g)
    BY <1>4
  <2>2. \A n \in t : After(t \cup {m}, n) = IF n = q THEN m ELSE After(t, n)
    BY <1>2, <1>6, <2>1, ChainGrows
  <2> QED BY <1>5, <2>2
<1>9. \A n \in t : n \in s \ {m}
  BY DEF t
<1>10. ShortSpan(ExtractedLevels(g)[m] - ExtractedLevels(g)[q])
  <2>1. ExtractedLevels(g)[After(s, q)] - ExtractedLevels(g)[q] <= MaxPathDepth
    BY <1>1, <1>7, <1>9 DEF Short
  <2> QED BY <1>7, <1>8, <2>1 DEF ShortSpan
<1>11. Short(g, t, q)
  <2> SUFFICES ASSUME NEW n \in t \ {q}
               PROVE  ExtractedLevels(g)[After(t, n)] - ExtractedLevels(g)[n] <= MaxPathDepth
    BY DEF Short
  <2>1. ExtractedLevels(g)[After(s, n)] - ExtractedLevels(g)[n] <= MaxPathDepth
    BY <1>1, <1>9 DEF Short
  <2> QED BY <1>8, <2>1
<1>12. t \in PathsTo(g, q)
  BY <1>6, <1>11, PathsAre DEF IsPath
<1> QED BY <1>4, <1>10, <1>12 DEF t

-----------------------------------------------------------------------------
(* Counts pushed downstream count the paths.                               *)

\* The node a path was last pushed from; an input starts its own.
Source(s, m) == IF s = {m} THEN m ELSE Max(s \ {m})

\* The paths to m that the first n nodes have pushed, and those of node n.
Pushed(g, n, m) == {s \in PathsTo(g, m) : Source(s, m) < n}
Fresh(g, n, m)  == {s \in PathsTo(g, m) : Source(s, m) = n}

\* A path was last pushed by its node before the last.
LEMMA SourceIs ==
  ASSUME NEW g, WellFormed(g), NEW m \in Nodes(g), NEW s \in PathsTo(g, m)
  PROVE  /\ Source(s, m) \in Nat /\ Source(s, m) <= m
         /\ s = {m} => Source(s, m) = m
         /\ s # {m} => /\ Source(s, m) < m /\ Source(s, m) \in Nodes(g)
                       /\ <<Source(s, m), m>> \in Edges(g)
                       /\ ShortSpan(ExtractedLevels(g)[m] - ExtractedLevels(g)[Source(s, m)])
                       /\ s \ {m} \in PathsTo(g, Source(s, m))
<1>1. m \in Nat /\ Nodes(g) \subseteq Nat
  BY NodesFinite
<1>2. CASE s = {m}
  BY <1>1, <1>2 DEF Source
<1>3. CASE s # {m}
  <2>1. PICK q \in Nodes(g) : /\ <<q, m>> \in Edges(g) /\ q = Max(s \ {m})
                              /\ ShortSpan(ExtractedLevels(g)[m] - ExtractedLevels(g)[q])
                              /\ s \ {m} \in PathsTo(g, q)
    BY <1>3, PathShrinks
  <2>2. Source(s, m) = q
    BY <1>3, <2>1 DEF Source
  <2>3. q < m /\ q \in Nat
    BY <1>1, <2>1, PairClimbs
  <2> QED BY <1>1, <1>3, <2>1, <2>2, <2>3
<1> QED BY <1>2, <1>3

\* One node more pushes its fresh paths; in the end all are pushed.
LEMMA PushedGrows ==
  ASSUME NEW g, WellFormed(g), NEW n \in Nat, NEW m \in Nodes(g)
  PROVE  /\ IsFiniteSet(Pushed(g, n, m)) /\ Cardinality(Pushed(g, n, m)) \in Nat
         /\ IsFiniteSet(Fresh(g, n, m)) /\ Cardinality(Fresh(g, n, m)) \in Nat
         /\ Cardinality(Pushed(g, n + 1, m))
              = Cardinality(Pushed(g, n, m)) + Cardinality(Fresh(g, n, m))
         /\ Cardinality(Pushed(g, 0, m)) = 0
         /\ n > m => Pushed(g, n, m) = PathsTo(g, m)
<1>1. \A s \in PathsTo(g, m) : Source(s, m) \in Nat /\ Source(s, m) <= m
  BY SourceIs
<1>2. m \in Nat
  BY NodesFinite
<1> DEFINE P == Pushed(g, n, m)
           F == Fresh(g, n, m)
<1>3. P \in SUBSET PathsTo(g, m) /\ F \in SUBSET PathsTo(g, m)
  BY DEF Pushed, Fresh
<1>4. Pushed(g, n + 1, m) = P \cup F /\ P \cap F = {}
  <2>1. \A s \in PathsTo(g, m) : /\ Source(s, m) < n + 1 <=> Source(s, m) < n \/ Source(s, m) = n
                                 /\ ~(Source(s, m) < n /\ Source(s, m) = n)
    BY <1>1
  <2> QED BY <2>1 DEF Pushed, Fresh
<1>5. Pushed(g, 0, m) = {}
  BY <1>1 DEF Pushed
<1>6. n > m => Pushed(g, n, m) = PathsTo(g, m)
  <2>1. n > m => \A s \in PathsTo(g, m) : Source(s, m) < n
    BY <1>1, <1>2
  <2> QED BY <2>1 DEF Pushed
<1>7. IsFiniteSet(P) /\ IsFiniteSet(F)
  BY <1>3, PathsAre, FS_Subset
<1> HIDE DEF P, F
<1>8. Cardinality(P) \in Nat /\ Cardinality(F) \in Nat
  BY <1>7, FS_CardinalityType
<1>9. Cardinality(P \cup F) = Cardinality(P) + Cardinality(F) - Cardinality(P \cap F)
  BY <1>7, FS_Union
<1>10. Cardinality(P \cap F) = 0
  BY <1>4, FS_EmptySet
<1>11. Cardinality(Pushed(g, n + 1, m)) = Cardinality(P) + Cardinality(F)
  <2>1. Cardinality(Pushed(g, n + 1, m)) = Cardinality(P \cup F)
    BY <1>4
  <2> QED BY <1>8, <1>9, <1>10, <2>1
<1> QED BY <1>5, <1>6, <1>7, <1>8, <1>11, FS_EmptySet DEF P, F

\* A node pushes each of its paths along each short edge, and nothing else.
LEMMA FreshIs ==
  ASSUME NEW g, WellFormed(g), NEW n \in Nodes(g), NEW m \in Nodes(g)
  PROVE  Cardinality(Fresh(g, n, m)) =
           IF m = n THEN IF n \in 1..g.pis THEN 1 ELSE 0
           ELSE IF /\ <<n, m>> \in Edges(g)
                   /\ ShortSpan(ExtractedLevels(g)[m] - ExtractedLevels(g)[n])
                THEN Cardinality(PathsTo(g, n)) ELSE 0
<1>0. Cardinality({}) = 0
  BY FS_EmptySet
<1>1. CASE m = n
  <2>1. \A s \in PathsTo(g, n) : Source(s, n) = n <=> s = {n}
    <3> TAKE s \in PathsTo(g, n)
    <3>1. n \in Nat
      BY NodesFinite
    <3>2. s = {n} => Source(s, n) = n
      BY DEF Source
    <3>3. s # {n} => Source(s, n) < n
      BY SourceIs
    <3> QED BY <3>1, <3>2, <3>3
  <2>2. Fresh(g, n, n) = {s \in PathsTo(g, n) : s = {n}}
    BY <2>1 DEF Fresh
  <2>3. CASE n \in 1..g.pis
    <3>1. Fresh(g, n, n) = {{n}}
      BY <2>2, <2>3, PathOfOne
    <3> QED BY <1>1, <2>3, <3>1, FS_Singleton
  <2>4. CASE n \notin 1..g.pis
    <3>1. Fresh(g, n, n) = {}
      BY <2>2, <2>4, PathOfOne
    <3> QED BY <1>0, <1>1, <2>4, <3>1
  <2> QED BY <2>3, <2>4
<1> DEFINE Carries == /\ <<n, m>> \in Edges(g)
                      /\ ShortSpan(ExtractedLevels(g)[m] - ExtractedLevels(g)[n])
<1>2. CASE m # n /\ ~Carries
  <2>1. ASSUME NEW s \in Fresh(g, n, m) PROVE FALSE
    <3>1. s \in PathsTo(g, m) /\ Source(s, m) = n
      BY DEF Fresh
    <3>2. s # {m}
      BY <1>2, <3>1, SourceIs
    <3> QED BY <1>2, <3>1, <3>2, SourceIs
  <2>2. Fresh(g, n, m) = {}
    BY <2>1
  <2> QED BY <1>0, <1>2, <2>2
<1>3. CASE m # n /\ Carries
  <2> DEFINE f == [t \in PathsTo(g, n) |-> t \cup {m}]
  <2>1. ASSUME NEW t \in PathsTo(g, n)
        PROVE  t \cup {m} \in Fresh(g, n, m) /\ (t \cup {m}) \ {m} = t
    <3>1. /\ t \cup {m} \in PathsTo(g, m) /\ t \cup {m} # {m}
          /\ (t \cup {m}) \ {m} = t /\ Max(t) = n
      BY <1>3, PathGrows
    <3>2. Source(t \cup {m}, m) = n
      BY <3>1 DEF Source
    <3> QED BY <3>1, <3>2 DEF Fresh
  <2>2. ASSUME NEW s \in Fresh(g, n, m)
        PROVE  s \ {m} \in PathsTo(g, n) /\ s = (s \ {m}) \cup {m}
    <3>1. s \in PathsTo(g, m) /\ Source(s, m) = n
      BY DEF Fresh
    <3>2. s # {m}
      BY <1>3, <3>1, SourceIs
    <3>3. s \ {m} \in PathsTo(g, n)
      BY <3>1, <3>2, SourceIs
    <3>4. m \in s
      BY <3>1, PathsAre
    <3> QED BY <3>3, <3>4
  <2>3. \A t, u \in PathsTo(g, n) : t \cup {m} = u \cup {m} => t = u
    BY <2>1
  <2>4. f \in Bijection(PathsTo(g, n), Fresh(g, n, m))
    <3>1. f \in [PathsTo(g, n) -> Fresh(g, n, m)]
      BY <2>1
    <3>2. f \in Injection(PathsTo(g, n), Fresh(g, n, m))
      BY <2>3, <3>1 DEF Injection, IsInjective
    <3>3. \A s \in Fresh(g, n, m) : \E t \in PathsTo(g, n) : f[t] = s
      BY <2>2
    <3>4. f \in Surjection(PathsTo(g, n), Fresh(g, n, m))
      BY <3>1, <3>3 DEF Surjection
    <3> QED BY <3>2, <3>4 DEF Bijection
  <2>5. Cardinality(Fresh(g, n, m)) = Cardinality(PathsTo(g, n))
    BY <2>4, PathsAre, FS_Bijection DEF ExistsBijection
  <2> QED BY <1>3, <2>5
<1> QED BY <1>1, <1>2, <1>3

\* The counts after n nodes, and one step of the loop.
CountsUpTo(g, n) == [m \in Nodes(g) |-> Cardinality(Pushed(g, n, m))]

CountStep(g, counts, at) ==
  LET c == IF Kind(g, at) = "pi" THEN [counts EXCEPT ![at] = 1] ELSE counts
  IN  [m \in Nodes(g) |->
         IF m \in Successors(g, at) /\ ShortSpan(ExtractedLevels(g)[m] - ExtractedLevels(g)[at])
         THEN c[m] + c[at] ELSE c[m]]

\* One step of the loop takes the counts of n nodes to those of n + 1.
LEMMA CountAdvances ==
  ASSUME NEW g, WellFormed(g), NEW n \in Nodes(g)
  PROVE  CountStep(g, CountsUpTo(g, n), n) = CountsUpTo(g, n + 1)
<1> DEFINE pi == n \in 1..g.pis
           c == IF Kind(g, n) = "pi" THEN [CountsUpTo(g, n) EXCEPT ![n] = 1]
                ELSE CountsUpTo(g, n)
           Carries(m) == m \in Successors(g, n)
                           /\ ShortSpan(ExtractedLevels(g)[m] - ExtractedLevels(g)[n])
<1>1. Kind(g, n) = "pi" <=> pi
  BY InputsAreNodes
<1>2. n \in Nat
  BY NodesFinite
<1>3. \A m \in Nodes(g) : m \in Successors(g, n) <=> <<n, m>> \in Edges(g)
  BY DEF Successors, Edges
<1>4. \A m \in Nodes(g) :
        /\ Cardinality(Pushed(g, n, m)) \in Nat
        /\ Cardinality(Pushed(g, n + 1, m))
             = Cardinality(Pushed(g, n, m)) + Cardinality(Fresh(g, n, m))
  BY <1>2, PushedGrows
<1>5. Cardinality(PathsTo(g, n)) = Cardinality(Pushed(g, n + 1, n))
  <2>1. n + 1 \in Nat /\ n + 1 > n
    BY <1>2
  <2> QED BY <2>1, PushedGrows
<1>6. n \notin Successors(g, n)
  <2>1. ~(n < n)
    BY <1>2
  <2> QED BY <1>3, <2>1, PairClimbs
<1>7. pi => Cardinality(Pushed(g, n, n)) = 0
  <2>1. pi => Cardinality(Pushed(g, n + 1, n)) = 1
    <3> SUFFICES ASSUME pi PROVE Cardinality(PathsTo(g, n)) = 1
      BY <1>5
    <3>1. Fanins(g, n) = {}
      <4>1. Kind(g, n) = "pi"
        BY <1>1
      <4> QED BY <4>1 DEF Fanins
    <3>2. \A s \in PathsTo(g, n) : s = {n}
      <4> TAKE s \in PathsTo(g, n)
      <4>1. \A q : <<q, n>> \notin Edges(g)
        BY <3>1, PairClimbs
      <4> QED BY <4>1, SourceIs
    <3>3. PathsTo(g, n) = {{n}}
      BY <3>2, PathOfOne
    <3> QED BY <3>3, FS_Singleton
  <2>2. pi => Cardinality(Fresh(g, n, n)) = 1
    BY FreshIs
  <2> QED BY <1>4, <2>1, <2>2
<1>8. \A m \in Nodes(g) : c[m] = IF m = n /\ pi THEN 1 ELSE Cardinality(Pushed(g, n, m))
  BY <1>1 DEF CountsUpTo
<1>9. c[n] = Cardinality(PathsTo(g, n))
  <2>1. Cardinality(Fresh(g, n, n)) = IF pi THEN 1 ELSE 0
    BY FreshIs
  <2> QED BY <1>4, <1>5, <1>7, <1>8, <2>1
<1> HIDE DEF c, pi
<1>10. ASSUME NEW m \in Nodes(g)
       PROVE  (IF Carries(m) THEN c[m] + c[n] ELSE c[m]) = Cardinality(Pushed(g, n + 1, m))
  <2>1. CASE m = n
    <3>1. ~Carries(m)
      BY <1>6, <2>1
    <3> QED BY <1>5, <1>9, <2>1, <3>1
  <2>2. CASE m # n
    <3>1. c[m] = Cardinality(Pushed(g, n, m))
      BY <1>8, <2>2
    <3>2. Cardinality(Fresh(g, n, m)) = IF Carries(m) THEN Cardinality(PathsTo(g, n)) ELSE 0
      BY <1>3, <2>2, FreshIs
    <3> QED BY <1>4, <1>9, <3>1, <3>2
  <2> QED BY <2>1, <2>2
<1>11. CountStep(g, CountsUpTo(g, n), n)
         = [m \in Nodes(g) |-> IF Carries(m) THEN c[m] + c[n] ELSE c[m]]
  BY DEF CountStep, c
<1> HIDE DEF Carries
<1> QED BY <1>10, <1>11 DEF CountsUpTo

\* The loop of _compute_paths_and_distances counts every path once.
LEMMA PathCountsRight ==
  ASSUME NEW g, WellFormed(g)
  PROVE  \A n \in Nodes(g) : PathCounts(g)[n] = Cardinality(PathsTo(g, n))
<1> DEFINE N == NumNodes(g)
           Sol(f) == f = [n \in 0..N |-> IF n = 0 THEN [m \in Nodes(g) |-> 0]
                                         ELSE CountStep(g, f[n - 1], n - 1)]
           A == CHOOSE f : Sol(f)
           h == [n \in 0..N |-> CountsUpTo(g, n)]
<1>1. N \in Nat /\ \A n \in 1..N : n - 1 \in Nodes(g)
  BY Topological DEF Nodes
<1>2. CountsUpTo(g, 0) = [m \in Nodes(g) |-> 0]
  <2>1. \A m \in Nodes(g) : Cardinality(Pushed(g, 0, m)) = 0
    BY PushedGrows
  <2> QED BY <2>1 DEF CountsUpTo
<1>3. ASSUME NEW n \in 1..N PROVE CountStep(g, CountsUpTo(g, n - 1), n - 1) = CountsUpTo(g, n)
  <2>1. n - 1 \in Nodes(g) /\ (n - 1) + 1 = n
    BY <1>1
  <2>2. CountStep(g, CountsUpTo(g, n - 1), n - 1) = CountsUpTo(g, (n - 1) + 1)
    BY <2>1, CountAdvances
  <2> QED BY <2>1, <2>2
<1>4. Sol(h)
  <2>1. ASSUME NEW n \in 0..N
        PROVE  h[n] = IF n = 0 THEN [m \in Nodes(g) |-> 0] ELSE CountStep(g, h[n - 1], n - 1)
    <3>1. CASE n = 0
      BY <1>2, <3>1
    <3>2. CASE n # 0
      <4>1. n \in 1..N /\ n - 1 \in 0..N
        BY <1>1, <3>2
      <4>2. h[n] = CountsUpTo(g, n) /\ h[n - 1] = CountsUpTo(g, n - 1)
        BY <4>1
      <4> QED BY <1>3, <3>2, <4>1, <4>2
    <3> QED BY <3>1, <3>2
  <2> QED BY <2>1
<1>5. Sol(A)
  BY <1>4
<1>6. PathCounts(g) = A[N]
  BY DEF PathCounts, CountStep
<1> HIDE DEF A, h
<1> DEFINE S == {k \in Nat : k <= N => A[k] = CountsUpTo(g, k)}
<1>7. 0 \in S
  BY <1>1, <1>2, <1>5
<1>8. ASSUME NEW k \in Nat, k \in S PROVE k + 1 \in S
  <2> SUFFICES ASSUME k + 1 <= N PROVE A[k + 1] = CountsUpTo(g, k + 1)
    OBVIOUS
  <2>1. k + 1 \in 1..N /\ k + 1 \in 0..N /\ k + 1 # 0 /\ (k + 1) - 1 = k /\ k <= N
    BY <1>1
  <2>2. A[k + 1] = CountStep(g, A[k], k)
    BY <1>5, <2>1
  <2>3. A[k] = CountsUpTo(g, k)
    BY <1>8, <2>1
  <2>4. CountStep(g, CountsUpTo(g, k), k) = CountsUpTo(g, k + 1)
    BY <1>3, <2>1
  <2> QED BY <2>2, <2>3, <2>4
<1>9. N \in S
  <2> HIDE DEF S, Sol, N
  <2> QED BY <1>1, <1>7, <1>8, NatInduct
<1>10. \A m \in Nodes(g) : CountsUpTo(g, N)[m] = Cardinality(PathsTo(g, m))
  <2> TAKE m \in Nodes(g)
  <2>1. N > m
    BY <1>1 DEF Nodes
  <2>2. Pushed(g, N, m) = PathsTo(g, m)
    BY <1>1, <2>1, PushedGrows
  <2> QED BY <2>2 DEF CountsUpTo
<1> QED BY <1>1, <1>6, <1>9, <1>10

-----------------------------------------------------------------------------
(* Rings of the breadth-first search.                                      *)

Reached(g, n, m) == Chains(g, n, m) # {}

\* What the search has reached at distance d, and what it reaches there.
Within(g, n, d) == {m \in Nodes(g) : Reached(g, n, m) /\ Distance(g, n, m) <= d}
Ring(g, n, d)   == {m \in Nodes(g) : Reached(g, n, m) /\ Distance(g, n, m) = d}

\* A distance is the length of a shortest chain.
LEMMA DistanceIs ==
  ASSUME NEW g, WellFormed(g), NEW n \in Nodes(g), NEW m \in Nodes(g)
  PROVE  /\ \A s \in Chains(g, n, m) : /\ IsFiniteSet(s) /\ Cardinality(s) \in Nat
                                       /\ Cardinality(s) >= 1
                                       /\ Distance(g, n, m) <= Cardinality(s) - 1
         /\ Reached(g, n, m) =>
              /\ Distance(g, n, m) \in Nat
              /\ \E s \in Chains(g, n, m) : Distance(g, n, m) = Cardinality(s) - 1
<1> DEFINE T == {Cardinality(s) - 1 : s \in Chains(g, n, m)}
<1>1. ASSUME NEW s \in Chains(g, n, m)
      PROVE  IsFiniteSet(s) /\ Cardinality(s) \in Nat /\ Cardinality(s) >= 1
  <2>1. IsFiniteSet(s) /\ n \in s
    BY ChainShape
  <2>2. Cardinality(s) \in Nat
    BY <2>1, FS_CardinalityType
  <2>3. Cardinality(s) # 0
    BY <2>1, FS_EmptySet
  <2> QED BY <2>1, <2>2, <2>3
<1>2. T \in SUBSET Nat
  <2>1. \A s \in Chains(g, n, m) : Cardinality(s) - 1 \in Nat
    BY <1>1
  <2> QED BY <2>1
<1>3. T # {} => Min(T) \in T /\ \A y \in T : Min(T) <= y
  <2> HIDE DEF T
  <2> QED BY <1>2, LeastIs
<1>4. Distance(g, n, m) = Min(T)
  BY DEF Distance
<1>5. Reached(g, n, m) <=> T # {}
  BY DEF Reached
<1>6. ASSUME NEW s \in Chains(g, n, m) PROVE Distance(g, n, m) <= Cardinality(s) - 1
  <2>1. Cardinality(s) - 1 \in T
    OBVIOUS
  <2> HIDE DEF T
  <2> QED BY <1>3, <1>4, <2>1
<1>7. ASSUME Reached(g, n, m)
      PROVE  /\ Distance(g, n, m) \in Nat
             /\ \E s \in Chains(g, n, m) : Distance(g, n, m) = Cardinality(s) - 1
  <2>1. Distance(g, n, m) \in T
    BY <1>3, <1>4, <1>5, <1>7
  <2> QED BY <1>2, <2>1
<1> QED BY <1>1, <1>6, <1>7

\* An edge adds at most one to the distance.
LEMMA DistanceGrows ==
  ASSUME NEW g, WellFormed(g), NEW n \in Nodes(g), NEW q \in Nodes(g), NEW m \in Nodes(g),
         Reached(g, n, q), <<q, m>> \in Edges(g)
  PROVE  /\ Reached(g, n, m) /\ Distance(g, n, q) \in Nat /\ Distance(g, n, m) \in Nat
         /\ Distance(g, n, m) <= Distance(g, n, q) + 1
<1>1. PICK t \in Chains(g, n, q) : Distance(g, n, q) = Cardinality(t) - 1
  BY DistanceIs
<1>2. t \cup {m} \in Chains(g, n, m) /\ m \notin t
  BY ChainGrows
<1>3. IsFiniteSet(t) /\ Cardinality(t) \in Nat
  BY DistanceIs
<1>4. Cardinality(t \cup {m}) = Cardinality(t) + 1
  BY <1>2, <1>3, FS_AddElement
<1>5. Reached(g, n, m)
  BY <1>2 DEF Reached
<1>6. Distance(g, n, m) <= Cardinality(t \cup {m}) - 1
  BY <1>2, DistanceIs
<1>7. Distance(g, n, m) \in Nat /\ Distance(g, n, q) \in Nat
  BY <1>5, DistanceIs
<1> QED BY <1>1, <1>3, <1>4, <1>5, <1>6, <1>7

\* A node away from the start has a predecessor one step nearer.
LEMMA DistanceShrinks ==
  ASSUME NEW g, WellFormed(g), NEW n \in Nodes(g), NEW m \in Nodes(g),
         Reached(g, n, m), m # n
  PROVE  \E q \in Nodes(g) : /\ <<q, m>> \in Edges(g) /\ Reached(g, n, q)
                             /\ Distance(g, n, m) = Distance(g, n, q) + 1
<1>1. PICK s \in Chains(g, n, m) : Distance(g, n, m) = Cardinality(s) - 1
  BY DistanceIs
<1>2. PICK q \in Nodes(g) : <<q, m>> \in Edges(g) /\ s \ {m} \in Chains(g, n, q)
  BY ChainShrinks
<1>3. m \in s /\ IsFiniteSet(s) /\ Cardinality(s) \in Nat
  BY DistanceIs, ChainIs
<1>4. Cardinality(s \ {m}) = Cardinality(s) - 1
  BY <1>3, FS_RemoveElement
<1>5. Reached(g, n, q)
  BY <1>2 DEF Reached
<1>6. Distance(g, n, q) <= Cardinality(s \ {m}) - 1
  BY <1>2, DistanceIs
<1>7. /\ Distance(g, n, q) \in Nat /\ Distance(g, n, m) \in Nat
      /\ Distance(g, n, m) <= Distance(g, n, q) + 1
  BY <1>2, <1>5, DistanceGrows
<1>8. Distance(g, n, m) = Distance(g, n, q) + 1
  BY <1>1, <1>3, <1>4, <1>6, <1>7
<1> QED BY <1>2, <1>5, <1>8

\* At distance 0 there is the start.
LEMMA RingsStart ==
  ASSUME NEW g, WellFormed(g), NEW n \in Nodes(g)
  PROVE  Within(g, n, 0) = {n} /\ Ring(g, n, 0) = {n} /\ Distance(g, n, n) = 0
<1>1. n \in Nat
  BY NodesFinite
<1>2. Chains(g, n, n) = {{n}}
  BY <1>1, ChainAtOnce
<1>3. Reached(g, n, n) /\ Distance(g, n, n) = 0
  <2>1. Reached(g, n, n)
    BY <1>2 DEF Reached
  <2>2. PICK s \in Chains(g, n, n) : Distance(g, n, n) = Cardinality(s) - 1
    BY <2>1, DistanceIs
  <2>3. Cardinality(s) = 1
    BY <1>2, <2>2, FS_Singleton
  <2> QED BY <2>1, <2>2, <2>3
<1>4. ASSUME NEW m \in Nodes(g), Reached(g, n, m), m # n PROVE ~(Distance(g, n, m) <= 0)
  <2>1. PICK q \in Nodes(g) : /\ Reached(g, n, q)
                              /\ Distance(g, n, m) = Distance(g, n, q) + 1
    BY <1>4, DistanceShrinks
  <2>2. Distance(g, n, q) \in Nat
    BY <2>1, DistanceIs
  <2> QED BY <2>1, <2>2
<1>5. Within(g, n, 0) = {n}
  BY <1>3, <1>4 DEF Within
<1>6. Ring(g, n, 0) = {n}
  BY <1>3, <1>4 DEF Ring
<1> QED BY <1>3, <1>5, <1>6

\* The next ring is what the search takes from the queue.
LEMMA RingsGrow ==
  ASSUME NEW g, WellFormed(g), NEW n \in Nodes(g), NEW d \in Nat
  PROVE  /\ (UNION {Successors(g, m) : m \in Ring(g, n, d)}) \ Within(g, n, d) = Ring(g, n, d + 1)
         /\ Within(g, n, d + 1) = Within(g, n, d) \cup Ring(g, n, d + 1)
         /\ Within(g, n, d) \cap Ring(g, n, d + 1) = {}
<1> DEFINE next == UNION {Successors(g, m) : m \in Ring(g, n, d)}
           new == next \ Within(g, n, d)
<1>0. \A x : x \in next <=> \E q \in Ring(g, n, d) : x \in Successors(g, q)
  OBVIOUS
<1> HIDE DEF next
<1>1. \A m \in Nodes(g) : Reached(g, n, m) => Distance(g, n, m) \in Nat
  BY DistanceIs
<1>2. \A q, m : m \in Successors(g, q) /\ q \in Nodes(g) <=> <<q, m>> \in Edges(g)
  BY DEF Successors, Edges
<1>3. ASSUME NEW m \in new PROVE m \in Ring(g, n, d + 1)
  <2>1. PICK q \in Ring(g, n, d) : m \in Successors(g, q)
    BY <1>0
  <2>2. q \in Nodes(g) /\ Reached(g, n, q) /\ Distance(g, n, q) = d
    BY DEF Ring
  <2>3. <<q, m>> \in Edges(g)
    BY <1>2, <2>1, <2>2
  <2>4. m \in Nodes(g)
    BY <2>3, PairClimbs
  <2>5. Reached(g, n, m) /\ Distance(g, n, m) \in Nat /\ Distance(g, n, m) <= d + 1
    BY <2>2, <2>3, <2>4, DistanceGrows
  <2>6. ~(Distance(g, n, m) <= d)
    <3>1. m \notin Within(g, n, d)
      OBVIOUS
    <3> HIDE DEF new
    <3> QED BY <2>4, <2>5, <3>1 DEF Within
  <2>7. Distance(g, n, m) = d + 1
    BY <2>5, <2>6
  <2> QED BY <2>4, <2>5, <2>7 DEF Ring
<1>4. ASSUME NEW m \in Ring(g, n, d + 1) PROVE m \in new
  <2>1. m \in Nodes(g) /\ Reached(g, n, m) /\ Distance(g, n, m) = d + 1
    BY DEF Ring
  <2>2. m # n
    <3>1. Distance(g, n, n) = 0
      BY RingsStart
    <3> QED BY <2>1, <3>1
  <2>3. PICK q \in Nodes(g) : /\ <<q, m>> \in Edges(g) /\ Reached(g, n, q)
                              /\ Distance(g, n, m) = Distance(g, n, q) + 1
    BY <2>1, <2>2, DistanceShrinks
  <2>4. Distance(g, n, q) = d
    BY <1>1, <2>1, <2>3
  <2>5. q \in Ring(g, n, d) /\ m \in Successors(g, q)
    BY <1>2, <2>3, <2>4 DEF Ring
  <2>6. m \notin Within(g, n, d)
    BY <2>1 DEF Within
  <2>7. m \in next
    BY <1>0, <2>5
  <2> QED BY <2>6, <2>7
<1>5. new = Ring(g, n, d + 1)
  BY <1>3, <1>4
<1>6. \A m \in Nodes(g) : Reached(g, n, m) =>
        /\ Distance(g, n, m) <= d + 1 <=> Distance(g, n, m) <= d \/ Distance(g, n, m) = d + 1
        /\ ~(Distance(g, n, m) <= d /\ Distance(g, n, m) = d + 1)
  BY <1>1
<1>7. /\ Within(g, n, d + 1) = Within(g, n, d) \cup Ring(g, n, d + 1)
      /\ Within(g, n, d) \cap Ring(g, n, d + 1) = {}
  BY <1>6 DEF Within, Ring
<1>8. new = (UNION {Successors(g, m) : m \in Ring(g, n, d)}) \ Within(g, n, d)
  BY DEF next
<1> HIDE DEF new
<1> QED BY <1>5, <1>7, <1>8

\* Terms of one weight add its multiple.
LEMMA TotalJoin ==
  ASSUME NEW w, NEW A, NEW B, IsFiniteSet(A), IsFiniteSet(B), A \cap B = {},
         \A x \in A : w[x] \in Nat, NEW c \in Nat, \A x \in B : w[x] = c
  PROVE  Total(w, A \cup B) = Total(w, A) + c * Cardinality(B)
<1> DEFINE Joined(T) == Total(w, A \cup T) = Total(w, A) + c * Cardinality(T)
           C == {T \in SUBSET B : ~Joined(T)}
<1>1. Total(w, A) \in Nat
  BY TotalSplit
<1> SUFFICES ASSUME C # {} PROVE FALSE
  OBVIOUS
<1>2. PICK S \in C : \A T \in C : T \subseteq S => T = S
  <2>1. C \in SUBSET SUBSET B
    OBVIOUS
  <2> HIDE DEF C
  <2> QED BY <2>1, LeastSet
<1>3. S \in SUBSET B /\ ~Joined(S) /\ \A T \in SUBSET S : T # S => Joined(T)
  BY <1>2
<1>4. S # {}
  <2>1. Joined({})
    <3>1. A \cup {} = A /\ Cardinality({}) = 0
      BY FS_EmptySet
    <3>2. Total(w, A \cup {}) = Total(w, A)
      BY <3>1
    <3>3. c * Cardinality({}) = 0
      BY <3>1
    <3> QED BY <1>1, <3>2, <3>3
  <2> QED BY <1>3, <2>1
<1>5. PICK y \in S : TRUE
  BY <1>4
<1> HIDE DEF C
<1> DEFINE R == S \ {y}
<1>6. Joined(R)
  BY <1>3, <1>5
<1>7. IsFiniteSet(S) /\ IsFiniteSet(R) /\ Cardinality(R) \in Nat
      /\ Cardinality(S) = Cardinality(R) + 1
  <2>1. IsFiniteSet(S)
    BY <1>3, FS_Subset
  <2>2. IsFiniteSet(R) /\ Cardinality(R) = Cardinality(S) - 1 /\ Cardinality(S) \in Nat
    BY <1>5, <2>1, FS_RemoveElement, FS_CardinalityType
  <2>3. Cardinality(R) \in Nat
    BY <2>2, FS_CardinalityType
  <2> HIDE DEF R
  <2> QED BY <2>1, <2>2, <2>3
<1>8. Total(w, A \cup S) = c + Total(w, A \cup R)
  <2> DEFINE U == A \cup S
  <2>1. IsFiniteSet(U)
    BY <1>7, FS_Union
  <2>2. \A x \in U : w[x] \in Nat
    BY <1>3
  <2>3. y \in U /\ w[y] = c /\ U \ {y} = A \cup R
    BY <1>3, <1>5
  <2> HIDE DEF U
  <2>4. Total(w, U) = w[y] + Total(w, U \ {y})
    BY <2>1, <2>2, <2>3, TotalSplit
  <2>5. Total(w, U \ {y}) = Total(w, A \cup R)
    BY <2>3
  <2> QED BY <2>3, <2>4, <2>5 DEF U
<1>9. c * Cardinality(S) = c * Cardinality(R) + c /\ c * Cardinality(R) \in Nat
  BY <1>7
<1>10. Total(w, A \cup S) = Total(w, A) + c * Cardinality(S)
  <2> HIDE DEF R
  <2> QED BY <1>1, <1>6, <1>8, <1>9
<1> QED BY <1>3, <1>10

DistanceFrom(g, n) == [m \in Nodes(g) |-> Distance(g, n, m)]

\* The queue after distance d, and one ring of the search.
SearchUpTo(g, n, d) ==
  [seen |-> Within(g, n, d), front |-> Ring(g, n, d),
   sum |-> Total(DistanceFrom(g, n), Within(g, n, d))]

SearchStep(g, r, d) ==
  LET new == (UNION {Successors(g, m) : m \in r.front}) \ r.seen
  IN  [seen |-> r.seen \cup new, front |-> new, sum |-> r.sum + d * Cardinality(new)]

\* One ring of the search.
LEMMA SearchAdvances ==
  ASSUME NEW g, WellFormed(g), NEW n \in Nodes(g), NEW d \in Nat
  PROVE  /\ SearchUpTo(g, n, 0) = [seen |-> {n}, front |-> {n}, sum |-> 0]
         /\ SearchStep(g, SearchUpTo(g, n, d), d + 1) = SearchUpTo(g, n, d + 1)
<1> DEFINE w == DistanceFrom(g, n)
<1>1. Total(w, {n}) = 0
  <2>1. w[n] = 0
    BY RingsStart DEF DistanceFrom
  <2>2. IsFiniteSet({n}) /\ IsFiniteSet({})
    BY FS_Singleton, FS_EmptySet
  <2> HIDE DEF w
  <2>3. Total(w, {n}) = w[n] + Total(w, {n} \ {n})
    BY <2>1, <2>2, TotalSplit
  <2>4. {n} \ {n} = {}
    OBVIOUS
  <2>5. Total(w, {n} \ {n}) = 0
    BY <2>2, <2>4, TotalUnfold
  <2> QED BY <2>1, <2>3, <2>5
<1>2. SearchUpTo(g, n, 0) = [seen |-> {n}, front |-> {n}, sum |-> 0]
  BY <1>1, RingsStart DEF SearchUpTo
<1> DEFINE A == Within(g, n, d)
           B == Ring(g, n, d + 1)
<1>3. /\ (UNION {Successors(g, m) : m \in Ring(g, n, d)}) \ A = B
      /\ Within(g, n, d + 1) = A \cup B /\ A \cap B = {}
  BY RingsGrow
<1>4. IsFiniteSet(A) /\ IsFiniteSet(B)
  <2>1. A \in SUBSET Nodes(g) /\ B \in SUBSET Nodes(g)
    BY DEF Within, Ring
  <2> QED BY <2>1, NodesFinite, FS_Subset
<1>5. (\A x \in A : w[x] \in Nat) /\ (\A x \in B : w[x] = d + 1)
  <2>1. \A x \in A : x \in Nodes(g) /\ Distance(g, n, x) \in Nat
    BY DistanceIs DEF Within
  <2>2. \A x \in B : x \in Nodes(g) /\ Distance(g, n, x) = d + 1
    BY DEF Ring
  <2> QED BY <2>1, <2>2 DEF DistanceFrom
<1> HIDE DEF A, B, w
<1>6. Total(w, A \cup B) = Total(w, A) + (d + 1) * Cardinality(B)
  <2>1. d + 1 \in Nat
    OBVIOUS
  <2> QED BY <1>3, <1>4, <1>5, <2>1, TotalJoin
<1>7. SearchUpTo(g, n, d) = [seen |-> A, front |-> Ring(g, n, d), sum |-> Total(w, A)]
  BY DEF SearchUpTo, A, w
<1>8. SearchStep(g, SearchUpTo(g, n, d), d + 1)
        = [seen |-> A \cup B, front |-> B, sum |-> Total(w, A) + (d + 1) * Cardinality(B)]
  <2> DEFINE r == [seen |-> A, front |-> Ring(g, n, d), sum |-> Total(w, A)]
             new == (UNION {Successors(g, m) : m \in r.front}) \ r.seen
  <2>1. r.seen = A /\ r.front = Ring(g, n, d) /\ r.sum = Total(w, A)
    OBVIOUS
  <2> HIDE DEF r
  <2>2. new = B
    BY <1>3, <2>1
  <2>3. SearchStep(g, r, d + 1)
          = [seen |-> r.seen \cup new, front |-> new, sum |-> r.sum + (d + 1) * Cardinality(new)]
    BY DEF SearchStep
  <2> HIDE DEF new
  <2> QED BY <1>7, <2>1, <2>2, <2>3 DEF r
<1>9. SearchUpTo(g, n, d + 1) = [seen |-> A \cup B, front |-> B, sum |-> Total(w, A \cup B)]
  BY <1>3 DEF SearchUpTo, B, w
<1> QED BY <1>2, <1>6, <1>8, <1>9

\* The search sums the true distances of what it reaches.
LEMMA SearchSums ==
  ASSUME NEW g, WellFormed(g), NEW n \in Nodes(g)
  PROVE  NeighbourhoodSum(g, n) = Total(DistanceFrom(g, n), Near(g, n))
<1> DEFINE start == [seen |-> {n}, front |-> {n}, sum |-> 0]
           Sol(f) == f = [d \in 0..Cutoff |-> IF d = 0 THEN start ELSE SearchStep(g, f[d - 1], d)]
           A == CHOOSE f : Sol(f)
           h == [d \in 0..Cutoff |-> SearchUpTo(g, n, d)]
<1>1. Cutoff \in Nat
  BY GraphDataAssumption
<1>2. SearchUpTo(g, n, 0) = start
  <2>1. 0 \in Nat
    OBVIOUS
  <2> QED BY <2>1, SearchAdvances
<1>3. ASSUME NEW d \in 1..Cutoff
      PROVE  SearchStep(g, SearchUpTo(g, n, d - 1), d) = SearchUpTo(g, n, d)
  <2>1. d - 1 \in Nat /\ (d - 1) + 1 = d
    BY <1>1
  <2>2. SearchStep(g, SearchUpTo(g, n, d - 1), (d - 1) + 1) = SearchUpTo(g, n, (d - 1) + 1)
    BY <2>1, SearchAdvances
  <2> QED BY <2>1, <2>2
<1> HIDE DEF start
<1>4. Sol(h)
  <2>1. ASSUME NEW d \in 0..Cutoff
        PROVE  h[d] = IF d = 0 THEN start ELSE SearchStep(g, h[d - 1], d)
    <3>1. CASE d = 0
      BY <1>2, <3>1
    <3>2. CASE d # 0
      <4>1. d \in 1..Cutoff /\ d - 1 \in 0..Cutoff
        BY <1>1, <3>2
      <4>2. h[d] = SearchUpTo(g, n, d) /\ h[d - 1] = SearchUpTo(g, n, d - 1)
        BY <4>1
      <4> QED BY <1>3, <3>2, <4>1, <4>2
    <3> QED BY <3>1, <3>2
  <2> QED BY <2>1
<1>5. Sol(A)
  BY <1>4
<1>6. NeighbourhoodSum(g, n) = A[Cutoff].sum
  BY DEF NeighbourhoodSum, SearchStep, start
<1> HIDE DEF A, h
<1> DEFINE S == {k \in Nat : k <= Cutoff => A[k] = SearchUpTo(g, n, k)}
<1>7. 0 \in S
  BY <1>1, <1>2, <1>5
<1>8. ASSUME NEW k \in Nat, k \in S PROVE k + 1 \in S
  <2> SUFFICES ASSUME k + 1 <= Cutoff PROVE A[k + 1] = SearchUpTo(g, n, k + 1)
    OBVIOUS
  <2>1. /\ k + 1 \in 1..Cutoff /\ k + 1 \in 0..Cutoff /\ k + 1 # 0
        /\ (k + 1) - 1 = k /\ k <= Cutoff
    BY <1>1
  <2>2. A[k + 1] = SearchStep(g, A[k], k + 1)
    BY <1>5, <2>1
  <2>3. A[k] = SearchUpTo(g, n, k)
    BY <1>8, <2>1
  <2>4. SearchStep(g, SearchUpTo(g, n, k), k + 1) = SearchUpTo(g, n, k + 1)
    BY <1>3, <2>1
  <2> QED BY <2>2, <2>3, <2>4
<1>9. Cutoff \in S
  <2> HIDE DEF S, Sol
  <2> QED BY <1>1, <1>7, <1>8, NatInduct
<1>10. SearchUpTo(g, n, Cutoff).sum = Total(DistanceFrom(g, n), Near(g, n))
  BY DEF SearchUpTo, Within, Near, Reached
<1> QED BY <1>1, <1>6, <1>9, <1>10

\* A sum of distances, as a total.
Spread(g, n, P) == MapThenSumSet(LAMBDA m : Distance(g, n, m), P)

\* The sum of distances over nodes is their total.
LEMMA SpreadIsTotal ==
  ASSUME NEW g, WellFormed(g), NEW n \in Nodes(g), NEW P \in SUBSET Nodes(g)
  PROVE  Spread(g, n, P) = Total(DistanceFrom(g, n), P)
<1> DEFINE w == DistanceFrom(g, n)
           Sol(f) == f = [T \in SUBSET P |->
                            IF T = {} THEN 0
                            ELSE Distance(g, n, First(T)) + f[T \ {First(T)}]]
           A == CHOOSE f : Sol(f)
           h == [T \in SUBSET P |-> Total(w, T)]
<1>0. IsFiniteSet(P)
  BY NodesFinite, FS_Subset
<1>1. \A T \in SUBSET P : T # {} => /\ w[First(T)] = Distance(g, n, First(T))
                                    /\ T \ {First(T)} \in SUBSET P
  BY FirstLess DEF DistanceFrom
<1>2. \A T \in SUBSET P : Total(w, T) = IF T = {} THEN 0
                                        ELSE w[First(T)] + Total(w, T \ {First(T)})
  <2> HIDE DEF w
  <2> QED BY <1>0, TotalUnfold, FS_Subset
<1>3. Spread(g, n, P) = A[P]
  BY DEF Spread, MapThenSumSet, MapThenFoldSet, First
<1> HIDE DEF A, w
<1>4. Sol(h)
  <2>1. ASSUME NEW T \in SUBSET P
        PROVE  h[T] = IF T = {} THEN 0 ELSE Distance(g, n, First(T)) + h[T \ {First(T)}]
    BY <1>1, <1>2
  <2> QED BY <2>1
<1>5. Sol(A)
  BY <1>4 DEF A
<1>6. Sums(w, h, P)
  BY <1>2, <1>1 DEF Sums, Summed
<1>7. Sums(w, A, P)
  BY <1>1, <1>5 DEF Sums, Summed
<1>8. A[P] = h[P]
  <2> HIDE DEF h
  <2> QED BY <1>0, <1>6, <1>7, SumsAgree
<1>9. h[P] = Total(w, P)
  OBVIOUS
<1> QED BY <1>3, <1>8, <1>9 DEF w

\* In a catalogue every graph is well formed, so its features are right.
LEMMA FeaturesHold == content \in Catalogue => FeaturesRight
<1> SUFFICES ASSUME content \in Catalogue, NEW g \in Graphs, NEW n \in Nodes(g)
             PROVE  /\ PathCounts(g)[n] = Cardinality(PathsTo(g, n))
                    /\ NeighbourhoodSum(g, n)
                         = MapThenSumSet(LAMBDA m : Distance(g, n, m), Near(g, n))
  BY DEF FeaturesRight
<1>1. WellFormed(g)
  BY CatalogueAssumption DEF Graphs, Files
<1>2. PathCounts(g)[n] = Cardinality(PathsTo(g, n))
  BY <1>1, PathCountsRight
<1>3. NeighbourhoodSum(g, n) = Spread(g, n, Near(g, n))
  <2>1. Near(g, n) \in SUBSET Nodes(g)
    BY DEF Near
  <2>2. NeighbourhoodSum(g, n) = Total(DistanceFrom(g, n), Near(g, n))
    BY <1>1, SearchSums
  <2>3. Spread(g, n, Near(g, n)) = Total(DistanceFrom(g, n), Near(g, n))
    BY <1>1, <2>1, SpreadIsTotal
  <2> QED BY <2>2, <2>3
<1> QED BY <1>2, <1>3 DEF Spread

(* The features stored with a graph are those of its paths, for any graphs *)
(* and any cut-offs: the counts pushed downstream in index order           *)
(* (data_utils.py:189-198) are the numbers of paths, and the search by     *)
(* rings (data_utils.py:200-212) sums true distances.                      *)
THEOREM FeaturesAreRight == Spec => []FeaturesRight
<1>1. Spec => []LevelInv
  BY InitLevels, StepLevels, HoldInductive, PTL DEF Spec
<1>2. LevelInv => FeaturesRight
  BY FeaturesHold DEF LevelInv
<1> QED
  BY <1>1, <1>2, PTL

=============================================================================
