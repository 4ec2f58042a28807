---------------------------- MODULE Splits_proofs ----------------------------
(* What split files and datasets hold, for any CSV versions, configurations *)
(* and number of processes, whatever the shuffle and the draw return.       *)
EXTENDS Splits, FiniteSetTheorems, WellFoundedInduction, TLAPS

\* Two splits of a payload share no group.
Apart(part) ==
  \A s, t \in Split : s # t => \A p \in part[s], q \in part[t] : Design[p] # Design[q]

Marked(payload) == payload.meta.kind = "meta"

\* The meta data of the dataset that j is building, as the files are now.
Now(j) == Meta(setup[j], Wanted(j).num, csv, exclusion)

Busy == {"memory", "disk", "compute", "publish"}

\* An idle process holds nothing, a busy one has a dataset to build, and the
\* payload is in memory exactly when the next step is to deliver it.
PhaseOf(j) ==
  /\ pc[j] = "idle" => /\ rows[j] = None /\ meta[j] = None
                       /\ memo[j] = Empty /\ have[j] = {}
  /\ pc[j] # "idle" => setup[j] \in Setups /\ (setup[j].exclude => exclusion # None)
  /\ pc[j] = "free" => meta[j] = None
  /\ pc[j] \in Busy => todo[j] # <<>> /\ rows[j] \in Version
  /\ pc[j] \in {"disk", "compute"} => memo[j][Wanted(j).num] = Absent
  /\ pc[j] = "publish" => Marked(memo[j][Wanted(j).num])

\* Every payload that carries meta data keeps the groups apart.
SoundInv ==
  /\ \A n \in Num : Marked(disk[n]) => Apart(disk[n].part)
  /\ \A j \in Job, n \in Num : Marked(memo[j][n]) => Apart(memo[j][n].part)

\* As long as the CSV stays, a payload in memory stays, and every dataset was
\* cut from the one in memory for its num_samples.
FreshOf(j) ==
  undisturbed[j] =>
    /\ meta[j] \in {None, Now(j)}
    /\ \A n \in Num : Marked(memo[j][n]) => memo[j][n].meta = Meta(setup[j], n, csv, exclusion)
    /\ \A a \in have[j] : /\ Marked(memo[j][a.num])
                          /\ a.paths \subseteq memo[j][a.num].part[a.split]

\* As long as the CSV is replaced between processes only, rows and stat agree.
CurrentOf(j) ==
  quiet =>
    /\ rows[j] \in {None, csv}
    /\ meta[j] \in {None, Now(j)}
    /\ \A n \in Num : Marked(memo[j][n]) => memo[j][n].part = PartOf(memo[j][n].meta)

JobInv == \A j \in Job : PhaseOf(j) /\ FreshOf(j) /\ CurrentOf(j)

IInv == TypeOK /\ JobInv /\ SoundInv /\ PayloadCurrent

-----------------------------------------------------------------------------
LEMMA MetaTyped ==
  ASSUME NEW c \in Setups, NEW n \in Num, NEW v \in Version,
         NEW x \in (SUBSET Path) \cup {None}
  PROVE  Meta(c, n, v, x) \in MetaData /\ Meta(c, n, v, x).kind = "meta"
BY DEF MetaData, Meta

LEMMA Kinds ==
  /\ \A p \in Payload : Marked(p) /\ p # Absent
  /\ \A p \in Prepared : ~Marked(p)
  /\ ~Marked(Absent)
  /\ \A m \in MetaData : m.kind = "meta"
BY DEF Payload, Prepared, Absent, Marked, MetaData, Meta, Unmarked

\* A computed split is typed and keeps groups apart: a group has one side.
LEMMA SplitTyped ==
  ASSUME NEW r, NEW seed, NEW ratios, NEW n
  PROVE  /\ SplitRows(r, seed, ratios, n) \in [Split -> SUBSET Path]
         /\ Apart(SplitRows(r, seed, ratios, n))
BY DEF SplitRows, Apart

LEMMA InitIInv == Init => IInv
<1> SUFFICES ASSUME Init PROVE IInv
  OBVIOUS
<1> USE ConstantsAssumption
<1>1. Empty \in [Num -> Payload \cup {Absent}] /\ \A n \in Num : Empty[n] = Absent
  BY DEF Empty
<1>2. TypeOK
  <2>1. 1 \in Version
    BY DEF Version
  <2>2. <<>> \in Seq(Request)
    OBVIOUS
  <2>3. memo \in [Job -> [Num -> Payload \cup {Absent}]]
    BY <1>1 DEF Init
  <2>4. disk \in [Num -> Payload \cup Prepared \cup {Absent}]
    BY <1>1 DEF Init
  <2> QED BY <2>1, <2>2, <2>3, <2>4 DEF Init, TypeOK
<1>3. JobInv
  BY <1>1, Kinds DEF Init, JobInv, PhaseOf, FreshOf, CurrentOf, Busy
<1>4. SoundInv
  BY <1>1, Kinds DEF Init, SoundInv
<1>5. PayloadCurrent
  BY <1>1, Kinds DEF Init, PayloadCurrent, Marked
<1> QED BY <1>2, <1>3, <1>4, <1>5 DEF IInv

-----------------------------------------------------------------------------
\* A process that does not move, while the files it is compared with stay.
Still(i) ==
  /\ csv' = csv /\ exclusion' = exclusion /\ quiet' = quiet
  /\ pc'[i] = pc[i] /\ setup'[i] = setup[i] /\ todo'[i] = todo[i]
  /\ rows'[i] = rows[i] /\ memo'[i] = memo[i] /\ meta'[i] = meta[i]
  /\ have'[i] = have[i] /\ undisturbed'[i] = undisturbed[i]

LEMMA StillKeeps ==
  ASSUME JobInv, NEW i \in Job, Still(i)
  PROVE  PhaseOf(i)' /\ FreshOf(i)' /\ CurrentOf(i)'
<1>1. Now(i)' = Now(i)
  BY DEF Still, Now, Wanted
<1>2. PhaseOf(i)'
  BY DEF JobInv, PhaseOf, Still, Wanted
<1>3. FreshOf(i)'
  BY <1>1 DEF JobInv, FreshOf, Still
<1>4. CurrentOf(i)'
  BY <1>1 DEF JobInv, CurrentOf, Still
<1> QED BY <1>2, <1>3, <1>4

\* A step of one process that leaves what the others are compared with.
LEMMA OneMoves ==
  ASSUME JobInv, NEW j \in Job, \A i \in Job : i # j => Still(i),
         PhaseOf(j)', FreshOf(j)', CurrentOf(j)'
  PROVE  JobInv'
BY StillKeeps DEF JobInv

\* The stat of a busy process is that of the files as they are, if the CSV
\* was not replaced since it took it.
LEMMA StatTyped ==
  ASSUME TypeOK, JobInv, NEW j \in Job, pc[j] \in Busy
  PROVE  /\ Wanted(j) \in Request /\ Wanted(j).num \in Num /\ Wanted(j).split \in Split
         /\ setup[j] \in Setups
         /\ Now(j) \in MetaData
         /\ StatOnce(j) \in MetaData
         /\ quiet \/ undisturbed[j] => StatOnce(j) = Now(j)
<1>1. setup[j] \in Setups /\ todo[j] \in Seq(Request) /\ todo[j] # <<>>
  BY DEF JobInv, PhaseOf, Busy, TypeOK
<1>2. Wanted(j) \in Request
  BY <1>1 DEF Wanted
<1>3. Wanted(j).num \in Num /\ Wanted(j).split \in Split
  BY <1>2 DEF Request
<1>4. Now(j) \in MetaData
  BY <1>1, <1>3, MetaTyped DEF Now, TypeOK
<1>5. StatOnce(j) \in {meta[j], Now(j)} /\ (meta[j] = None => StatOnce(j) = Now(j))
      /\ (meta[j] # None => StatOnce(j) = meta[j])
  BY DEF StatOnce, Now
<1>6. StatOnce(j) \in MetaData
  BY <1>4, <1>5 DEF TypeOK
<1>7. quiet \/ undisturbed[j] => meta[j] \in {None, Now(j)}
  BY DEF JobInv, FreshOf, CurrentOf
<1> QED BY <1>1, <1>2, <1>3, <1>4, <1>5, <1>6, <1>7

\* What Deliver hands out is a typed dataset cut from the payload.
LEMMA DeliverTyped ==
  ASSUME TypeOK, JobInv, NEW j \in Job, pc[j] \in Busy,
         NEW payload \in Payload, Deliver(j, payload)
  PROVE  \E ds \in [split : Split, num : Num, paths : SUBSET Path] :
           /\ ds.num = Wanted(j).num
           /\ ds.paths \subseteq payload.part[ds.split]
           /\ have' = [have EXCEPT ![j] = @ \cup {ds}]
           /\ todo' = [todo EXCEPT ![j] = Tail(@)]
           /\ meta' = [meta EXCEPT ![j] = None]
           /\ pc' = [pc EXCEPT ![j] = "free"]
<1> DEFINE left == ToSet(Candidates(Csv[rows[j]], IF setup[j].exclude THEN exclusion ELSE None))
           ds == [split |-> Wanted(j).split, num |-> Wanted(j).num,
                  paths |-> left \cap payload.part[Wanted(j).split]]
<1>1. Wanted(j).num \in Num /\ Wanted(j).split \in Split
  BY StatTyped
<1>2. payload.part \in [Split -> SUBSET Path]
  BY DEF Payload
<1> HIDE DEF left
<1>3. ds \in [split : Split, num : Num, paths : SUBSET Path]
  BY <1>1, <1>2
<1>4. ds.num = Wanted(j).num /\ ds.paths \subseteq payload.part[ds.split]
  OBVIOUS
<1>5. have' = [have EXCEPT ![j] = @ \cup {ds}] /\ todo' = [todo EXCEPT ![j] = Tail(@)]
      /\ meta' = [meta EXCEPT ![j] = None] /\ pc' = [pc EXCEPT ![j] = "free"]
  BY DEF Deliver, Goto, left
<1> QED BY <1>3, <1>4, <1>5

\* Delivering from a payload that is, or now comes to be, in memory.
LEMMA DeliverKeeps ==
  ASSUME TypeOK, JobInv, NEW j \in Job, pc[j] \in Busy,
         NEW payload \in Payload, Deliver(j, payload),
         memo' = [memo EXCEPT ![j][Wanted(j).num] = payload],
         memo[j][Wanted(j).num] \in {Absent, payload},
         UNCHANGED <<csv, exclusion, quiet, setup, rows, undisturbed>>,
         quiet => payload.part = PartOf(payload.meta),
         undisturbed[j] => payload.meta = Now(j)
  PROVE  JobInv' /\ todo' \in [Job -> Seq(Request)]
         /\ memo' \in [Job -> [Num -> Payload \cup {Absent}]]
         /\ meta' \in [Job -> MetaData \cup {None}]
         /\ have' \in [Job -> SUBSET [split : Split, num : Num, paths : SUBSET Path]]
         /\ pc' \in [Job -> {"idle", "free", "memory", "disk", "compute", "publish"}]
<1> DEFINE n == Wanted(j).num
<1>1. PICK ds \in [split : Split, num : Num, paths : SUBSET Path] :
        /\ ds.num = n
        /\ ds.paths \subseteq payload.part[ds.split]
        /\ have' = [have EXCEPT ![j] = @ \cup {ds}]
        /\ todo' = [todo EXCEPT ![j] = Tail(@)]
        /\ meta' = [meta EXCEPT ![j] = None]
        /\ pc' = [pc EXCEPT ![j] = "free"]
  BY DeliverTyped
<1>2. n \in Num /\ todo[j] \in Seq(Request) /\ todo[j] # <<>>
  BY StatTyped DEF TypeOK, JobInv, PhaseOf
<1>3. Tail(todo[j]) \in Seq(Request)
  BY <1>2
<1>4. /\ todo' \in [Job -> Seq(Request)]
      /\ memo' \in [Job -> [Num -> Payload \cup {Absent}]]
      /\ meta' \in [Job -> MetaData \cup {None}]
      /\ have' \in [Job -> SUBSET [split : Split, num : Num, paths : SUBSET Path]]
      /\ pc' \in [Job -> {"idle", "free", "memory", "disk", "compute", "publish"}]
  BY <1>1, <1>2, <1>3 DEF TypeOK
<1>5. \A i \in Job : i # j => Still(i)
  BY <1>1 DEF TypeOK, Still
<1>6. /\ memo'[j][n] = payload /\ Marked(payload)
      /\ \A m \in Num : m # n => memo'[j][m] = memo[j][m]
      /\ meta'[j] = None /\ pc'[j] = "free" /\ have'[j] = have[j] \cup {ds}
  BY <1>1, <1>2, Kinds DEF TypeOK
<1>7. PhaseOf(j)'
  BY <1>6 DEF JobInv, PhaseOf, Busy
<1>8. FreshOf(j)'
  <2> SUFFICES ASSUME undisturbed[j] PROVE FreshOf(j)'
    BY DEF FreshOf
  <2>1. payload.meta = Meta(setup[j], n, csv, exclusion)
    BY DEF Now
  <2>2. ASSUME NEW m \in Num, Marked(memo'[j][m])
        PROVE  memo'[j][m].meta = Meta(setup[j], m, csv, exclusion)
    BY <1>6, <2>1, <2>2 DEF JobInv, FreshOf
  <2>3. ASSUME NEW a \in have'[j]
        PROVE  Marked(memo'[j][a.num]) /\ a.paths \subseteq memo'[j][a.num].part[a.split]
    <3>1. CASE a = ds
      BY <1>1, <1>6, <3>1
    <3>2. CASE a \in have[j]
      <4>1. a.num \in Num /\ Marked(memo[j][a.num])
            /\ a.paths \subseteq memo[j][a.num].part[a.split]
        BY <3>2 DEF JobInv, FreshOf, TypeOK
      <4>2. CASE a.num = n
        <5>1. memo[j][n] = payload
          BY <4>1, <4>2, Kinds
        <5> QED BY <1>6, <4>1, <4>2, <5>1
      <4>3. CASE a.num # n
        BY <1>6, <4>1, <4>3
      <4> QED BY <4>2, <4>3
    <3> QED BY <1>6, <3>1, <3>2, <2>3
  <2> QED BY <1>6, <2>2, <2>3 DEF FreshOf
<1>9. CurrentOf(j)'
  <2> SUFFICES ASSUME quiet PROVE CurrentOf(j)'
    BY DEF CurrentOf
  <2>1. ASSUME NEW m \in Num, Marked(memo'[j][m])
        PROVE  memo'[j][m].part = PartOf(memo'[j][m].meta)
    BY <1>6, <2>1 DEF JobInv, CurrentOf
  <2>2. rows[j] \in {None, csv}
    BY DEF JobInv, CurrentOf
  <2> QED BY <1>6, <2>1, <2>2 DEF CurrentOf
<1> QED BY <1>4, <1>5, <1>7, <1>8, <1>9, OneMoves

-----------------------------------------------------------------------------
LEMMA LookInMemoryIInv ==
  ASSUME IInv, NEW j \in Job, LookInMemory(j) PROVE IInv'
<1> USE DEF IInv
<1> DEFINE n == Wanted(j).num
<1>1. pc[j] \in Busy /\ pc[j] = "memory"
  BY DEF LookInMemory, Busy
<1>2. n \in Num /\ StatOnce(j) \in MetaData /\ (quiet \/ undisturbed[j] => StatOnce(j) = Now(j))
  BY <1>1, StatTyped
<1>3. UNCHANGED <<files, quiet, setup, rows, undisturbed>>
  BY DEF LookInMemory
<1>4. CASE memo[j][n] # Absent /\ Compatible(memo[j][n], StatOnce(j))
  <2>1. Deliver(j, memo[j][n]) /\ memo' = memo
    BY <1>4 DEF LookInMemory
  <2>2. memo[j][n] \in Payload
    BY <1>2, <1>4 DEF TypeOK
  <2>3. memo' = [memo EXCEPT ![j][Wanted(j).num] = memo[j][n]]
    BY <2>1, <1>2 DEF TypeOK
  <2>4. quiet => memo[j][n].part = PartOf(memo[j][n].meta)
    BY <1>2, <2>2, Kinds DEF JobInv, CurrentOf
  <2>5. undisturbed[j] => memo[j][n].meta = Now(j)
    BY <1>2, <1>4 DEF Compatible
  <2>6. JobInv' /\ TypeOK'
    BY <1>1, <1>3, <2>1, <2>2, <2>3, <2>4, <2>5, DeliverKeeps DEF TypeOK, files
  <2>7. SoundInv' /\ PayloadCurrent'
    BY <1>3, <2>1 DEF SoundInv, PayloadCurrent, files
  <2> QED BY <2>6, <2>7
<1>5. CASE ~(memo[j][n] # Absent /\ Compatible(memo[j][n], StatOnce(j)))
  <2>1. /\ memo' = [memo EXCEPT ![j][n] = Absent]
        /\ meta' = [meta EXCEPT ![j] = IF memo[j][n] # Absent THEN StatOnce(j) ELSE @]
        /\ pc' = [pc EXCEPT ![j] = "disk"]
        /\ UNCHANGED <<todo, have>>
    BY <1>5 DEF LookInMemory, Goto
  <2>2. TypeOK'
    BY <1>2, <1>3, <2>1 DEF TypeOK, files
  <2>3. \A i \in Job : i # j => Still(i)
    BY <1>3, <2>1 DEF TypeOK, Still, files
  <2>4. /\ memo'[j][n] = Absent /\ ~Marked(Absent)
        /\ \A m \in Num : m # n => memo'[j][m] = memo[j][m]
        /\ meta'[j] \in {meta[j], StatOnce(j)} /\ pc'[j] = "disk"
        /\ have'[j] = have[j] /\ Wanted(j)' = Wanted(j) /\ Now(j)' = Now(j)
    BY <1>2, <1>3, <2>1, Kinds DEF TypeOK, Wanted, Now, files
  <2>5. PhaseOf(j)'
    BY <1>1, <1>3, <2>1, <2>4 DEF JobInv, PhaseOf, Busy, files
  <2>6. FreshOf(j)'
    <3> SUFFICES ASSUME undisturbed[j] PROVE FreshOf(j)'
      BY <1>3 DEF FreshOf
    <3>1. meta'[j] \in {None, Now(j)'}
      BY <1>2, <2>4 DEF JobInv, FreshOf
    <3>2. ~Marked(memo[j][n])
      <4>1. CASE memo[j][n] = Absent
        BY <4>1, Kinds
      <4>2. CASE Marked(memo[j][n])
        BY <1>2, <1>5, <4>2, Kinds DEF JobInv, FreshOf, Now, Compatible
      <4> QED BY <4>1, <4>2
    <3>3. \A a \in have[j] : a.num \in Num /\ a.num # n
      BY <3>2 DEF JobInv, FreshOf, TypeOK
    <3>4. \A a \in have'[j] : Marked(memo'[j][a.num])
                              /\ a.paths \subseteq memo'[j][a.num].part[a.split]
      BY <2>4, <3>3 DEF JobInv, FreshOf
    <3>5. \A m \in Num : Marked(memo'[j][m]) => memo'[j][m].meta = Meta(setup[j], m, csv, exclusion)
      BY <2>4 DEF JobInv, FreshOf
    <3> QED BY <1>3, <3>1, <3>4, <3>5 DEF FreshOf, files
  <2>7. CurrentOf(j)'
    <3> SUFFICES ASSUME quiet PROVE CurrentOf(j)'
      BY <1>3 DEF CurrentOf
    <3>1. meta'[j] \in {None, Now(j)'}
      BY <1>2, <2>4 DEF JobInv, CurrentOf
    <3> QED BY <1>3, <2>4, <3>1 DEF JobInv, CurrentOf, files
  <2>8. JobInv'
    BY <2>3, <2>5, <2>6, <2>7, OneMoves
  <2>9. SoundInv' /\ PayloadCurrent'
    <3>1. ASSUME NEW i \in Job, NEW m \in Num, Marked(memo'[i][m])
          PROVE  Apart(memo'[i][m].part)
      BY <2>3, <2>4, <3>1 DEF SoundInv, Still
    <3> QED BY <1>3, <3>1 DEF SoundInv, PayloadCurrent, files
  <2> QED BY <2>2, <2>8, <2>9
<1> QED BY <1>4, <1>5

LEMMA LookOnDiskIInv ==
  ASSUME IInv, NEW j \in Job, LookOnDisk(j) PROVE IInv'
<1> USE DEF IInv
<1> DEFINE n == Wanted(j).num
<1>1. pc[j] \in Busy /\ pc[j] = "disk"
  BY DEF LookOnDisk, Busy
<1>2. n \in Num /\ StatOnce(j) \in MetaData /\ (quiet \/ undisturbed[j] => StatOnce(j) = Now(j))
  BY <1>1, StatTyped
<1>3. UNCHANGED <<files, quiet, setup, rows, undisturbed>> /\ memo[j][n] = Absent
  BY <1>1 DEF LookOnDisk, JobInv, PhaseOf
<1>4. CASE disk[n] # Absent /\ Compatible(disk[n], StatOnce(j))
  <2>1. Deliver(j, disk[n]) /\ memo' = [memo EXCEPT ![j][Wanted(j).num] = disk[n]]
    BY <1>4 DEF LookOnDisk
  <2>2. disk[n] \in Payload /\ Marked(disk[n])
    <3>1. disk[n] \in Payload \/ disk[n] \in Prepared
      BY <1>2, <1>4 DEF TypeOK
    <3>2. disk[n].meta \in MetaData
      BY <1>2, <1>4 DEF Compatible
    <3> QED BY <3>1, <3>2, Kinds DEF Marked
  <2>3. quiet => disk[n].part = PartOf(disk[n].meta)
    BY <1>2, <2>2 DEF PayloadCurrent, Marked
  <2>4. undisturbed[j] => disk[n].meta = Now(j)
    BY <1>2, <1>4 DEF Compatible
  <2>5. UNCHANGED <<csv, exclusion, quiet, setup, rows, undisturbed>>
    BY <1>3 DEF files
  <2>6. JobInv' /\ TypeOK'
    BY <1>1, <1>3, <2>1, <2>2, <2>3, <2>4, <2>5, DeliverKeeps DEF TypeOK, files
  <2>7. SoundInv'
    <3>1. ASSUME NEW i \in Job, NEW m \in Num
          PROVE  memo'[i][m] = memo[i][m] \/ (m = n /\ memo'[i][m] = disk[n])
      BY <2>1, <1>2 DEF TypeOK
    <3> QED BY <1>2, <1>3, <2>2, <3>1 DEF SoundInv, files
  <2>8. PayloadCurrent'
    BY <1>3 DEF PayloadCurrent, files
  <2> QED BY <2>6, <2>7, <2>8
<1>5. CASE ~(disk[n] # Absent /\ Compatible(disk[n], StatOnce(j)))
  <2>1. /\ meta' = [meta EXCEPT ![j] = IF disk[n] # Absent THEN StatOnce(j) ELSE @]
        /\ pc' = [pc EXCEPT ![j] = "compute"]
        /\ UNCHANGED <<memo, todo, have>>
    BY <1>5 DEF LookOnDisk, Goto
  <2>2. TypeOK'
    BY <1>2, <1>3, <2>1 DEF TypeOK, files
  <2>3. \A i \in Job : i # j => Still(i)
    BY <1>3, <2>1 DEF TypeOK, Still, files
  <2>4. /\ meta'[j] \in {meta[j], StatOnce(j)} /\ pc'[j] = "compute"
        /\ Wanted(j)' = Wanted(j) /\ Now(j)' = Now(j)
    BY <1>2, <1>3, <2>1 DEF TypeOK, Wanted, Now, files
  <2>5. PhaseOf(j)'
    BY <1>1, <1>3, <2>1, <2>4 DEF JobInv, PhaseOf, Busy, files
  <2>6. FreshOf(j)'
    BY <1>2, <1>3, <2>1, <2>4 DEF JobInv, FreshOf, files
  <2>7. CurrentOf(j)'
    BY <1>2, <1>3, <2>1, <2>4 DEF JobInv, CurrentOf, files
  <2>8. JobInv'
    BY <2>3, <2>5, <2>6, <2>7, OneMoves
  <2>9. SoundInv' /\ PayloadCurrent'
    BY <1>3, <2>1 DEF SoundInv, PayloadCurrent, files
  <2> QED BY <2>2, <2>8, <2>9
<1> QED BY <1>4, <1>5

\* The candidates a computation starts from are those its meta data name.
LEMMA ComputedIsCurrent ==
  ASSUME NEW j \in Job, NEW n, rows[j] = csv
  PROVE  PartOf(Meta(setup[j], n, csv, exclusion))
           = SplitRows(Candidates(Csv[rows[j]], IF setup[j].exclude THEN exclusion ELSE None),
                       setup[j].seed, setup[j].ratios, n)
BY DEF PartOf, Meta

LEMMA ComputeIInv ==
  ASSUME IInv, NEW j \in Job, Compute(j) PROVE IInv'
<1> USE DEF IInv
<1> DEFINE n == Wanted(j).num
           from == Candidates(Csv[rows[j]], IF setup[j].exclude THEN exclusion ELSE None)
           part == SplitRows(from, setup[j].seed, setup[j].ratios, n)
           payload == [meta |-> StatOnce(j), part |-> part]
<1>1. pc[j] \in Busy /\ pc[j] = "compute"
  BY DEF Compute, Busy
<1>2. n \in Num /\ StatOnce(j) \in MetaData /\ (quiet \/ undisturbed[j] => StatOnce(j) = Now(j))
  BY <1>1, StatTyped
<1>3. /\ memo' = [memo EXCEPT ![j][n] = payload]
      /\ pc' = [pc EXCEPT ![j] = "publish"]
      /\ UNCHANGED <<files, quiet, setup, todo, rows, meta, have, undisturbed>>
  BY DEF Compute, Goto
<1>4. part \in [Split -> SUBSET Path] /\ Apart(part)
  BY SplitTyped
<1>5. quiet => part = PartOf(StatOnce(j))
  <2> SUFFICES ASSUME quiet PROVE part = PartOf(StatOnce(j))
    OBVIOUS
  <2>1. rows[j] = csv
    BY <1>1, ConstantsAssumption DEF JobInv, CurrentOf, PhaseOf, Version
  <2>2. StatOnce(j) = Meta(setup[j], n, csv, exclusion)
    BY <1>2 DEF Now
  <2> QED BY <2>1, <2>2, ComputedIsCurrent
<1> HIDE DEF part, from
<1>6. payload \in Payload /\ Marked(payload) /\ payload.part = part
      /\ payload.meta = StatOnce(j)
  BY <1>2, <1>4, Kinds DEF Payload
<1> HIDE DEF payload
<1>7. TypeOK'
  BY <1>2, <1>3, <1>6 DEF TypeOK, files
<1>8. \A i \in Job : i # j => Still(i)
  BY <1>3 DEF TypeOK, Still, files
<1>9. /\ memo'[j][n] = payload /\ \A m \in Num : m # n => memo'[j][m] = memo[j][m]
      /\ pc'[j] = "publish" /\ Wanted(j)' = Wanted(j) /\ Now(j)' = Now(j)
  BY <1>2, <1>3 DEF TypeOK, Wanted, Now, files
<1>10. PhaseOf(j)'
  BY <1>1, <1>3, <1>6, <1>9 DEF JobInv, PhaseOf, Busy, files
<1>11. FreshOf(j)'
  <2> SUFFICES ASSUME undisturbed[j] PROVE FreshOf(j)'
    BY <1>3 DEF FreshOf
  <2>1. payload.meta = Meta(setup[j], n, csv, exclusion)
    BY <1>2, <1>6 DEF Now
  <2>2. \A m \in Num : Marked(memo'[j][m]) => memo'[j][m].meta = Meta(setup[j], m, csv, exclusion)
    BY <1>9, <2>1 DEF JobInv, FreshOf
  <2>3. ~Marked(memo[j][n])
    BY <1>1, Kinds DEF JobInv, PhaseOf
  <2>4. \A a \in have[j] : a.num \in Num /\ a.num # n
    BY <2>3 DEF JobInv, FreshOf, TypeOK
  <2>5. \A a \in have[j] : Marked(memo'[j][a.num])
                           /\ a.paths \subseteq memo'[j][a.num].part[a.split]
    BY <1>9, <2>4 DEF JobInv, FreshOf
  <2> QED BY <1>3, <1>9, <2>2, <2>5 DEF JobInv, FreshOf, files
<1>12. CurrentOf(j)'
  <2> SUFFICES ASSUME quiet PROVE CurrentOf(j)'
    BY <1>3 DEF CurrentOf
  <2>1. \A m \in Num : Marked(memo'[j][m]) => memo'[j][m].part = PartOf(memo'[j][m].meta)
    BY <1>5, <1>6, <1>9 DEF JobInv, CurrentOf
  <2> QED BY <1>3, <1>9, <2>1 DEF JobInv, CurrentOf, files
<1>13. JobInv'
  BY <1>8, <1>10, <1>11, <1>12, OneMoves
<1>14. SoundInv' /\ PayloadCurrent'
  <2>1. ASSUME NEW i \in Job, NEW m \in Num
        PROVE  memo'[i][m] = memo[i][m] \/ memo'[i][m] = payload
    BY <1>8, <1>9 DEF Still
  <2> QED BY <1>3, <1>4, <1>6, <2>1 DEF SoundInv, PayloadCurrent, files
<1> QED BY <1>7, <1>13, <1>14

LEMMA PublishIInv ==
  ASSUME IInv, NEW j \in Job, Publish(j) PROVE IInv'
<1> USE DEF IInv
<1> DEFINE n == Wanted(j).num
<1>1. pc[j] \in Busy /\ pc[j] = "publish"
  BY DEF Publish, Busy
<1>2. n \in Num
  BY <1>1, StatTyped
<1>3. /\ disk' = [disk EXCEPT ![n] = memo[j][n]] /\ Deliver(j, memo[j][n])
      /\ UNCHANGED <<csv, exclusion, prepared, quiet, setup, rows, memo, undisturbed>>
  BY DEF Publish
<1>4. memo[j][n] \in Payload /\ Marked(memo[j][n])
  BY <1>1, <1>2, Kinds DEF JobInv, PhaseOf, TypeOK
<1>5. memo' = [memo EXCEPT ![j][Wanted(j).num] = memo[j][n]]
  BY <1>2, <1>3 DEF TypeOK
<1>6. /\ quiet => memo[j][n].part = PartOf(memo[j][n].meta)
      /\ undisturbed[j] => memo[j][n].meta = Now(j)
  BY <1>2, <1>4 DEF JobInv, FreshOf, CurrentOf, Now
<1>7. JobInv' /\ TypeOK'
  <2>1. UNCHANGED <<csv, exclusion, quiet, setup, rows, undisturbed>>
    BY <1>3
  <2>2. disk' \in [Num -> Payload \cup Prepared \cup {Absent}]
    BY <1>2, <1>3, <1>4 DEF TypeOK
  <2> QED BY <1>1, <1>3, <1>4, <1>5, <1>6, <2>1, <2>2, DeliverKeeps DEF TypeOK
<1>8. \A m \in Num : disk'[m] = disk[m] \/ disk'[m] = memo[j][n]
  BY <1>3 DEF TypeOK
<1>9. SoundInv'
  BY <1>2, <1>3, <1>8 DEF SoundInv
<1>10. PayloadCurrent'
  BY <1>3, <1>6, <1>8 DEF PayloadCurrent
<1> QED BY <1>7, <1>9, <1>10

LEMMA StartIInv ==
  ASSUME IInv, NEW j \in Job, NEW c \in Setups, Start(j, c) PROVE IInv'
<1> USE DEF IInv
<1>1. /\ pc' = [pc EXCEPT ![j] = "free"] /\ setup' = [setup EXCEPT ![j] = c]
      /\ todo' = [todo EXCEPT ![j] = c.requests]
      /\ pc[j] = "idle" /\ (c.exclude => exclusion # None)
      /\ UNCHANGED <<files, quiet, rows, memo, meta, have, undisturbed>>
  BY DEF Start, Goto
<1>2. TypeOK'
  BY <1>1, ConstantsAssumption DEF TypeOK, files
<1>3. \A i \in Job : i # j => Still(i)
  BY <1>1 DEF TypeOK, Still, files
<1>4. /\ pc'[j] = "free" /\ setup'[j] = c
      /\ rows'[j] = None /\ meta'[j] = None /\ have'[j] = {} /\ memo'[j] = Empty
  BY <1>1 DEF TypeOK, JobInv, PhaseOf
<1>5. \A m \in Num : ~Marked(memo'[j][m])
  BY <1>4, Kinds DEF Empty
<1>6. PhaseOf(j)' /\ FreshOf(j)' /\ CurrentOf(j)'
  BY <1>1, <1>4, <1>5 DEF PhaseOf, FreshOf, CurrentOf, Busy, files
<1>7. SoundInv' /\ PayloadCurrent'
  BY <1>1 DEF SoundInv, PayloadCurrent, files
<1> QED BY <1>2, <1>3, <1>6, <1>7, OneMoves

LEMMA ReadIInv ==
  ASSUME IInv, NEW j \in Job, Read(j) PROVE IInv'
<1> USE DEF IInv
<1>1. /\ rows' = [rows EXCEPT ![j] = IF @ = None THEN csv ELSE @]
      /\ pc' = [pc EXCEPT ![j] = "memory"]
      /\ pc[j] = "free" /\ todo[j] # <<>>
      /\ UNCHANGED <<files, quiet, setup, todo, memo, meta, have, undisturbed>>
  BY DEF Read, Goto
<1>2. TypeOK'
  BY <1>1 DEF TypeOK, files
<1>3. \A i \in Job : i # j => Still(i)
  BY <1>1 DEF TypeOK, Still, files
<1>4. /\ pc'[j] = "memory" /\ meta'[j] = None /\ todo'[j] # <<>>
      /\ rows'[j] = (IF rows[j] = None THEN csv ELSE rows[j])
  BY <1>1 DEF TypeOK, JobInv, PhaseOf
<1>5. rows'[j] \in Version
  BY <1>4 DEF TypeOK
<1>6. PhaseOf(j)'
  BY <1>1, <1>4, <1>5 DEF JobInv, PhaseOf, Busy, files
<1>7. FreshOf(j)' /\ CurrentOf(j)'
  BY <1>1, <1>4 DEF JobInv, FreshOf, CurrentOf, files
<1>8. SoundInv' /\ PayloadCurrent'
  BY <1>1 DEF SoundInv, PayloadCurrent, files
<1> QED BY <1>2, <1>3, <1>6, <1>7, <1>8, OneMoves

LEMMA StopIInv ==
  ASSUME IInv, NEW j \in Job, Stop(j) PROVE IInv'
<1> USE DEF IInv
<1>1. Empty \in [Num -> Payload \cup {Absent}] /\ \A m \in Num : ~Marked(Empty[m])
  BY Kinds DEF Empty
<1>2. TypeOK'
  <2>1. <<>> \in Seq(Request)
    OBVIOUS
  <2> QED BY <1>1, <2>1 DEF Stop, Goto, TypeOK, files
<1>3. \A i \in Job : i # j => Still(i)
  BY DEF Stop, Goto, TypeOK, Still, files
<1>4. /\ pc'[j] = "idle" /\ rows'[j] = None /\ meta'[j] = None
      /\ memo'[j] = Empty /\ have'[j] = {}
  BY DEF Stop, Goto, TypeOK
<1>5. PhaseOf(j)' /\ FreshOf(j)' /\ CurrentOf(j)'
  BY <1>1, <1>4 DEF PhaseOf, FreshOf, CurrentOf, Busy
<1>6. SoundInv' /\ PayloadCurrent'
  <2>1. UNCHANGED <<disk, quiet>>
    BY DEF Stop, files
  <2>2. \A i \in Job, m \in Num : memo'[i][m] = memo[i][m] \/ ~Marked(memo'[i][m])
    BY <1>1, <1>3, <1>4 DEF Still
  <2> QED BY <2>1, <2>2 DEF SoundInv, PayloadCurrent
<1> QED BY <1>2, <1>3, <1>5, <1>6, OneMoves

-----------------------------------------------------------------------------
\* The prepared files carry no meta data, so nothing is claimed of them.
LEMMA WarmupIInv ==
  ASSUME IInv, Warmup PROVE IInv'
<1> USE DEF IInv
<1>1. \A keys : MakeSplit(keys) \in [Split -> SUBSET Path]
  BY DEF MakeSplit
<1>2. /\ disk' \in [Num -> Payload \cup Prepared \cup {Absent}]
      /\ \A n \in Num : disk'[n] = disk[n] \/ disk'[n] \in Prepared
  BY <1>1 DEF Warmup, Prepared, TypeOK
<1>3. UNCHANGED <<csv, exclusion, quiet, jobvars>> /\ prepared' \in BOOLEAN
  BY DEF Warmup
<1>4. TypeOK'
  BY <1>2, <1>3 DEF TypeOK, jobvars
<1>5. JobInv'
  BY <1>3, StillKeeps DEF JobInv, Still, jobvars
<1>6. SoundInv' /\ PayloadCurrent'
  BY <1>2, <1>3, Kinds DEF SoundInv, PayloadCurrent, Marked, jobvars
<1> QED BY <1>4, <1>5, <1>6

\* The exclusion file is not there yet, so no running process excludes.
LEMMA MergeIInv ==
  ASSUME IInv, MergeStages PROVE IInv'
<1> USE DEF IInv
<1>1. UNCHANGED <<csv, disk, prepared, quiet, jobvars>> /\ exclusion = None
  BY DEF MergeStages
<1>2. exclusion' \in SUBSET Path
  <2>1. \A n \in Num, s \in Split : disk[n].part[s] \subseteq Path
    BY DEF TypeOK, Payload, Prepared, Absent
  <2>2. Stages[1] \in Num /\ Stages[2] \in Num
    BY DEF Num
  <2> QED BY <2>1, <2>2 DEF MergeStages
<1>3. TypeOK'
  BY <1>1, <1>2 DEF TypeOK, jobvars
<1>4. ASSUME NEW j \in Job, pc[j] # "idle", NEW n
      PROVE  Meta(setup[j], n, csv, exclusion') = Meta(setup[j], n, csv, exclusion)
  BY <1>1, <1>4 DEF JobInv, PhaseOf, Meta
<1>5. ASSUME NEW j \in Job PROVE PhaseOf(j)' /\ FreshOf(j)' /\ CurrentOf(j)'
  <2>1. CASE pc[j] = "idle"
    <3>1. \A m \in Num : ~Marked(memo[j][m])
      BY <2>1, Kinds DEF JobInv, PhaseOf, Empty
    <3>2. rows[j] = None /\ meta[j] = None /\ memo[j] = Empty /\ have[j] = {}
      BY <2>1 DEF JobInv, PhaseOf
    <3> QED BY <1>1, <2>1, <3>1, <3>2 DEF PhaseOf, FreshOf, CurrentOf, Busy, jobvars
  <2>2. CASE pc[j] # "idle"
    <3>1. ~setup[j].exclude /\ setup[j] \in Setups
      BY <1>1, <2>2 DEF JobInv, PhaseOf
    <3>2. Now(j)' = Now(j) /\ Wanted(j)' = Wanted(j)
      BY <1>1, <1>4, <2>2 DEF Now, Wanted, jobvars
    <3>3. PhaseOf(j)'
      BY <1>1, <2>2, <3>1, <3>2 DEF JobInv, PhaseOf, jobvars
    <3>4. FreshOf(j)'
      BY <1>1, <1>4, <2>2, <3>2 DEF JobInv, FreshOf, jobvars
    <3>5. CurrentOf(j)'
      BY <1>1, <3>2 DEF JobInv, CurrentOf, jobvars
    <3> QED BY <3>3, <3>4, <3>5
  <2> QED BY <2>1, <2>2
<1>6. SoundInv' /\ PayloadCurrent'
  BY <1>1 DEF SoundInv, PayloadCurrent, jobvars
<1> QED BY <1>3, <1>5, <1>6 DEF JobInv

\* A replaced CSV ends what the two histories promise of running processes.
LEMMA ReplaceIInv ==
  ASSUME IInv, ReplaceCsv PROVE IInv'
<1> USE DEF IInv
<1>1. /\ csv' = csv + 1 /\ csv < Len(Csv)
      /\ quiet' = (quiet /\ Running = {})
      /\ undisturbed' = [j \in Job |-> undisturbed[j] /\ j \notin Running]
      /\ UNCHANGED <<exclusion, disk, prepared, pc, setup, todo, rows, memo, meta, have>>
  BY DEF ReplaceCsv
<1>2. csv' \in Version
  BY <1>1, ConstantsAssumption DEF Version, TypeOK
<1>3. TypeOK'
  <2>1. quiet' \in BOOLEAN /\ undisturbed' \in [Job -> BOOLEAN]
    BY <1>1, Zenon DEF TypeOK
  <2> QED BY <1>1, <1>2, <2>1 DEF TypeOK
<1>4. ASSUME NEW j \in Job PROVE PhaseOf(j)' /\ FreshOf(j)' /\ CurrentOf(j)'
  <2>1. CASE pc[j] = "idle"
    <3>1. rows[j] = None /\ meta[j] = None /\ memo[j] = Empty /\ have[j] = {}
      BY <2>1 DEF JobInv, PhaseOf
    <3>2. \A m \in Num : ~Marked(memo[j][m])
      BY <3>1, Kinds DEF Empty
    <3> QED BY <1>1, <2>1, <3>1, <3>2 DEF PhaseOf, FreshOf, CurrentOf, Busy
  <2>2. CASE pc[j] # "idle"
    <3>1. ~quiet' /\ ~undisturbed'[j]
      BY <1>1, <2>2 DEF Running
    <3>2. PhaseOf(j)'
      BY <1>1 DEF JobInv, PhaseOf, Wanted
    <3> QED BY <3>1, <3>2 DEF FreshOf, CurrentOf
  <2> QED BY <2>1, <2>2
<1>5. SoundInv' /\ PayloadCurrent'
  BY <1>1 DEF SoundInv, PayloadCurrent
<1> QED BY <1>3, <1>4, <1>5 DEF JobInv

LEMMA StepIInv == IInv /\ [Next]_vars => IInv'
<1> SUFFICES ASSUME IInv, [Next]_vars PROVE IInv'
  OBVIOUS
<1>1. ASSUME NEW j \in Job, NEW c \in Setups, Start(j, c) PROVE IInv'
  BY <1>1, StartIInv
<1>2. ASSUME NEW j \in Job, Read(j) PROVE IInv'
  BY <1>2, ReadIInv
<1>3. ASSUME NEW j \in Job, LookInMemory(j) PROVE IInv'
  BY <1>3, LookInMemoryIInv
<1>4. ASSUME NEW j \in Job, LookOnDisk(j) PROVE IInv'
  BY <1>4, LookOnDiskIInv
<1>5. ASSUME NEW j \in Job, Compute(j) PROVE IInv'
  BY <1>5, ComputeIInv
<1>6. ASSUME NEW j \in Job, Publish(j) PROVE IInv'
  BY <1>6, PublishIInv
<1>7. ASSUME NEW j \in Job, Stop(j) PROVE IInv'
  BY <1>7, StopIInv
<1>8. CASE Warmup
  BY <1>8, WarmupIInv
<1>9. CASE MergeStages
  BY <1>9, MergeIInv
<1>10. CASE ReplaceCsv
  BY <1>10, ReplaceIInv
<1>11. CASE UNCHANGED vars
  <2>1. JobInv'
    BY <1>11, StillKeeps DEF IInv, JobInv, Still, vars, jobvars, files
  <2> QED BY <1>11, <2>1 DEF IInv, TypeOK, SoundInv, PayloadCurrent, vars, jobvars, files
<1> QED BY <1>1, <1>2, <1>3, <1>4, <1>5, <1>6, <1>7, <1>8, <1>9, <1>10, <1>11 DEF Next

LEMMA Inductive == Spec => []IInv
BY InitIInv, StepIInv, PTL DEF Spec

-----------------------------------------------------------------------------
(***************************************************************************)
(* The files, every process's caches and datasets keep their types.        *)
(***************************************************************************)
THEOREM TypeCorrect == Spec => []TypeOK
<1>1. IInv => TypeOK
  BY DEF IInv
<1> QED BY <1>1, Inductive, PTL

(***************************************************************************)
(* A split file's meta data may be trusted, for any processes, settings,   *)
(* shuffle and draw, as long as the CSV is replaced between processes.     *)
(***************************************************************************)
THEOREM PayloadsAreCurrent == Spec => []PayloadCurrent
<1>1. IInv => PayloadCurrent
  BY DEF IInv
<1> QED BY <1>1, Inductive, PTL

(***************************************************************************)
(* No two splits that a process loads for one num_samples share a group,   *)
(* whatever other processes do to the split file and the CSV before it.    *)
(***************************************************************************)
THEOREM DesignsStayApart == Spec => []DesignsApart
<1>1. IInv => DesignsApart
  <2> SUFFICES ASSUME IInv, NEW j \in Job, undisturbed[j],
                      NEW a \in have[j], NEW b \in have[j],
                      a.num = b.num, a.split # b.split,
                      NEW p \in a.paths, NEW q \in b.paths
               PROVE  Design[p] # Design[q]
    BY DEF DesignsApart
  <2>1. a.num \in Num /\ a.split \in Split /\ b.split \in Split
    BY DEF IInv, TypeOK
  <2>2. /\ Marked(memo[j][a.num])
        /\ p \in memo[j][a.num].part[a.split] /\ q \in memo[j][a.num].part[b.split]
    BY DEF IInv, JobInv, FreshOf
  <2>3. Apart(memo[j][a.num].part)
    BY <2>1, <2>2 DEF IInv, SoundInv
  <2> QED BY <2>1, <2>2, <2>3 DEF Apart
<1> QED BY <1>1, Inductive, PTL
-----------------------------------------------------------------------------
\* A nonempty set of naturals has a least member.
LEMMA LeastNat ==
  ASSUME NEW T \in SUBSET Nat, T # {}
  PROVE  \E x \in T : \A y \in T : x <= y
<1> DEFINE R == OpToRel(<, Nat)
<1>1. IsWellFoundedOn(R, Nat)
  BY NatLessThanWellFounded
<1>2. \A x, y \in Nat : y < x => <<y, x>> \in R
  BY DEF OpToRel
<1> HIDE DEF R
<1>3. PICK x \in T : \A y \in T : ~(<<y, x>> \in R)
  BY <1>1, WFMin
<1>4. ASSUME NEW y \in T PROVE x <= y
  <2>1. x \in Nat /\ y \in Nat /\ ~(y < x)
    BY <1>2, <1>3, Zenon
  <2> QED BY <2>1
<1> QED BY <1>4

\* A nonempty set of numbers up to n has a greatest member.
LEMMA GreatestUpTo ==
  ASSUME NEW n \in Nat, NEW T \in SUBSET (1..n), T # {}
  PROVE  \E x \in T : \A y \in T : y <= x
<1> DEFINE D == {n - y : y \in T}
<1>1. D \in SUBSET Nat
  OBVIOUS
<1>2. D # {}
  OBVIOUS
<1>3. PICK d \in D : \A e \in D : d <= e
  <2> HIDE DEF D
  <2> QED BY <1>1, <1>2, LeastNat
<1>4. PICK x \in T : d = n - x
  BY <1>3
<1>5. ASSUME NEW y \in T PROVE y <= x
  <2>1. n - x <= n - y
    BY <1>3, <1>4
  <2> QED BY <2>1
<1> QED BY <1>5

\* A finite set of numbers has an i-th smallest one.
LEMMA NthIsThere ==
  ASSUME NEW n \in Nat, NEW S \in SUBSET (1..n), NEW i \in 1..Cardinality(S)
  PROVE  Nth(S, i) \in S
<1> DEFINE Upto(x) == {y \in S : y <= x}
           Rank(x) == Cardinality(Upto(x))
           T == {x \in S : i <= Rank(x)}
<1>1. IsFiniteSet(S)
  <2>1. IsFiniteSet(1..n)
    BY FS_Interval
  <2> QED BY <2>1, FS_Subset
<1>2. Cardinality(S) \in Nat /\ i \in Nat /\ 1 <= i /\ i <= Cardinality(S)
  BY <1>1, FS_CardinalityType
<1>3. ASSUME NEW x PROVE Rank(x) \in Nat
  BY <1>1, FS_Subset, FS_CardinalityType
<1>4. \E m \in S : i <= Rank(m)
  <2>1. S # {}
    BY <1>2, FS_EmptySet
  <2>2. PICK m \in S : \A y \in S : y <= m
    BY <2>1, GreatestUpTo
  <2>3. Upto(m) = S
    BY <2>2
  <2>4. i <= Rank(m)
    BY <1>2, <2>3, Zenon
  <2> QED BY <2>4
<1>5. \E x \in T : \A y \in T : x <= y
  <2> HIDE DEF Rank
  <2>1. T \in SUBSET Nat
    <3>1. S \subseteq Nat
      OBVIOUS
    <3>2. T \subseteq S
      BY Zenon
    <3> HIDE DEF T
    <3> QED BY <3>1, <3>2
  <2>2. T # {}
    BY <1>4
  <2> HIDE DEF T
  <2> QED BY <2>1, <2>2, LeastNat
<1>6. PICK x \in S : i <= Rank(x) /\ \A y \in S : i <= Rank(y) => x <= y
  <2> HIDE DEF Rank
  <2> QED BY <1>5
\* Below x lie fewer than i members.
<1>7. Rank(x) = i
  <2> DEFINE B == {y \in S : y < x}
  <2>1. IsFiniteSet(B) /\ Cardinality(B) \in Nat
    BY <1>1, FS_Subset, FS_CardinalityType
  <2>2. Upto(x) = B \cup {x}
    <3>1. \A y \in S : y <= x <=> y < x \/ y = x
      OBVIOUS
    <3> QED BY <3>1
  <2>3. x \notin B
    OBVIOUS
  <2>4. Rank(x) = Cardinality(B) + 1
    <3>1. Cardinality(B \cup {x}) = Cardinality(B) + 1
      BY <2>1, <2>3, FS_AddElement, Zenon
    <3> QED BY <2>2, <3>1, Zenon
  <2>5. Cardinality(B) < i
    <3>1. CASE B = {}
      BY <1>2, <3>1, FS_EmptySet
    <3>2. CASE B # {}
      <4>1. B \in SUBSET (1..n)
        OBVIOUS
      <4>2. PICK z \in B : \A y \in B : y <= z
        <5> HIDE DEF B
        <5> QED BY <3>2, <4>1, GreatestUpTo
      <4>3. z \in S /\ z < x
        OBVIOUS
      <4>4. B = Upto(z)
        <5>1. \A y \in S : y < x <=> y <= z
          BY <4>2, <4>3
        <5> QED BY <5>1
      <4>5. ~(i <= Rank(z))
        <5> HIDE DEF Rank
        <5> QED BY <1>6, <4>3
      <4>6. Cardinality(B) = Rank(z)
        BY <4>4, Zenon
      <4> HIDE DEF B, Rank
      <4> QED BY <1>2, <2>1, <4>5, <4>6
    <3> QED BY <3>1, <3>2
  <2> HIDE DEF B, Rank
  <2> QED BY <1>2, <1>6, <2>1, <2>4, <2>5
<1>8. \E y \in S : Cardinality({z \in S : z <= y}) = i
  BY <1>7, Zenon
<1> QED BY <1>8 DEF Nth

\* The rows at some positions are rows, and as many as the positions.
LEMMA RowsAtTyped ==
  ASSUME NEW X, NEW r \in Seq(X), NEW at \in SUBSET (DOMAIN r)
  PROVE  /\ RowsAt(r, at) \in Seq(X)
         /\ Len(RowsAt(r, at)) = Cardinality(at)
         /\ Cardinality(at) \in 0..Len(r)
         /\ \A i \in DOMAIN RowsAt(r, at) : RowsAt(r, at)[i] \in ToSet(r)
<1>1. Len(r) \in Nat /\ DOMAIN r = 1..Len(r)
  OBVIOUS
<1>2. Cardinality(at) \in 0..Len(r)
  <2>1. IsFiniteSet(1..Len(r)) /\ Cardinality(1..Len(r)) = IF 1 > Len(r) THEN 0 ELSE Len(r) - 1 + 1
    BY <1>1, FS_Interval
  <2>2. Cardinality(at) \in Nat /\ Cardinality(at) <= Len(r)
    BY <1>1, <2>1, FS_Subset, FS_CardinalityType
  <2> QED BY <2>2
<1>3. ASSUME NEW i \in 1..Cardinality(at)
      PROVE  Nth(at, i) \in DOMAIN r
  BY <1>1, NthIsThere
<1>4. \A i \in 1..Cardinality(at) : r[Nth(at, i)] \in X /\ r[Nth(at, i)] \in ToSet(r)
  BY <1>3 DEF ToSet
<1> QED BY <1>2, <1>4 DEF RowsAt

LEMMA CandidatesTyped ==
  ASSUME NEW v \in Version, NEW x
  PROVE  Candidates(Csv[v], x) \in Seq(Path) /\ Len(Candidates(Csv[v], x)) \in 0..Len(Csv[v])
<1> DEFINE at == {i \in DOMAIN Csv[v] : Csv[v][i] \notin x}
<1>1. Csv[v] \in Seq(Path)
  BY ConstantsAssumption DEF Version
<1>2. at \in SUBSET (DOMAIN Csv[v])
  OBVIOUS
<1>3. Candidates(Csv[v], x) = Csv[v] \/ Candidates(Csv[v], x) = RowsAt(Csv[v], at)
  BY DEF Candidates
<1> HIDE DEF at
<1> QED BY <1>1, <1>2, <1>3, RowsAtTyped

\* What is drawn from the rows is among them.
LEMMA SampledFrom ==
  ASSUME NEW c \in Setups, NEW v \in Version, NEW r \in Seq(Path),
         Len(r) \in 0..Len(Csv[v]), NEW num \in Num
  PROVE  /\ Sampled(r, c.seed, num) \in Seq(Path)
         /\ ToSet(Sampled(r, c.seed, num)) \subseteq ToSet(r)
<1>1. CASE num = None \/ num >= Len(r)
  BY <1>1 DEF Sampled
<1>2. CASE ~(num = None \/ num >= Len(r))
  <2> DEFINE at == Draw[c.seed, Len(r), num]
  <2>1. num \in 0..Len(r)
    BY <1>2, ConstantsAssumption DEF Num
  <2>2. at \in SUBSET (DOMAIN r)
    <3>1. at \subseteq 1..Len(r)
      BY <2>1, DrawAssumption
    <3>2. DOMAIN r = 1..Len(r)
      OBVIOUS
    <3> HIDE DEF at
    <3> QED BY <3>1, <3>2
  <2>3. Sampled(r, c.seed, num) = RowsAt(r, at)
    BY <1>2 DEF Sampled
  <2> HIDE DEF at
  <2>4. /\ RowsAt(r, at) \in Seq(Path)
        /\ \A i \in DOMAIN RowsAt(r, at) : RowsAt(r, at)[i] \in ToSet(r)
    BY <2>2, RowsAtTyped
  <2>5. ToSet(RowsAt(r, at)) \subseteq ToSet(r)
    BY <2>4 DEF ToSet
  <2> QED BY <2>3, <2>4, <2>5
<1> QED BY <1>1, <1>2

-----------------------------------------------------------------------------
\* What a dataset of j for num_samples = n would be cut from, as the files
\* are now.
Own(j, n)  == Meta(setup[j], n, csv, exclusion)
Left(j, n) == ToSet(Candidates(Csv[csv], Own(j, n).excluded))

\* Every dataset is the whole of its split: all candidates that the split of
\* the present files names.
WholeOf(j) ==
  quiet /\ undisturbed[j] =>
    \A a \in have[j] : a.paths = Left(j, a.num) \cap PartOf(Own(j, a.num))[a.split]

WholeInv == \A j \in Job : WholeOf(j)

\* The process has what it had, and is compared with what it was compared.
LEMMA WholeStays ==
  ASSUME NEW j \in Job, WholeOf(j), have'[j] = have[j],
         quiet' /\ undisturbed'[j] => quiet /\ undisturbed[j] /\ csv' = csv,
         \A n : Own(j, n)' = Own(j, n)
  PROVE  WholeOf(j)'
BY DEF WholeOf, Left

LEMMA WholeDelivered ==
  ASSUME TypeOK, JobInv, NEW j \in Job, WholeOf(j), pc[j] \in Busy,
         NEW payload \in Payload, Deliver(j, payload),
         UNCHANGED <<csv, exclusion, quiet, setup, undisturbed>>,
         quiet => payload.part = PartOf(payload.meta),
         undisturbed[j] => payload.meta = Now(j)
  PROVE  WholeOf(j)'
<1> SUFFICES ASSUME quiet, undisturbed[j]
             PROVE  \A a \in have'[j] : a.paths = Left(j, a.num) \cap PartOf(Own(j, a.num))[a.split]
  BY DEF WholeOf, Left, Own
<1> DEFINE n == Wanted(j).num
           left == ToSet(Candidates(Csv[rows[j]], IF setup[j].exclude THEN exclusion ELSE None))
           ds == [split |-> Wanted(j).split, num |-> n,
                  paths |-> left \cap payload.part[Wanted(j).split]]
<1>1. have'[j] = have[j] \cup {ds}
  BY DEF Deliver, TypeOK
<1>2. left = Left(j, n)
  <2>1. rows[j] = csv
    BY ConstantsAssumption DEF JobInv, PhaseOf, CurrentOf, Version
  <2>2. Own(j, n).excluded = IF setup[j].exclude THEN exclusion ELSE None
    BY DEF Own, Meta
  <2> QED BY <2>1, <2>2, Zenon DEF Left
<1>3. payload.part = PartOf(Own(j, n))
  BY DEF Now, Own
<1>4. ds.num = n /\ ds.split = Wanted(j).split /\ ds.paths = left \cap payload.part[Wanted(j).split]
  OBVIOUS
<1> HIDE DEF ds, left, n
<1>5. ASSUME NEW a \in have'[j]
      PROVE  a.paths = Left(j, a.num) \cap PartOf(Own(j, a.num))[a.split]
  <2>1. CASE a = ds
    BY <1>2, <1>3, <1>4, <2>1, Zenon
  <2>2. CASE a \in have[j]
    BY <2>2 DEF WholeOf
  <2> QED BY <1>1, <2>1, <2>2
<1> QED BY <1>5

\* Whoever delivers, the payload is that of the present files.
LEMMA LookInMemoryWhole ==
  ASSUME IInv, WholeInv, NEW j \in Job, LookInMemory(j) PROVE WholeOf(j)'
<1> USE DEF IInv
<1> DEFINE n == Wanted(j).num
<1>1. pc[j] \in Busy /\ UNCHANGED <<files, quiet, setup, rows, undisturbed>>
  BY DEF LookInMemory, Busy
<1>2. n \in Num /\ (quiet \/ undisturbed[j] => StatOnce(j) = Now(j))
  BY <1>1, StatTyped
<1>3. CASE memo[j][n] # Absent /\ Compatible(memo[j][n], StatOnce(j))
  <2>1. Deliver(j, memo[j][n])
    BY <1>3 DEF LookInMemory
  <2>2. memo[j][n] \in Payload
    BY <1>2, <1>3 DEF TypeOK
  <2>3. quiet => memo[j][n].part = PartOf(memo[j][n].meta)
    BY <1>2, <2>2, Kinds DEF JobInv, CurrentOf
  <2>4. undisturbed[j] => memo[j][n].meta = Now(j)
    BY <1>2, <1>3 DEF Compatible
  <2> QED BY <1>1, <2>1, <2>2, <2>3, <2>4, WholeDelivered DEF WholeInv, files
<1>4. CASE ~(memo[j][n] # Absent /\ Compatible(memo[j][n], StatOnce(j)))
  <2>1. have' = have
    BY <1>4 DEF LookInMemory
  <2> QED BY <1>1, <2>1, WholeStays DEF WholeInv, Own, files
<1> QED BY <1>3, <1>4

LEMMA LookOnDiskWhole ==
  ASSUME IInv, WholeInv, NEW j \in Job, LookOnDisk(j) PROVE WholeOf(j)'
<1> USE DEF IInv
<1> DEFINE n == Wanted(j).num
<1>1. pc[j] \in Busy /\ UNCHANGED <<files, quiet, setup, rows, undisturbed>>
  BY DEF LookOnDisk, Busy
<1>2. n \in Num /\ StatOnce(j) \in MetaData /\ (quiet \/ undisturbed[j] => StatOnce(j) = Now(j))
  BY <1>1, StatTyped
<1>3. CASE disk[n] # Absent /\ Compatible(disk[n], StatOnce(j))
  <2>1. Deliver(j, disk[n])
    BY <1>3 DEF LookOnDisk
  <2>2. disk[n] \in Payload /\ Marked(disk[n])
    <3>1. disk[n] \in Payload \/ disk[n] \in Prepared
      BY <1>2, <1>3 DEF TypeOK
    <3>2. disk[n].meta \in MetaData
      BY <1>2, <1>3 DEF Compatible
    <3> QED BY <3>1, <3>2, Kinds DEF Marked
  <2>3. quiet => disk[n].part = PartOf(disk[n].meta)
    BY <1>2, <2>2 DEF PayloadCurrent, Marked
  <2>4. undisturbed[j] => disk[n].meta = Now(j)
    BY <1>2, <1>3 DEF Compatible
  <2> QED BY <1>1, <2>1, <2>2, <2>3, <2>4, WholeDelivered DEF WholeInv, files
<1>4. CASE ~(disk[n] # Absent /\ Compatible(disk[n], StatOnce(j)))
  <2>1. have' = have
    BY <1>4 DEF LookOnDisk
  <2> QED BY <1>1, <2>1, WholeStays DEF WholeInv, Own, files
<1> QED BY <1>3, <1>4

LEMMA PublishWhole ==
  ASSUME IInv, WholeInv, NEW j \in Job, Publish(j) PROVE WholeOf(j)'
<1> USE DEF IInv
<1> DEFINE n == Wanted(j).num
<1>1. pc[j] \in Busy /\ pc[j] = "publish" /\ Deliver(j, memo[j][n])
      /\ UNCHANGED <<csv, exclusion, quiet, setup, undisturbed>>
  BY DEF Publish, Busy
<1>2. n \in Num
  BY <1>1, StatTyped
<1>3. memo[j][n] \in Payload /\ Marked(memo[j][n])
  BY <1>1, <1>2, Kinds DEF JobInv, PhaseOf, TypeOK
<1>4. /\ quiet => memo[j][n].part = PartOf(memo[j][n].meta)
      /\ undisturbed[j] => memo[j][n].meta = Now(j)
  BY <1>2, <1>3 DEF JobInv, FreshOf, CurrentOf, Now
<1> QED BY <1>1, <1>3, <1>4, WholeDelivered DEF WholeInv

LEMMA WholeStep == IInv /\ WholeInv /\ [Next]_vars => WholeInv'
<1> SUFFICES ASSUME IInv, WholeInv, [Next]_vars, NEW j \in Job PROVE WholeOf(j)'
  BY DEF WholeInv
<1> USE DEF IInv
<1>1. ASSUME NEW i \in Job, LookInMemory(i) \/ LookOnDisk(i) \/ Publish(i) PROVE WholeOf(j)'
  <2>1. CASE i = j
    BY <1>1, <2>1, LookInMemoryWhole, LookOnDiskWhole, PublishWhole
  <2>2. CASE i # j
    <3>1. have'[j] = have[j] /\ UNCHANGED <<csv, exclusion, quiet, setup, undisturbed>>
      BY <1>1, <2>2 DEF LookInMemory, LookOnDisk, Publish, Deliver, files, TypeOK
    <3> QED BY <3>1, WholeStays DEF WholeInv, Own
  <2> QED BY <2>1, <2>2
<1>2. ASSUME NEW i \in Job, NEW c \in Setups, Start(i, c) PROVE WholeOf(j)'
  <2>1. CASE i = j
    <3>1. have'[j] = {}
      BY <1>2, <2>1 DEF Start, JobInv, PhaseOf
    <3> QED BY <3>1 DEF WholeOf
  <2>2. CASE i # j
    <3>1. setup'[j] = setup[j] /\ UNCHANGED <<csv, exclusion, quiet, have, undisturbed>>
      BY <1>2, <2>2 DEF Start, files, TypeOK
    <3> QED BY <3>1, WholeStays DEF WholeInv, Own
  <2> QED BY <2>1, <2>2
<1>3. ASSUME NEW i \in Job, Stop(i) PROVE WholeOf(j)'
  <2>1. CASE i = j
    <3>1. have'[j] = {}
      BY <1>3, <2>1 DEF Stop, TypeOK
    <3> QED BY <3>1 DEF WholeOf
  <2>2. CASE i # j
    <3>1. /\ setup'[j] = setup[j] /\ have'[j] = have[j] /\ undisturbed'[j] = undisturbed[j]
          /\ UNCHANGED <<csv, exclusion, quiet>>
      BY <1>3, <2>2 DEF Stop, files, TypeOK
    <3> QED BY <3>1, WholeStays DEF WholeInv, Own
  <2> QED BY <2>1, <2>2
<1>4. CASE (\E i \in Job : Read(i) \/ Compute(i)) \/ Warmup \/ UNCHANGED vars
  <2>1. UNCHANGED <<csv, exclusion, quiet, setup, have, undisturbed>>
    BY <1>4 DEF Read, Compute, Warmup, files, jobvars, vars
  <2> QED BY <2>1, WholeStays DEF WholeInv, Own
<1>5. CASE MergeStages
  <2>1. UNCHANGED <<csv, quiet, jobvars>> /\ exclusion = None
    BY <1>5 DEF MergeStages
  <2>2. CASE pc[j] = "idle"
    <3>1. have'[j] = {}
      BY <2>1, <2>2 DEF jobvars, JobInv, PhaseOf
    <3> QED BY <3>1 DEF WholeOf
  <2>3. CASE pc[j] # "idle"
    <3>1. ASSUME NEW n PROVE Own(j, n)' = Own(j, n)
      <4>1. setup[j].exclude = FALSE
        BY <2>1, <2>3, ConstantsAssumption DEF JobInv, PhaseOf
      <4> QED BY <2>1, <4>1 DEF Own, Meta, jobvars
    <3> QED BY <2>1, <3>1, WholeStays DEF WholeInv, jobvars
  <2> QED BY <2>2, <2>3
<1>6. CASE ReplaceCsv
  <2>1. CASE pc[j] = "idle"
    <3>1. have'[j] = {}
      BY <1>6, <2>1 DEF ReplaceCsv, JobInv, PhaseOf
    <3> QED BY <3>1 DEF WholeOf
  <2>2. CASE pc[j] # "idle"
    <3>1. ~undisturbed'[j]
      BY <1>6, <2>2 DEF ReplaceCsv, Running
    <3> QED BY <3>1 DEF WholeOf
  <2> QED BY <2>1, <2>2
<1> QED BY <1>1, <1>2, <1>3, <1>4, <1>5, <1>6 DEF Next

LEMMA AlwaysWhole == Spec => [](IInv /\ WholeInv)
<1>1. Init => WholeInv
  BY DEF Init, WholeInv, WholeOf
<1> QED BY <1>1, WholeStep, Inductive, PTL DEF Spec

(***************************************************************************)
(* The three splits that a process loads for one num_samples hold every    *)
(* row it drew, for any shuffle, draw and ratios, as long as the CSV is    *)
(* replaced between processes only (_create_split_keys, _apply_split).     *)
(***************************************************************************)
THEOREM LosesNothing == Spec => []NothingLost
<1>1. IInv /\ WholeInv => NothingLost
  <2> SUFFICES ASSUME IInv, WholeInv, NEW j \in Job, quiet, undisturbed[j],
                      NEW n \in {d.num : d \in have[j]},
                      {d.split : d \in {e \in have[j] : e.num = n}} = Split,
                      NEW x \in ToSet(Sampled(Candidates(Csv[csv], Own(j, n).excluded),
                                              Own(j, n).seed, n))
               PROVE  \E d \in have[j] : d.num = n /\ x \in d.paths
    <3> DEFINE lost(i, k) == ToSet(Sampled(Candidates(Csv[csv], Own(i, k).excluded), Own(i, k).seed, k))
    <3>1. \A i, k : Own(i, k).csv = csv
      BY DEF Own, Meta
    <3> QED BY <3>1 DEF NothingLost, Own
  <2> DEFINE cand == Candidates(Csv[csv], Own(j, n).excluded)
             drawn == Sampled(cand, setup[j].seed, n)
             side == SideOf(Shuffled(Unique([i \in DOMAIN drawn |-> Design[drawn[i]]]), setup[j].seed),
                            setup[j].ratios, Design[x])
  <2>1. n \in Num /\ csv \in Version /\ setup[j] \in Setups
    BY DEF IInv, TypeOK, JobInv, PhaseOf
  <2>2. /\ Own(j, n).seed = setup[j].seed /\ Own(j, n).ratios = setup[j].ratios
        /\ Own(j, n).num = n /\ Own(j, n).csv = csv
    BY DEF Own, Meta
  <2>3. x \in ToSet(drawn)
    BY <2>2
  <2>4. drawn \in Seq(Path) /\ ToSet(drawn) \subseteq ToSet(cand)
    BY <2>1, CandidatesTyped, SampledFrom
  <2>5. x \in Path /\ Contains(drawn, x)
    <3> HIDE DEF drawn
    <3> QED BY <2>3, <2>4 DEF ToSet, Contains
  <2>6. side \in Split
    BY DEF SideOf, Split
  <2>7. PartOf(Own(j, n)) = SplitRows(cand, setup[j].seed, setup[j].ratios, n)
    BY <2>2, Zenon DEF PartOf
  <2>8. x \in PartOf(Own(j, n))[side]
    <3>1. x \in SplitRows(cand, setup[j].seed, setup[j].ratios, n)[side]
      BY <2>5, <2>6 DEF SplitRows
    <3> QED BY <2>7, <3>1, Zenon
  <2>9. PICK d \in have[j] : d.num = n /\ d.split = side
    <3> HIDE DEF side
    <3> QED BY <2>6
  <2>10. x \in Left(j, n)
    BY <2>3, <2>4 DEF Left
  <2>11. d.paths = Left(j, n) \cap PartOf(Own(j, n))[side]
    <3> HIDE DEF side
    <3> QED BY <2>9 DEF WholeInv, WholeOf
  <2> HIDE DEF side
  <2> QED BY <2>8, <2>9, <2>10, <2>11
<1> QED BY <1>1, AlwaysWhole, PTL

=============================================================================
