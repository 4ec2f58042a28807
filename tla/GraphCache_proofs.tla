-------------------------- MODULE GraphCache_proofs --------------------------
(* What every job is served by the shared graph cache, for any number of    *)
(* graphs, jobs and encodings and any interleaving, crash and purge.        *)
EXTENDS GraphCache, FiniteSetTheorems, TLAPS

\* An index (on disk or in a job's memory) describes real cache names: an
\* entry's name is of its own graph and of its tag's encoding, and its
\* count is the named file's unless it came from a bare-int entry.
IndexOK(m) ==
  \A g \in Graph :
    /\ m[g].kind = "tagged" => m[g].key.graph = g /\ m[g].key.pe = m[g].tag.pe
    /\ ~LegacyIndex => /\ m[g].kind # "legacy"
                       /\ m[g].kind = "tagged" => m[g].nodes = m[g].key.ver

IndexesInv == IndexOK(index) /\ \A j \in Job : IndexOK(memory[j])

\* What has been served is served for this job, and its file is in place.
ServedInv ==
  \A j \in Job, g \in Graph :
    Given(j, g) =>
      /\ result[j][g].key.graph = g
      /\ result[j][g].key.pe = config[j].pe
      /\ file[result[j][g].key] # "absent"
      /\ ~LegacyIndex => result[j][g].nodes = result[j][g].key.ver

\* An idle job holds nothing; threads work on the current chunk of a build.
PhaseInv ==
  \A j \in Job :
    /\ phase[j] # "idle" => config[j] \in Config
    /\ phase[j] = "idle" => result[j] = Nothing
    /\ phase[j] # "build" => chunk[j] = {}
    /\ looking[j] \subseteq chunk[j]
    /\ creating[j] \subseteq chunk[j]
    /\ looking[j] \cap creating[j] = {}

\* Results consumed since the last save, plus the chunk still in flight.
LossInv ==
  \A j \in Job : unsaved[j] + Cardinality(chunk[j]) < SaveEvery + ChunkSize

IInv == TypeOK /\ IndexesInv /\ ServedInv /\ PhaseInv

-----------------------------------------------------------------------------
\* A job that is building has its settings, and a key is named from them.
LEMMA KeyTyped ==
  ASSUME TypeOK, PhaseInv, NEW j \in Job, phase[j] # "idle", NEW g \in Graph
  PROVE  /\ KeyOf(j, g) \in Key
         /\ KeyOf(j, g).graph = g
         /\ KeyOf(j, g).pe = config[j].pe
         /\ KeyOf(j, g).ver = raw[g]
         /\ config[j] \in Config
BY DEF TypeOK, PhaseInv, KeyOf, Key, Config

LEMMA NothingTyped ==
  /\ Nothing \in [Graph -> IndexEntry]
  /\ Nothing \in [Graph -> Result]
  /\ \A g \in Graph : Nothing[g] = Missing /\ Missing.kind = "missing"
BY DEF Nothing, IndexEntry, Result, Missing

\* Kinds tell the sorts of index values and results apart.
LEMMA Kinds ==
  /\ \A e \in IndexEntry : e.kind = "tagged" => e \in Tagged
  /\ \A e \in IndexEntry : e.kind = "legacy" => e \in Legacy
  /\ \A r \in Result : r.kind = "served" => r \in Served
BY DEF IndexEntry, Result, Tagged, Legacy, Served, Missing

LEMMA InitIInv == Init => IInv
<1> SUFFICES ASSUME Init PROVE IInv
  OBVIOUS
<1> USE ConstantsAssumption DEF Init
<1>1. TypeOK
  <2>1. index \in [Graph -> IndexEntry]
    BY DEF IndexEntry, Legacy, Missing, Version
  <2>2. 1 \in Version /\ 0 \in 0..MaxFault
    BY DEF Version
  <2> QED BY <2>1, <2>2, NothingTyped DEF TypeOK
<1>2. IndexesInv
  <2>1. IndexOK(index)
    BY DEF IndexOK, Missing
  <2>2. \A j \in Job : IndexOK(memory[j])
    BY NothingTyped DEF IndexOK
  <2> QED BY <2>1, <2>2 DEF IndexesInv
<1>3. ServedInv
  BY NothingTyped DEF ServedInv, Given
<1>4. PhaseInv
  BY DEF PhaseInv
<1> QED BY <1>1, <1>2, <1>3, <1>4 DEF IInv

\* The bookkeeping of one consumed result keeps every part of IInv that
\* does not speak of `looking' and `creating'.
LEMMA ConsumeStep ==
  ASSUME IInv, NEW j \in Job, NEW g \in chunk[j], NEW k \in Key, NEW n \in Version,
         k.graph = g, k.pe = config[j].pe, ~LegacyIndex => n = k.ver,
         Consume(j, g, k, n),
         UNCHANGED <<raw, index, phase, config, todo, faults>>,
         file' \in [Key -> {"absent", "plain", "weighted"}],
         file'[k] # "absent",
         \A q \in Key : file[q] # "absent" => file'[q] # "absent"
  PROVE  /\ result' \in [Job -> [Graph -> Result]]
         /\ memory' \in [Job -> [Graph -> IndexEntry]]
         /\ chunk' \in [Job -> SUBSET Graph]
         /\ unsaved' \in [Job -> Nat]
         /\ dirty' \in [Job -> BOOLEAN]
         /\ IndexesInv' /\ ServedInv'
         /\ \A i \in Job : phase[i] # "build" => chunk'[i] = {}
         /\ \A i \in Job : phase[i] = "idle" => result'[i] = Nothing
<1> USE DEF IInv
<1>1. g \in Graph /\ phase[j] = "build" /\ config[j] \in Config
  BY DEF PhaseInv, TypeOK
<1> DEFINE e == [kind |-> "tagged", key |-> k, nodes |-> n, tag |-> config[j]]
           r == [kind |-> "served", key |-> k, nodes |-> n]
<1>2. e \in IndexEntry /\ r \in Result
  BY <1>1 DEF IndexEntry, Tagged, Result, Served
<1>3. /\ result' = [result EXCEPT ![j][g] = r]
      /\ memory' = [memory EXCEPT ![j][g] = e]
      /\ chunk' = [chunk EXCEPT ![j] = @ \ {g}]
      /\ unsaved' = [unsaved EXCEPT ![j] = @ + 1]
      /\ dirty' = [dirty EXCEPT ![j] = @ \/ memory[j][g] # e]
  BY DEF Consume
<1> HIDE DEF e, r
<1>4. /\ result' \in [Job -> [Graph -> Result]]
      /\ memory' \in [Job -> [Graph -> IndexEntry]]
      /\ chunk' \in [Job -> SUBSET Graph]
      /\ unsaved' \in [Job -> Nat]
  BY <1>1, <1>2, <1>3 DEF TypeOK
<1>5. dirty' \in [Job -> BOOLEAN]
  <2>1. dirty' = [dirty EXCEPT ![j] = dirty[j] \/ memory[j][g] # e]
    BY <1>3
  <2>2. (dirty[j] \/ memory[j][g] # e) \in BOOLEAN
    OBVIOUS
  <2> HIDE DEF e
  <2> QED BY <2>1, <2>2, Zenon DEF TypeOK
<1>6. /\ \A i \in Job, h \in Graph : ~(i = j /\ h = g) =>
           memory'[i][h] = memory[i][h] /\ result'[i][h] = result[i][h]
      /\ memory'[j][g] = e /\ result'[j][g] = r
  BY <1>1, <1>3 DEF TypeOK
<1>7. IndexesInv'
  <2>1. IndexOK(index)'
    BY DEF IndexesInv, IndexOK
  <2>2. ASSUME NEW i \in Job, NEW h \in Graph
        PROVE  /\ memory'[i][h].kind = "tagged" =>
                    memory'[i][h].key.graph = h /\ memory'[i][h].key.pe = memory'[i][h].tag.pe
               /\ ~LegacyIndex => /\ memory'[i][h].kind # "legacy"
                                  /\ memory'[i][h].kind = "tagged" =>
                                       memory'[i][h].nodes = memory'[i][h].key.ver
    <3>1. CASE i = j /\ h = g
      BY <3>1, <1>6 DEF e
    <3>2. CASE ~(i = j /\ h = g)
      BY <3>2, <1>6 DEF IndexesInv, IndexOK
    <3> QED BY <3>1, <3>2
  <2> QED BY <2>1, <2>2 DEF IndexesInv, IndexOK
<1>8. ServedInv'
  <2> SUFFICES ASSUME NEW i \in Job, NEW h \in Graph, result'[i][h].kind = "served"
               PROVE  /\ result'[i][h].key.graph = h
                      /\ result'[i][h].key.pe = config[i].pe
                      /\ file'[result'[i][h].key] # "absent"
                      /\ ~LegacyIndex => result'[i][h].nodes = result'[i][h].key.ver
    BY DEF ServedInv, Given
  <2>1. CASE i = j /\ h = g
    BY <2>1, <1>6 DEF r
  <2>2. CASE ~(i = j /\ h = g)
    <3>1. result'[i][h] = result[i][h] /\ Given(i, h)
      BY <2>2, <1>6 DEF Given
    <3>2. result[i][h].key \in Key
      BY <3>1, Kinds DEF TypeOK, Given, Served
    <3> QED BY <3>1, <3>2 DEF ServedInv
  <2> QED BY <2>1, <2>2
<1>9. \A i \in Job : phase[i] # "build" => chunk'[i] = {}
  BY <1>1, <1>3 DEF PhaseInv, TypeOK
<1>10. \A i \in Job : phase[i] = "idle" => result'[i] = Nothing
  <2>1. \A i \in Job : i # j => result'[i] = result[i]
    BY <1>3 DEF TypeOK
  <2> QED BY <1>1, <2>1 DEF PhaseInv
<1> QED BY <1>4, <1>5, <1>7, <1>8, <1>9, <1>10

LEMMA ServeFromIndexIInv ==
  ASSUME IInv, NEW j \in Job, NEW g \in Graph, ServeFromIndex(j, g)
  PROVE  IInv'
<1> DEFINE m == memory[j][g]
<1> USE DEF IInv
<1>1. g \in chunk[j] /\ g \notin looking[j] /\ g \notin creating[j] /\ Hit(j, g)
        /\ Consume(j, g, m.key, m.nodes)
        /\ UNCHANGED <<raw, file, index, phase, config, todo, looking, creating, faults>>
  BY DEF ServeFromIndex, Fresh, store
<1>2. m.kind = "tagged" /\ m.tag = config[j] /\ file[m.key] # "absent" /\ m \in Tagged
  BY <1>1, Kinds DEF Hit, TypeOK
<1>3. m.key \in Key /\ m.nodes \in Version /\ m.key.graph = g /\ m.key.pe = config[j].pe
        /\ (~LegacyIndex => m.nodes = m.key.ver)
  BY <1>2 DEF Tagged, IndexesInv, IndexOK
<1> HIDE DEF m
<1>4. file' \in [Key -> {"absent", "plain", "weighted"}] /\ file'[m.key] # "absent"
        /\ \A q \in Key : file[q] # "absent" => file'[q] # "absent"
  BY <1>1, <1>2 DEF TypeOK
<1>5. UNCHANGED <<raw, index, phase, config, todo, faults>>
  BY <1>1
<1>6. /\ result' \in [Job -> [Graph -> Result]]
      /\ memory' \in [Job -> [Graph -> IndexEntry]]
      /\ chunk' \in [Job -> SUBSET Graph]
      /\ unsaved' \in [Job -> Nat]
      /\ dirty' \in [Job -> BOOLEAN]
      /\ IndexesInv' /\ ServedInv'
      /\ \A i \in Job : phase[i] # "build" => chunk'[i] = {}
      /\ \A i \in Job : phase[i] = "idle" => result'[i] = Nothing
  BY <1>1, <1>3, <1>4, <1>5, ConsumeStep
<1>7. chunk' = [chunk EXCEPT ![j] = @ \ {g}]
  BY <1>1 DEF Consume
<1>8. TypeOK'
  BY <1>1, <1>4, <1>6 DEF TypeOK
<1>9. PhaseInv'
  BY <1>1, <1>6, <1>7 DEF PhaseInv, TypeOK
<1> QED BY <1>6, <1>8, <1>9

LEMMA ServeFromFileIInv ==
  ASSUME IInv, NEW j \in Job, NEW g \in Graph, ServeFromFile(j, g)
  PROVE  IInv'
<1> DEFINE k == KeyOf(j, g)
           n == IF memory[j][g].kind = "legacy" THEN memory[j][g].nodes ELSE k.ver
<1> USE DEF IInv
<1>1. g \in chunk[j] /\ g \notin looking[j] /\ g \notin creating[j] /\ file[k] # "absent"
        /\ Consume(j, g, k, n)
        /\ UNCHANGED <<raw, file, index, phase, config, todo, looking, creating, faults>>
  BY DEF ServeFromFile, Fresh, store
<1>2. phase[j] # "idle"
  BY <1>1 DEF PhaseInv
<1>3. k \in Key /\ k.graph = g /\ k.pe = config[j].pe /\ k.ver = raw[g] /\ raw[g] \in Version
  BY <1>2, KeyTyped DEF TypeOK
<1>a. n \in Version
  <2>1. CASE memory[j][g].kind = "legacy"
    BY <2>1, Kinds DEF TypeOK, Legacy
  <2>2. CASE memory[j][g].kind # "legacy"
    BY <2>2, <1>3
  <2> QED BY <2>1, <2>2
<1>b. ~LegacyIndex => n = k.ver
  BY DEF IndexesInv, IndexOK
<1> HIDE DEF k, n
<1>4. file' \in [Key -> {"absent", "plain", "weighted"}] /\ file'[k] # "absent"
        /\ \A q \in Key : file[q] # "absent" => file'[q] # "absent"
  BY <1>1 DEF TypeOK
<1>5. UNCHANGED <<raw, index, phase, config, todo, faults>>
  BY <1>1
<1>6. /\ result' \in [Job -> [Graph -> Result]]
      /\ memory' \in [Job -> [Graph -> IndexEntry]]
      /\ chunk' \in [Job -> SUBSET Graph]
      /\ unsaved' \in [Job -> Nat]
      /\ dirty' \in [Job -> BOOLEAN]
      /\ IndexesInv' /\ ServedInv'
      /\ \A i \in Job : phase[i] # "build" => chunk'[i] = {}
      /\ \A i \in Job : phase[i] = "idle" => result'[i] = Nothing
  BY <1>1, <1>3, <1>a, <1>b, <1>4, <1>5, ConsumeStep
<1>7. chunk' = [chunk EXCEPT ![j] = @ \ {g}]
  BY <1>1 DEF Consume
<1>8. TypeOK'
  BY <1>1, <1>4, <1>6 DEF TypeOK
<1>9. PhaseInv'
  BY <1>1, <1>6, <1>7 DEF PhaseInv, TypeOK
<1> QED BY <1>6, <1>8, <1>9

LEMMA RefreshIInv ==
  ASSUME IInv, NEW j \in Job, NEW g \in Graph, Refresh(j, g)
  PROVE  IInv'
<1> DEFINE k == KeyOf(j, g)
           n == k.ver
<1> USE DEF IInv
<1>1. /\ g \in looking[j] /\ file[k] # "absent"
      /\ file' = [file EXCEPT ![k] = IF config[j].norm THEN "weighted" ELSE @]
      /\ Consume(j, g, k, n)
      /\ looking' = [looking EXCEPT ![j] = @ \ {g}]
      /\ UNCHANGED <<raw, index, phase, config, todo, creating, faults>>
  BY DEF Refresh
<1>2. g \in chunk[j] /\ phase[j] # "idle"
  BY <1>1 DEF PhaseInv
<1>3. k \in Key /\ k.graph = g /\ k.pe = config[j].pe /\ n \in Version
  BY <1>2, KeyTyped DEF TypeOK
<1>b. ~LegacyIndex => n = k.ver
  OBVIOUS
<1> HIDE DEF k, n
<1>4. file' \in [Key -> {"absent", "plain", "weighted"}] /\ file'[k] # "absent"
        /\ \A q \in Key : file[q] # "absent" => file'[q] # "absent"
  BY <1>1, <1>3 DEF TypeOK
<1>5. UNCHANGED <<raw, index, phase, config, todo, faults>>
  BY <1>1
<1>6. /\ result' \in [Job -> [Graph -> Result]]
      /\ memory' \in [Job -> [Graph -> IndexEntry]]
      /\ chunk' \in [Job -> SUBSET Graph]
      /\ unsaved' \in [Job -> Nat]
      /\ dirty' \in [Job -> BOOLEAN]
      /\ IndexesInv' /\ ServedInv'
      /\ \A i \in Job : phase[i] # "build" => chunk'[i] = {}
      /\ \A i \in Job : phase[i] = "idle" => result'[i] = Nothing
  BY <1>1, <1>2, <1>3, <1>b, <1>4, <1>5, ConsumeStep
<1>7. chunk' = [chunk EXCEPT ![j] = @ \ {g}]
  BY <1>1 DEF Consume
<1>8. TypeOK'
  BY <1>1, <1>4, <1>6 DEF TypeOK
<1>9. PhaseInv'
  <2>1. ASSUME NEW i \in Job
        PROVE  /\ looking'[i] \subseteq chunk'[i]
               /\ creating'[i] \subseteq chunk'[i]
               /\ looking'[i] \cap creating'[i] = {}
    BY <1>1, <1>7 DEF PhaseInv, TypeOK
  <2> QED BY <1>1, <1>6, <2>1 DEF PhaseInv
<1> QED BY <1>6, <1>8, <1>9

LEMMA PublishIInv ==
  ASSUME IInv, NEW j \in Job, NEW g \in Graph, Publish(j, g)
  PROVE  IInv'
<1> DEFINE k == KeyOf(j, g)
           n == k.ver
<1> USE DEF IInv
<1>1. /\ g \in creating[j]
      /\ file' = [file EXCEPT ![k] = IF config[j].norm THEN "weighted" ELSE "plain"]
      /\ Consume(j, g, k, n)
      /\ creating' = [creating EXCEPT ![j] = @ \ {g}]
      /\ UNCHANGED <<raw, index, phase, config, todo, looking, faults>>
  BY DEF Publish
<1>2. g \in chunk[j] /\ phase[j] # "idle"
  BY <1>1 DEF PhaseInv
<1>3. k \in Key /\ k.graph = g /\ k.pe = config[j].pe /\ n \in Version
  BY <1>2, KeyTyped DEF TypeOK
<1>b. ~LegacyIndex => n = k.ver
  OBVIOUS
<1> HIDE DEF k, n
<1>4. file' \in [Key -> {"absent", "plain", "weighted"}] /\ file'[k] # "absent"
        /\ \A q \in Key : file[q] # "absent" => file'[q] # "absent"
  BY <1>1, <1>3 DEF TypeOK
<1>5. UNCHANGED <<raw, index, phase, config, todo, faults>>
  BY <1>1
<1>6. /\ result' \in [Job -> [Graph -> Result]]
      /\ memory' \in [Job -> [Graph -> IndexEntry]]
      /\ chunk' \in [Job -> SUBSET Graph]
      /\ unsaved' \in [Job -> Nat]
      /\ dirty' \in [Job -> BOOLEAN]
      /\ IndexesInv' /\ ServedInv'
      /\ \A i \in Job : phase[i] # "build" => chunk'[i] = {}
      /\ \A i \in Job : phase[i] = "idle" => result'[i] = Nothing
  BY <1>1, <1>2, <1>3, <1>b, <1>4, <1>5, ConsumeStep
<1>7. chunk' = [chunk EXCEPT ![j] = @ \ {g}]
  BY <1>1 DEF Consume
<1>8. TypeOK'
  BY <1>1, <1>4, <1>6 DEF TypeOK
<1>9. PhaseInv'
  <2>1. ASSUME NEW i \in Job
        PROVE  /\ looking'[i] \subseteq chunk'[i]
               /\ creating'[i] \subseteq chunk'[i]
               /\ looking'[i] \cap creating'[i] = {}
    BY <1>1, <1>7 DEF PhaseInv, TypeOK
  <2> QED BY <1>1, <1>6, <2>1 DEF PhaseInv
<1> QED BY <1>6, <1>8, <1>9

-----------------------------------------------------------------------------
\* The actions that serve nothing.
LEMMA StartIInv ==
  ASSUME IInv, NEW j \in Job, NEW c \in Config, NEW paths \in Requests, Start(j, c, paths)
  PROVE  IInv'
<1> USE DEF IInv
<1>1. /\ phase[j] = "idle"
      /\ phase' = [phase EXCEPT ![j] = "build"]
      /\ config' = [config EXCEPT ![j] = c]
      /\ memory' = [memory EXCEPT ![j] = index]
      /\ todo' = [todo EXCEPT ![j] = paths]
      /\ result' = [result EXCEPT ![j] = Nothing]
      /\ unsaved' = [unsaved EXCEPT ![j] = 0]
      /\ dirty' = [dirty EXCEPT ![j] = FALSE]
      /\ UNCHANGED <<raw, file, index, chunk, looking, creating, faults>>
  BY DEF Start, store
<1>2. paths \subseteq Graph
  BY ConstantsAssumption
<1>3. TypeOK'
  BY <1>1, <1>2, NothingTyped DEF TypeOK
<1>4. IndexesInv'
  <2>1. \A i \in Job : memory'[i] = memory[i] \/ memory'[i] = index
    BY <1>1 DEF TypeOK
  <2>2. index' = index
    BY <1>1
  <2> QED BY <2>1, <2>2 DEF IndexesInv, IndexOK
<1>5. ServedInv'
  <2> SUFFICES ASSUME NEW i \in Job, NEW g \in Graph, result'[i][g].kind = "served"
               PROVE  i # j /\ result'[i] = result[i] /\ config'[i] = config[i]
    BY <1>1 DEF ServedInv, Given
  <2>1. result'[j] = Nothing
    BY <1>1 DEF TypeOK
  <2> QED BY <1>1, <2>1, NothingTyped DEF TypeOK
<1>6. PhaseInv'
  <2>1. \A i \in Job : i # j => phase'[i] = phase[i] /\ config'[i] = config[i]
                                   /\ result'[i] = result[i]
    BY <1>1 DEF TypeOK
  <2>2. phase'[j] = "build" /\ config'[j] = c
    BY <1>1 DEF TypeOK
  <2> QED BY <1>1, <2>1, <2>2 DEF PhaseInv
<1> QED BY <1>3, <1>4, <1>5, <1>6

LEMMA SubmitIInv ==
  ASSUME IInv, NEW j \in Job, NEW c \in SUBSET todo[j], Submit(j, c)
  PROVE  IInv'
<1> USE DEF IInv
<1>1. /\ phase[j] = "build" /\ chunk[j] = {}
      /\ chunk' = [chunk EXCEPT ![j] = c]
      /\ todo' = [todo EXCEPT ![j] = @ \ c]
      /\ UNCHANGED <<raw, file, index, phase, config, memory, looking, creating,
                     result, unsaved, dirty, faults>>
  BY DEF Submit, store
<1>2. TypeOK'
  BY <1>1 DEF TypeOK
<1>3. IndexesInv' /\ ServedInv'
  BY <1>1 DEF IndexesInv, IndexOK, ServedInv, Given
<1>4. PhaseInv'
  <2>1. \A i \in Job : i # j => chunk'[i] = chunk[i]
    BY <1>1 DEF TypeOK
  <2>2. looking[j] = {} /\ creating[j] = {}
    BY <1>1 DEF PhaseInv
  <2> QED BY <1>1, <2>1, <2>2 DEF PhaseInv
<1> QED BY <1>2, <1>3, <1>4

LEMMA MissIInv ==
  ASSUME IInv, NEW j \in Job, NEW g \in Graph, Miss(j, g)
  PROVE  IInv'
<1> USE DEF IInv
<1>1. /\ UNCHANGED <<raw, file, index, phase, config, memory, todo, chunk, creating,
                     result, unsaved, dirty, faults>>
      /\ g \in chunk[j] /\ g \notin creating[j]
      /\ looking' = [looking EXCEPT ![j] = @ \cup {g}]
  BY DEF Miss, Fresh, store
<1>2. TypeOK'
  BY <1>1 DEF TypeOK
<1>3. IndexesInv' /\ ServedInv'
  BY <1>1 DEF IndexesInv, IndexOK, ServedInv, Given
<1>4. PhaseInv'
  BY <1>1 DEF PhaseInv, TypeOK
<1> QED BY <1>2, <1>3, <1>4

LEMMA LookAgainIInv ==
  ASSUME IInv, NEW j \in Job, NEW g \in Graph, LookAgain(j, g)
  PROVE  IInv'
<1> USE DEF IInv
<1>1. /\ UNCHANGED <<raw, file, index, phase, config, memory, todo, chunk,
                     result, unsaved, dirty, faults>>
      /\ g \in looking[j]
      /\ looking' = [looking EXCEPT ![j] = @ \ {g}]
      /\ creating' = [creating EXCEPT ![j] = @ \cup {g}]
  BY DEF LookAgain, store
<1>2. TypeOK'
  BY <1>1 DEF TypeOK
<1>3. IndexesInv' /\ ServedInv'
  BY <1>1 DEF IndexesInv, IndexOK, ServedInv, Given
<1>4. PhaseInv'
  <2>1. ASSUME NEW i \in Job
        PROVE  /\ looking'[i] \subseteq chunk[i]
               /\ creating'[i] \subseteq chunk[i]
               /\ looking'[i] \cap creating'[i] = {}
    BY <1>1 DEF PhaseInv, TypeOK
  <2> QED BY <1>1, <2>1 DEF PhaseInv
<1> QED BY <1>2, <1>3, <1>4

LEMMA SaveIInv ==
  ASSUME IInv, NEW j \in Job, Save(j)
  PROVE  IInv'
<1> USE DEF IInv
<1>1. /\ index' = index \/ index' = memory[j]
      /\ dirty' = [dirty EXCEPT ![j] = FALSE]
      /\ unsaved' = [unsaved EXCEPT ![j] = 0]
      /\ UNCHANGED <<raw, file, phase, config, memory, todo, chunk, looking, creating,
                     result, faults>>
  BY DEF Save
<1>2. TypeOK'
  BY <1>1 DEF TypeOK
<1>3. IndexesInv' /\ ServedInv' /\ PhaseInv'
  BY <1>1 DEF IndexesInv, IndexOK, ServedInv, Given, PhaseInv
<1> QED BY <1>2, <1>3

LEMMA ReturnIInv ==
  ASSUME IInv, NEW j \in Job, Return(j)
  PROVE  IInv'
<1> USE DEF IInv
<1>1. /\ phase[j] = "build" /\ chunk[j] = {}
      /\ phase' = [phase EXCEPT ![j] = "ready"]
      /\ UNCHANGED <<raw, file, index, config, memory, todo, chunk, looking, creating,
                     result, unsaved, dirty, faults>>
  BY DEF Return, store
<1>2. TypeOK'
  BY <1>1 DEF TypeOK
<1>3. IndexesInv' /\ ServedInv'
  BY <1>1 DEF IndexesInv, IndexOK, ServedInv, Given
<1>4. PhaseInv'
  <2>1. \A i \in Job : i # j => phase'[i] = phase[i]
    BY <1>1 DEF TypeOK
  <2>2. phase'[j] = "ready"
    BY <1>1 DEF TypeOK
  <2> QED BY <1>1, <2>1, <2>2 DEF PhaseInv
<1> QED BY <1>2, <1>3, <1>4

\* A process ends, by itself or not.
LEMMA ForgetIInv ==
  ASSUME IInv, NEW j \in Job, Exit(j) \/ Crash(j)
  PROVE  IInv'
<1> USE DEF IInv
<1>1. UNCHANGED <<raw, file, index>> /\ faults' \in 0..MaxFault
  BY ConstantsAssumption DEF Exit, Crash, store, TypeOK
<1>2. Forget(j)
  BY DEF Exit, Crash
<1>3. TypeOK'
  BY <1>1, <1>2, NothingTyped DEF TypeOK, Forget
<1>4. \A i \in Job : i # j => /\ phase'[i] = phase[i] /\ config'[i] = config[i]
                               /\ memory'[i] = memory[i] /\ result'[i] = result[i]
                               /\ chunk'[i] = chunk[i] /\ looking'[i] = looking[i]
                               /\ creating'[i] = creating[i]
  BY <1>2 DEF Forget, TypeOK
<1>5. /\ phase'[j] = "idle" /\ memory'[j] = Nothing /\ result'[j] = Nothing
      /\ chunk'[j] = {} /\ looking'[j] = {} /\ creating'[j] = {}
  BY <1>2 DEF Forget, TypeOK
<1>6. IndexesInv'
  BY <1>1, <1>4, <1>5, NothingTyped DEF IndexesInv, IndexOK
<1>7. ServedInv'
  BY <1>1, <1>4, <1>5, NothingTyped DEF ServedInv, Given
<1>8. PhaseInv'
  BY <1>4, <1>5 DEF PhaseInv
<1> QED BY <1>3, <1>6, <1>7, <1>8

\* Between jobs nobody has been served anything, so nothing goes stale.
LEMMA EnvironmentIInv ==
  ASSUME IInv, (\E g \in Graph : Regenerate(g)) \/ (\E k \in Key : Purge(k))
  PROVE  IInv'
<1> USE DEF IInv
<1>1. /\ \A j \in Job : phase[j] = "idle"
      /\ UNCHANGED <<index, phase, config, memory, todo, chunk, looking, creating,
                     result, unsaved, dirty>>
  BY DEF Regenerate, Purge, jobvars
<1>2. /\ raw' \in [Graph -> Version]
      /\ file' \in [Key -> {"absent", "plain", "weighted"}]
      /\ faults' \in 0..MaxFault
  <2>1. ASSUME NEW g \in Graph, Regenerate(g)
        PROVE  raw' \in [Graph -> Version] /\ UNCHANGED <<file, faults>>
    <3>1. raw[g] + 1 \in Version
      BY <2>1, ConstantsAssumption DEF Regenerate, TypeOK, Version
    <3> QED BY <2>1, <3>1 DEF Regenerate, TypeOK
  <2>2. ASSUME NEW k \in Key, Purge(k)
        PROVE  /\ file' \in [Key -> {"absent", "plain", "weighted"}]
               /\ faults' \in 0..MaxFault /\ UNCHANGED raw
    BY <2>2, ConstantsAssumption DEF Purge, TypeOK
  <2> QED BY <2>1, <2>2 DEF TypeOK
<1>3. TypeOK'
  BY <1>1, <1>2 DEF TypeOK
<1>4. IndexesInv' /\ PhaseInv'
  BY <1>1 DEF IndexesInv, IndexOK, PhaseInv
<1>5. ServedInv'
  BY <1>1, NothingTyped DEF ServedInv, Given, PhaseInv
<1> QED BY <1>3, <1>4, <1>5

LEMMA StutterIInv ==
  ASSUME IInv, UNCHANGED vars
  PROVE  IInv'
BY DEF IInv, vars, store, jobvars, TypeOK, IndexesInv, IndexOK, ServedInv, Given, PhaseInv

THEOREM Inductive == Spec => []IInv
<1>1. Init => IInv
  BY InitIInv
<1>2. IInv /\ [Next]_vars => IInv'
  <2> SUFFICES ASSUME IInv, [Next]_vars PROVE IInv'
    OBVIOUS
  <2>1. CASE UNCHANGED vars
    BY <2>1, StutterIInv
  <2>2. CASE \E j \in Job, c \in Config, paths \in Requests : Start(j, c, paths)
    BY <2>2, StartIInv
  <2>3. CASE \E j \in Job : \E c \in SUBSET todo[j] : Submit(j, c)
    BY <2>3, SubmitIInv
  <2>4. CASE \E j \in Job, g \in Graph : ServeFromIndex(j, g)
    BY <2>4, ServeFromIndexIInv
  <2>5. CASE \E j \in Job, g \in Graph : ServeFromFile(j, g)
    BY <2>5, ServeFromFileIInv
  <2>6. CASE \E j \in Job, g \in Graph : Miss(j, g) \/ LookAgain(j, g)
    BY <2>6, MissIInv, LookAgainIInv
  <2>7. CASE \E j \in Job, g \in Graph : Refresh(j, g)
    BY <2>7, RefreshIInv
  <2>8. CASE \E j \in Job, g \in Graph : Publish(j, g)
    BY <2>8, PublishIInv
  <2>9. CASE \E j \in Job : Save(j)
    BY <2>9, SaveIInv
  <2>10. CASE \E j \in Job : Return(j)
    BY <2>10, ReturnIInv
  <2>11. CASE \E j \in Job : Exit(j) \/ Crash(j)
    BY <2>11, ForgetIInv
  <2>12. CASE (\E g \in Graph : Regenerate(g)) \/ (\E k \in Key : Purge(k))
    BY <2>12, EnvironmentIInv
  <2> QED BY <2>1, <2>2, <2>3, <2>4, <2>5, <2>6, <2>7, <2>8, <2>9, <2>10, <2>11, <2>12
          DEF Next, Step
<1> QED BY <1>1, <1>2, PTL DEF Spec

\* Type correctness of the graph cache.
THEOREM TypeCorrect == Spec => []TypeOK
BY Inductive, PTL DEF IInv

\* No rebuild hands out the name of a file that is not there, whatever other
\* jobs did to the shared index and files and wherever they were killed.
THEOREM ServesExistingFiles == Spec => []ServedFileExists
<1>1. IInv => ServedFileExists
  BY DEF IInv, ServedInv, ServedFileExists
<1> QED BY <1>1, Inductive, PTL

\* No rebuild hands out another graph's file or one of another encoding.
THEOREM ServesForConfig == Spec => []ServedForConfig
<1>1. IInv => ServedForConfig
  BY DEF IInv, ServedInv, ServedForConfig
<1> QED BY <1>1, Inductive, PTL

\* Where the index never held a bare-int entry, every node count handed out
\* is the count of the file handed out with it.
THEOREM ServesExactSizes == ~LegacyIndex => (Spec => []ServedSizesExact)
<1> SUFFICES ASSUME ~LegacyIndex PROVE Spec => []ServedSizesExact
  OBVIOUS
<1>1. IInv => ServedSizesExact
  BY DEF IInv, ServedInv, ServedSizesExact
<1> QED BY <1>1, Inductive, PTL

-----------------------------------------------------------------------------
\* A chunk never holds more than ChunkSize graphs.
LEMMA ChunkBounded ==
  ASSUME NEW left \in SUBSET Graph, NEW c \in NextChunk(left)
  PROVE  IsFiniteSet(c) /\ Cardinality(c) \in Nat /\ Cardinality(c) <= ChunkSize
<1>1. IsFiniteSet(left) /\ IsFiniteSet(c)
  BY ConstantsAssumption, FS_Subset DEF NextChunk
<1>2. Cardinality(left) \in Nat /\ Cardinality(c) \in Nat
  BY <1>1, FS_CardinalityType
<1> QED BY <1>1, <1>2, ConstantsAssumption DEF NextChunk

\* Consuming a result moves one from the chunk to the unsaved ones.
LEMMA ConsumeLoss ==
  ASSUME TypeOK, LossInv, NEW j \in Job, NEW g \in chunk[j], NEW k, NEW n, Consume(j, g, k, n)
  PROVE  LossInv'
<1>1. chunk' = [chunk EXCEPT ![j] = @ \ {g}] /\ unsaved' = [unsaved EXCEPT ![j] = @ + 1]
  BY DEF Consume
<1>2. \A i \in Job : i # j => chunk'[i] = chunk[i] /\ unsaved'[i] = unsaved[i]
  BY <1>1 DEF TypeOK
<1>3. chunk'[j] = chunk[j] \ {g} /\ unsaved'[j] = unsaved[j] + 1 /\ unsaved[j] \in Nat
  BY <1>1 DEF TypeOK
<1>4. IsFiniteSet(chunk[j])
  BY ConstantsAssumption, FS_Subset DEF TypeOK
<1>5. Cardinality(chunk[j]) \in Nat /\ Cardinality(chunk[j] \ {g}) = Cardinality(chunk[j]) - 1
  BY <1>4, FS_CardinalityType, FS_RemoveElement
<1>6. unsaved'[j] + Cardinality(chunk'[j]) = unsaved[j] + Cardinality(chunk[j])
  BY <1>3, <1>5
<1> QED BY <1>2, <1>6 DEF LossInv

\* A kill costs the index fewer than _SAVE_NN_EVERY results plus a chunk.
THEOREM LossIsBounded == Spec => []LossBounded
<1> USE ConstantsAssumption
<1>1. Init => LossInv
  BY FS_EmptySet DEF Init, LossInv
<1>2. IInv /\ LossInv /\ [Next]_vars => LossInv'
  <2> SUFFICES ASSUME IInv, LossInv, [Next]_vars PROVE LossInv'
    OBVIOUS
  <2> USE DEF IInv
  <2>1. ASSUME NEW j \in Job, NEW g \in Graph,
               \/ ServeFromIndex(j, g) \/ ServeFromFile(j, g)
               \/ Refresh(j, g) \/ Publish(j, g)
        PROVE  LossInv'
    <3>1. g \in chunk[j] /\ \E k, n : Consume(j, g, k, n)
      BY <2>1 DEF ServeFromIndex, ServeFromFile, Refresh, Publish, Fresh, PhaseInv
    <3> QED BY <3>1, ConsumeLoss
  <2>2. ASSUME NEW j \in Job, NEW c \in SUBSET todo[j], Submit(j, c)
        PROVE  LossInv'
    <3>1. \A i \in Job : i # j => chunk'[i] = chunk[i]
      BY <2>2 DEF Submit, TypeOK
    <3>2. chunk'[j] = c /\ unsaved' = unsaved /\ unsaved[j] < SaveEvery /\ unsaved[j] \in Nat
      BY <2>2, ConstantsAssumption DEF Submit, SaveDue, TypeOK
    <3>3. Cardinality(c) \in Nat /\ Cardinality(c) <= ChunkSize
      <4>1. todo[j] \in SUBSET Graph /\ c \in NextChunk(todo[j])
        BY <2>2 DEF Submit, TypeOK
      <4> QED BY <4>1, ChunkBounded
    <3>4. unsaved'[j] + Cardinality(chunk'[j]) < SaveEvery + ChunkSize
      BY <3>2, <3>3
    <3> QED BY <3>1, <3>2, <3>4 DEF LossInv
  <2>3. ASSUME NEW j \in Job, \/ \E c \in Config, paths \in Requests : Start(j, c, paths)
                              \/ Save(j) \/ Exit(j) \/ Crash(j)
        PROVE  LossInv'
    <3>1. /\ unsaved' = [unsaved EXCEPT ![j] = 0]
          /\ chunk' = [chunk EXCEPT ![j] = {}]
      BY <2>3 DEF Start, Save, Exit, Crash, Forget, PhaseInv, TypeOK
    <3>2. \A i \in Job : i # j => chunk'[i] = chunk[i] /\ unsaved'[i] = unsaved[i]
      BY <3>1 DEF TypeOK
    <3>3. chunk'[j] = {} /\ unsaved'[j] = 0 /\ Cardinality({}) = 0
      BY <3>1, FS_EmptySet DEF TypeOK
    <3>4. unsaved'[j] + Cardinality(chunk'[j]) < SaveEvery + ChunkSize
      BY <3>3
    <3> QED BY <3>2, <3>4 DEF LossInv
  <2>4. CASE UNCHANGED <<unsaved, chunk>>
    BY <2>4 DEF LossInv
  <2>5. \/ UNCHANGED <<unsaved, chunk>>
        \/ \E j \in Job, g \in Graph : \/ ServeFromIndex(j, g) \/ ServeFromFile(j, g)
                                       \/ Refresh(j, g) \/ Publish(j, g)
        \/ \E j \in Job : \E c \in SUBSET todo[j] : Submit(j, c)
        \/ \E j \in Job : \/ \E c \in Config, paths \in Requests : Start(j, c, paths)
                          \/ Save(j) \/ Exit(j) \/ Crash(j)
    BY DEF Next, Step, vars, jobvars, Miss, LookAgain, Return, Regenerate, Purge
  <2> QED BY <2>1, <2>2, <2>3, <2>4, <2>5
<1>3. IInv /\ LossInv => LossBounded
  <2> SUFFICES ASSUME IInv, LossInv, NEW j \in Job
               PROVE  unsaved[j] < SaveEvery + ChunkSize
    BY DEF LossBounded
  <2>1. IsFiniteSet(chunk[j]) /\ Cardinality(chunk[j]) \in Nat /\ unsaved[j] \in Nat
    BY FS_Subset, FS_CardinalityType DEF IInv, TypeOK
  <2> QED BY <2>1 DEF LossInv
<1> QED BY <1>1, <1>2, <1>3, Inductive, PTL DEF Spec
-----------------------------------------------------------------------------
\* One job at a time: its copy of the index has what the file has, and is
\* the file unless it is dirty, which unsaved results make it; what it was
\* served is in its copy.
MemoryInv(j) ==
  /\ \A g \in Graph : index[g].kind = "tagged" => memory[j][g].kind = "tagged"
  /\ ~dirty[j] => memory[j] = index
  /\ unsaved[j] = 0 => ~dirty[j]
  /\ \A g \in Graph : Given(j, g) => /\ memory[j][g].kind = "tagged"
                                     /\ memory[j][g].key = result[j][g].key
                                     /\ memory[j][g].tag = config[j]

AloneInv ==
  /\ \A i, j \in Running : i = j
  /\ \A j \in Running : MemoryInv(j)

\* A job starts alone.
LEMMA StartsAlone ==
  ASSUME MaxRunning = 1, Cardinality(Running) < MaxRunning
  PROVE  Running = {}
<1>1. IsFiniteSet(Running)
  BY ConstantsAssumption, FS_Subset DEF Running
<1>2. Cardinality(Running) \in Nat /\ (Cardinality(Running) = 0 <=> Running = {})
  BY <1>1, FS_CardinalityType, FS_EmptySet
<1> QED BY <1>2

LEMMA StartAlone ==
  ASSUME IInv, MaxRunning = 1, NEW j \in Job, NEW c \in Config, NEW paths \in Requests,
         Start(j, c, paths)
  PROVE  AloneInv'
<1>1. Running = {}
  BY StartsAlone DEF Start
<1>2. Running' = {j}
  BY <1>1 DEF Start, Running, IInv, TypeOK
<1>3. /\ memory'[j] = index /\ index' = index /\ dirty'[j] = FALSE
      /\ \A g \in Graph : ~Given(j, g)'
  <2>1. /\ memory'[j] = index /\ index' = index /\ dirty'[j] = FALSE /\ result'[j] = Nothing
    BY DEF Start, store, IInv, TypeOK
  <2> QED BY <2>1, NothingTyped DEF Given
<1>4. MemoryInv(j)'
  BY <1>3 DEF MemoryInv
<1> QED BY <1>2, <1>4 DEF AloneInv

LEMMA ConsumeAlone ==
  ASSUME IInv, AloneInv, NEW j \in Running, NEW g \in Graph, NEW k \in Key, NEW n,
         Consume(j, g, k, n), UNCHANGED <<index, phase, config>>
  PROVE  AloneInv'
<1> DEFINE entry == [kind |-> "tagged", key |-> k, nodes |-> n, tag |-> config[j]]
           given == [kind |-> "served", key |-> k, nodes |-> n]
<1>0. j \in Job /\ unsaved[j] \in Nat /\ MemoryInv(j)
  BY DEF IInv, TypeOK, AloneInv, Running
<1>1. /\ memory'[j] = [memory[j] EXCEPT ![g] = entry]
      /\ result'[j] = [result[j] EXCEPT ![g] = given]
      /\ unsaved'[j] = unsaved[j] + 1
      /\ dirty'[j] = (dirty[j] \/ memory[j][g] # entry)
      /\ memory[j] \in [Graph -> IndexEntry] /\ result[j] \in [Graph -> Result]
      /\ config' = config /\ index' = index
  BY <1>0 DEF Consume, IInv, TypeOK
<1>2. /\ entry.kind = "tagged" /\ entry.key = k /\ entry.tag = config[j]
      /\ given.kind = "served" /\ given.key = k
  OBVIOUS
<1> HIDE DEF entry, given
<1>3. \A h \in Graph : /\ memory'[j][h] = IF h = g THEN entry ELSE memory[j][h]
                       /\ result'[j][h] = IF h = g THEN given ELSE result[j][h]
  BY <1>1
<1>4. \A h \in Graph : index'[h].kind = "tagged" => memory'[j][h].kind = "tagged"
  BY <1>0, <1>1, <1>2, <1>3 DEF MemoryInv
<1>5. ~dirty'[j] => memory'[j] = index'
  <2>1. memory[j][g] = entry => memory'[j] = memory[j]
    BY <1>1
  <2> QED BY <1>0, <1>1, <2>1 DEF MemoryInv
<1>6. \A h \in Graph : Given(j, h)' => /\ memory'[j][h].kind = "tagged"
                                       /\ memory'[j][h].key = result'[j][h].key
                                       /\ memory'[j][h].tag = config'[j]
  BY <1>0, <1>1, <1>2, <1>3 DEF MemoryInv, Given
<1>7. MemoryInv(j)'
  BY <1>0, <1>1, <1>4, <1>5, <1>6 DEF MemoryInv
<1>8. Running' = Running
  BY DEF Running
<1> QED BY <1>7, <1>8 DEF AloneInv

LEMMA SaveAlone ==
  ASSUME IInv, AloneInv, NEW j \in Job, Save(j)
  PROVE  AloneInv'
<1>1. j \in Running /\ Running' = Running /\ MemoryInv(j)
  BY DEF Save, Running, AloneInv
<1>2. /\ index' = IF dirty[j] THEN memory[j] ELSE index
      /\ dirty'[j] = FALSE /\ UNCHANGED <<memory, result, config>>
  BY DEF Save, IInv, TypeOK
<1>3. memory'[j] = index'
  BY <1>1, <1>2 DEF MemoryInv
<1>4. MemoryInv(j)'
  BY <1>1, <1>2, <1>3 DEF MemoryInv, Given
<1> QED BY <1>1, <1>4 DEF AloneInv

\* Steps that leave the index and what building jobs know of it alone; a
\* build may end.
Apart ==
  /\ index' = index
  /\ Running' \subseteq Running
  /\ \A j \in Running' : /\ memory'[j] = memory[j] /\ dirty'[j] = dirty[j]
                         /\ unsaved'[j] = unsaved[j] /\ result'[j] = result[j]
                         /\ config'[j] = config[j]

LEMMA ApartAlone ==
  ASSUME AloneInv, Apart
  PROVE  AloneInv'
<1>1. ASSUME NEW j \in Running' PROVE MemoryInv(j)'
  BY <1>1 DEF AloneInv, Apart, MemoryInv, Given
<1> QED BY <1>1 DEF AloneInv, Apart

LEMMA AloneStep ==
  ASSUME IInv, AloneInv, MaxRunning = 1, [Next]_vars
  PROVE  AloneInv'
<1>1. ASSUME NEW j \in Job, NEW g \in Graph,
             \/ ServeFromIndex(j, g) \/ ServeFromFile(j, g)
             \/ Refresh(j, g) \/ Publish(j, g)
      PROVE  AloneInv'
  <2>1. g \in chunk[j] /\ UNCHANGED <<index, phase, config>>
    BY <1>1 DEF ServeFromIndex, ServeFromFile, Refresh, Publish, Fresh, IInv, PhaseInv, store
  <2>2. phase[j] = "build" /\ j \in Running
    BY <2>1 DEF IInv, PhaseInv, Running
  <2>3. KeyOf(j, g) \in Key
    BY <2>2, KeyTyped DEF IInv
  <2>4. CASE ServeFromIndex(j, g)
    <3>1. memory[j][g] \in Tagged
      <4>1. memory[j][g] \in IndexEntry /\ memory[j][g].kind = "tagged"
        BY <2>4 DEF ServeFromIndex, Hit, IInv, TypeOK
      <4> QED BY <4>1 DEF IndexEntry, Tagged, Legacy, Missing
    <3>2. memory[j][g].key \in Key
      BY <3>1 DEF Tagged
    <3> QED BY <2>1, <2>2, <2>4, <3>2, ConsumeAlone DEF ServeFromIndex
  <2>5. CASE ServeFromFile(j, g) \/ Refresh(j, g) \/ Publish(j, g)
    <3>1. \E n : Consume(j, g, KeyOf(j, g), n)
      BY <2>5 DEF ServeFromFile, Refresh, Publish
    <3> QED BY <2>1, <2>2, <2>3, <3>1, ConsumeAlone
  <2> QED BY <1>1, <2>4, <2>5
<1>2. ASSUME NEW j \in Job, \E c \in SUBSET todo[j] : Submit(j, c)
      PROVE  Apart
  BY <1>2 DEF Submit, store, Apart, Running
<1>3. ASSUME NEW j \in Job, \E g \in Graph : Miss(j, g) \/ LookAgain(j, g)
      PROVE  Apart
  BY <1>3 DEF Miss, LookAgain, store, Apart, Running
<1>4. ASSUME NEW j \in Job, Return(j)
      PROVE  Apart
  BY <1>4 DEF Return, store, Apart, Running, IInv, TypeOK
<1>5. ASSUME NEW j \in Job, Exit(j) \/ Crash(j)
      PROVE  Apart
  BY <1>5 DEF Exit, Crash, Forget, store, Apart, Running, IInv, TypeOK
<1>6. CASE (\E g \in Graph : Regenerate(g)) \/ (\E k \in Key : Purge(k)) \/ UNCHANGED vars
  <2>1. Apart
    BY <1>6 DEF Regenerate, Purge, vars, store, jobvars, Apart, Running
  <2> QED BY <2>1, ApartAlone
<1> QED BY <1>1, <1>2, <1>3, <1>4, <1>5, <1>6, StartAlone, SaveAlone, ApartAlone DEF Next, Step

LEMMA AlwaysAlone ==
  ASSUME MaxRunning = 1
  PROVE  Spec => [](IInv /\ AloneInv)
<1>1. Init => AloneInv
  BY DEF Init, AloneInv, Running
<1>2. IInv /\ AloneInv /\ [Next]_vars => AloneInv'
  BY AloneStep
<1> QED BY <1>1, <1>2, Inductive, PTL DEF Spec

(***************************************************************************)
(* With one job at a time (the %1 throttle of the job array) a graph once  *)
(* indexed stays indexed, although every save rewrites the whole file and  *)
(* jobs are killed between saves (_rebuild_graph_cache).                   *)
(***************************************************************************)
THEOREM NeverForgets == MaxRunning = 1 => (Spec => IndexNeverForgets)
<1> SUFFICES ASSUME MaxRunning = 1 PROVE Spec => IndexNeverForgets
  OBVIOUS
<1>1. IInv /\ AloneInv /\ [Next]_vars =>
        \A g \in Graph : index[g].kind = "tagged" => index'[g].kind = "tagged"
  <2> SUFFICES ASSUME AloneInv, [Next]_vars, NEW g \in Graph, index[g].kind = "tagged"
               PROVE  index'[g].kind = "tagged"
    OBVIOUS
  <2>1. CASE index' = index
    BY <2>1
  <2>2. ASSUME NEW j \in Job, Save(j) PROVE index'[g].kind = "tagged"
    BY <2>2 DEF Save, AloneInv, Running, MemoryInv
  <2>3. index' = index \/ \E j \in Job : Save(j)
    BY DEF Next, Step, vars, store, Start, Submit, ServeFromIndex, ServeFromFile, Miss, LookAgain,
       Refresh, Publish, Return, Exit, Crash, Regenerate, Purge
  <2> QED BY <2>1, <2>2, <2>3
<1> QED BY <1>1, AlwaysAlone, PTL DEF Spec, IndexNeverForgets

(***************************************************************************)
(* With one job at a time a rebuild that returns has left every graph it   *)
(* served in the index on disk, under its own settings.                    *)
(***************************************************************************)
THEOREM ReturnsIndexed == MaxRunning = 1 => (Spec => ReturnIsIndexed)
<1> SUFFICES ASSUME MaxRunning = 1 PROVE Spec => ReturnIsIndexed
  OBVIOUS
<1> DEFINE Indexed == \A j \in Job, g \in Graph :
                        phase[j] = "build" /\ phase'[j] = "ready" /\ Given(j, g)
                          => /\ index[g].kind = "tagged"
                             /\ index[g].key = result[j][g].key
                             /\ index[g].tag = config[j]
<1>1. IInv /\ AloneInv /\ [Next]_vars => Indexed
  <2> SUFFICES ASSUME IInv, AloneInv, [Next]_vars, NEW j \in Job, NEW g \in Graph,
                      phase[j] = "build", phase'[j] = "ready", Given(j, g)
               PROVE  /\ index[g].kind = "tagged"
                      /\ index[g].key = result[j][g].key
                      /\ index[g].tag = config[j]
    OBVIOUS
  <2>1. ASSUME NEW i \in Job, Return(i) PROVE unsaved[j] = 0
    <3>1. i = j
      BY <2>1 DEF Return, IInv, TypeOK
    <3> QED BY <2>1, <3>1 DEF Return
  <2>2. \E i \in Job : Return(i)
    <3>1. phase' # phase /\ DOMAIN phase = Job
      BY DEF IInv, TypeOK
    <3>2. ASSUME NEW i \in Job, NEW c, NEW paths, Start(i, c, paths) PROVE FALSE
      BY <3>1, <3>2 DEF Start
    <3>3. ASSUME NEW i \in Job, Exit(i) \/ Crash(i) PROVE FALSE
      BY <3>1, <3>3 DEF Exit, Crash, Forget
    <3>4. ASSUME NEW i \in Job,
                 \/ \E c \in SUBSET todo[i] : Submit(i, c)
                 \/ Save(i)
                 \/ \E h \in Graph : \/ ServeFromIndex(i, h) \/ ServeFromFile(i, h) \/ Miss(i, h)
                                     \/ LookAgain(i, h) \/ Refresh(i, h) \/ Publish(i, h)
          PROVE  phase' = phase
      BY <3>4 DEF Submit, Save, ServeFromIndex, ServeFromFile, Miss, LookAgain, Refresh, Publish
    <3>5. ASSUME \/ \E h \in Graph : Regenerate(h)
                 \/ \E k \in Key : Purge(k)
                 \/ UNCHANGED vars
          PROVE  phase' = phase
      BY <3>5 DEF Regenerate, Purge, vars, jobvars
    <3> QED BY <3>1, <3>2, <3>3, <3>4, <3>5 DEF Next, Step
  <2>3. MemoryInv(j)
    BY DEF AloneInv, Running
  <2>4. memory[j] = index
    BY <2>1, <2>2, <2>3 DEF MemoryInv
  <2> QED BY <2>3, <2>4 DEF MemoryInv
<1> QED BY <1>1, AlwaysAlone, PTL DEF Spec, ReturnIsIndexed

=============================================================================
