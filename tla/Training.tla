------------------------------- MODULE Training -------------------------------
(***************************************************************************)
(* Training runs (src/src/train.py with datamodule.py, sampler.py,         *)
(* train_utils.py and models/lightning_model.py) and the choice of the     *)
(* checkpoint that is evaluated (resolve_checkpoint_path in test.py).      *)
(*                                                                         *)
(* A run sets up the datamodule, which packs its train graphs with the     *)
(* loop of BatchPacking or reads the plan an earlier run stored; names its *)
(* checkpoint directory after its configuration; and trains epoch after    *)
(* epoch.  A call of the packing loop that no run asked for is a           *)
(* validation or test plan: those are built anew and never stored.         *)
(***************************************************************************)
EXTENDS BatchPacking, FiniteSetsExt

CONSTANTS
  Configs,       \* the runs that are launched: records, see below
  Peak,          \* --lr
  Start,         \* --warmup_start_lr
  Warmup,        \* --warmup_steps
  MinRate,       \* --min_lr
  StopPatience,  \* --patience
  SchedPatience, \* --scheduler_patience
  TopK,          \* save_top_k
  MaxEpochs,     \* --max_epochs
  Losses,        \* the validation losses, in units of half a printed digit
  MaxLaunches,   \* bound on the runs of one behaviour
  MaxKills       \* bound on the kills

\* algorithm, type (of reduction), method and split name the run; call is the
\* packing call of its train graphs.
ASSUME ConfigAssumption ==
  /\ \A c \in Configs : c.call \in Inputs
  /\ Losses \subseteq Nat /\ \E m \in Losses : \A l \in Losses : m >= l
  /\ TopK \in Nat \ {0}
  /\ {Peak, Start, Warmup, MinRate, StopPatience, SchedPatience} \subseteq Nat
  /\ Start <= Peak /\ MinRate <= Peak

\* Names are the sequences of their words, which underscores join.
Reductions == <<"sparsification", "partition", "summarization">>
SplitBy    == "design"
ValidSplitBy == {"design", "recipe", "random"}

\* What run_label_for is given: a method exactly with a reduction, which
\* train.py does not combine; no name has the word of a type; and a name
\* stands for one way to train.
Alone == <<>>   \* the configuration of a packing call outside training
ASSUME NameAssumption ==
  /\ Alone \notin Configs
  /\ \A c \in Configs :
       /\ c.algorithm \in Seq(STRING) /\ c.algorithm # <<>> /\ c.method \in Seq(STRING)
       /\ c.split \in ValidSplitBy
       /\ \/ c.type = "none" /\ c.method = <<>>
          \/ c.type \in Range(Reductions) /\ c.method # <<>>
       /\ Range(c.algorithm \o c.method) \cap (Range(Reductions) \cup {"none"}) = {}
  /\ \A c, d \in Configs :
       c.algorithm = d.algorithm /\ c.type = d.type /\ c.method = d.method
         /\ c.split = d.split => c = d

VARIABLES
  stage,     \* where the process is, "pack" for a call no run asked for
  config,    \* the configuration of the run
  planFile,  \* the stored train plans, by packing call
  plan,      \* the batches of the train loader's sampler
  left,      \* those this epoch has not trained yet
  epoch, steps,      \* current_epoch, global_step
  rate,      \* the optimizer's learning rate
  best, wait,        \* EarlyStopping: best score, epochs since
  least, bad,        \* ReduceLROnPlateau: best value, bad epochs
  loss,      \* the val_loss of this epoch
  kept,      \* ModelCheckpoint: the files this run's top k holds
  evicted,   \* the file it is about to delete
  dirs,      \* the checkpoint directories, by run label
  launches, kills,
  graphs, batchCount, \* TrainingStartupCallback: sums over the whole fit
  trained,   \* history: the samples of this epoch trained so far
  earned,    \* history: least loss the checkpoint callback saw, by configuration
  atBest,    \* history: [rate, steps] of the epoch with the best score
  lastRate   \* history: the rate of the last step

process  == <<stage, config, plan, left>>
optimizer == <<epoch, steps, rate, graphs, batchCount, trained, lastRate>>
monitors == <<best, wait, least, bad, loss, atBest>>
storage  == <<planFile, dirs, earned>>
saving   == <<kept, evicted>>
bounds   == <<launches, kills>>
trainVars == <<vars, process, optimizer, monitors, storage, saving, bounds>>

Infinity == 1 + Max(Losses)
NoFile == [epoch |-> 0, printed |-> 0, version |-> 0, loss |-> 0, config |-> Alone]

-----------------------------------------------------------------------------
\* Mutant: the label of before the fix, which names the method alone.
LabelByMethod(c) ==
  IF c.type # "none" THEN c.algorithm \o c.method
  ELSE IF c.split # SplitBy THEN c.algorithm \o <<c.split>> ELSE c.algorithm

\* run_label_for: a reduction, a split other than the default, or neither.
RunLabel(c) ==
  IF c.type # "none" THEN c.algorithm \o <<c.type>> \o c.method
  ELSE IF c.split # SplitBy THEN c.algorithm \o <<"none", c.split>>
  ELSE c.algorithm

\* It raises for a reduction on another split, which three slots cannot name.
HasLabel(c) == c.type = "none" \/ c.split = SplitBy

\* label.partition("_word_"): where the word is first found inside the label.
Inside(label, word) == {i \in 2..Len(label) - 1 : label[i] = word}
FirstInside(label, word) ==
  CHOOSE i \in Inside(label, word) : \A k \in Inside(label, word) : i <= k
HeadOf(label, word) == SubSeq(label, 1, FirstInside(label, word) - 1)
TailOf(label, word) == SubSeq(label, FirstInside(label, word) + 1, Len(label))

\* parse_run_label, by which the analysis reads file names back: the first
\* reduction found, else a valid split after "none", else all is the algorithm.
ParseRunLabel(label) ==
  LET found == {r \in DOMAIN Reductions : Inside(label, Reductions[r]) # {}}
      type  == Reductions[CHOOSE r \in found : \A q \in found : r <= q]
      name(algorithm, reduction, method, split) ==
        [algorithm |-> algorithm, type |-> reduction, method |-> method, split |-> split]
  IN  IF found # {}
      THEN name(HeadOf(label, type), type, TailOf(label, type), SplitBy)
      ELSE IF Inside(label, "none") # {} /\ TailOf(label, "none") \in {<<s>> : s \in ValidSplitBy}
      THEN name(HeadOf(label, "none"), "none", <<>>, TailOf(label, "none")[1])
      ELSE name(label, "none", <<>>, SplitBy)

\* The file name prints the loss with fewer digits than it has.
Printed(l) == l \div 2

\* resolve_checkpoint_path("best"): least printed loss; ties go by file name.
Selected(c) ==
  LET files == dirs[RunLabel(c)]
  IN  {f \in files : \A g \in files : f.printed <= g.printed}

-----------------------------------------------------------------------------
\* Mutant: the warm-up takes one step more.
WarmingTooLong(s) == s <= Warmup

\* optimizer_step ramps the rate of the first Warmup steps.
Warming(s) == s < Warmup
WarmupRate(s) == Start + ((s + 1) * (Peak - Start)) \div Warmup

\* configure_optimizers
FirstRate == IF Warmup > 0 THEN Start ELSE Peak

\* Mutant: one bad epoch more than the patience.
PatienceSpentLate(n) == n > SchedPatience + 1

\* ReduceLROnPlateau: an epoch is better only by a margin, and the rate is
\* halved after more than SchedPatience bad ones, never below MinRate.
PatienceSpent(n) == n > SchedPatience
Better(l) == l + 1 < least \/ least = Infinity
Halved == Max({rate \div 2, MinRate})

-----------------------------------------------------------------------------
\* A process starts with nothing in memory.
Fresh ==
  /\ plan = {} /\ left = {} /\ kept = {} /\ evicted = NoFile
  /\ epoch = 0 /\ steps = 0 /\ rate = FirstRate /\ lastRate = 0
  /\ graphs = 0 /\ batchCount = 0 /\ trained = {}
  /\ best = Infinity /\ wait = 0 /\ least = Infinity /\ bad = 0 /\ loss = Infinity
  /\ atBest = [rate |-> 0, steps |-> 0]

TrainInit ==
  /\ Init /\ Fresh
  /\ \/ config = Alone /\ stage = "pack"
     \/ config \in {c \in Configs : c.call = call} /\ stage = "setup"
  /\ planFile = <<>>
  /\ dirs = <<>>
  /\ earned = [c \in Configs |-> Infinity]
  /\ launches = 1 /\ kills = 0

\* The next run is launched, for the same configuration or another.
Launch(c) ==
  /\ stage \in {"done", "raised", "killed"} /\ launches < MaxLaunches
  /\ launches' = launches + 1
  /\ stage' = "setup" /\ config' = c
  /\ call' = c.call /\ lo' = 1 /\ hi' = c.call.n
  /\ open' = FALSE /\ total' = 0 /\ batches' = {}
  /\ batch' = [top |-> 0, from |-> 1, to |-> 0]
  /\ plan' = {} /\ left' = {} /\ kept' = {} /\ evicted' = NoFile
  /\ epoch' = 0 /\ steps' = 0 /\ rate' = FirstRate /\ lastRate' = 0
  /\ graphs' = 0 /\ batchCount' = 0 /\ trained' = {}
  /\ best' = Infinity /\ wait' = 0 /\ least' = Infinity /\ bad' = 0 /\ loss' = Infinity
  /\ atBest' = [rate |-> 0, steps |-> 0]
  /\ UNCHANGED <<kills, storage>>

\* _normalize_batch_plan: the lengths of the stored batches add up.
Reusable ==
  /\ call \in DOMAIN planFile
  /\ MapThenSumSet(Cardinality, planFile[call]) = call.n

\* The packing loop runs when no stored plan does.
Pack ==
  /\ stage = "pack" \/ (stage = "setup" /\ ~Reusable)
  /\ Next
  /\ UNCHANGED <<process, optimizer, monitors, storage, saving, bounds>>

\* load_or_build_batch_plan in setup("fit"): the plan is stored by a rename and
\* handed to the first train_dataloader(), which forgets it.
StorePlan ==
  /\ stage = "setup" /\ ~Reusable /\ Finished
  /\ planFile' = [c \in DOMAIN planFile \cup {call} |->
                    IF c = call THEN {Positions(b) : b \in batches} ELSE planFile[c]]
  /\ plan' = planFile'[call]
  /\ stage' = "built"
  /\ UNCHANGED <<vars, config, left, optimizer, monitors, dirs, earned, saving, bounds>>

ReusePlan ==
  /\ stage = "setup" /\ Reusable
  /\ plan' = planFile[call]
  /\ stage' = "built"
  /\ UNCHANGED <<vars, config, left, optimizer, monitors, storage, saving, bounds>>

\* run_label_for raises: the datasets were loaded for nothing.
Unnamed ==
  /\ stage = "built" /\ ~HasLabel(config)
  /\ stage' = "raised"
  /\ UNCHANGED <<vars, config, plan, left, optimizer, monitors, storage, saving, bounds>>

\* The directory is made (exist_ok) and trainer.fit starts its first epoch:
\* its setup("fit") returns at once, as the datasets are there.
Fit ==
  /\ stage = "built" /\ HasLabel(config)
  /\ dirs' = [l \in DOMAIN dirs \cup {RunLabel(config)} |->
                IF l \in DOMAIN dirs THEN dirs[l] ELSE {}]
  /\ left' = plan
  /\ stage' = "epoch"
  /\ UNCHANGED <<vars, config, plan, optimizer, monitors, planFile, earned, saving, bounds>>

\* One batch, in any order (rng.shuffle): the callback counts it and
\* optimizer_step sets the rate while it warms up.
Step(b) ==
  /\ stage = "epoch" /\ b \in left
  /\ left' = left \ {b}
  /\ graphs' = graphs + Cardinality(b) /\ batchCount' = batchCount + 1
  /\ trained' = trained \cup b
  /\ rate' = IF Warming(steps) THEN WarmupRate(steps) ELSE rate
  /\ lastRate' = rate'
  /\ steps' = steps + 1
  /\ UNCHANGED <<vars, stage, config, plan, epoch, monitors, storage, saving, bounds>>

\* The validation after the last batch, and early stopping at the epoch's end.
Validate(l) ==
  /\ stage = "epoch" /\ left = {}
  /\ loss' = l
  /\ IF l < best
     THEN best' = l /\ wait' = 0 /\ atBest' = [rate |-> lastRate, steps |-> steps]
     ELSE wait' = wait + 1 /\ UNCHANGED <<best, atBest>>
  /\ stage' = "save"
  /\ UNCHANGED <<vars, config, plan, left, least, bad, optimizer, storage, saving, bounds>>

\* The name a file for this epoch gets: -v<n> if there is one already.
FileName ==
  LET taken == {f.version : f \in {g \in dirs[RunLabel(config)] :
                                    g.epoch = epoch /\ g.printed = Printed(loss)}}
      free  == CHOOSE v \in 0..Cardinality(taken) :
                 v \notin taken /\ \A w \in 0..(v - 1) : w \in taken
  IN  [epoch |-> epoch, printed |-> Printed(loss), version |-> free,
       loss |-> loss, config |-> config]

\* The worst of the files kept, one of them if several are.
Worst == {f \in kept : \A g \in kept : g.loss <= f.loss}

\* ModelCheckpoint: the file is written if the top k is not full or the loss
\* beats its worst, which is then to be deleted.
Save ==
  /\ stage = "save"
  /\ IF Cardinality(kept) < TopK
     THEN /\ dirs' = [dirs EXCEPT ![RunLabel(config)] = @ \cup {FileName}]
          /\ kept' = kept \cup {FileName}
          /\ UNCHANGED evicted
     ELSE IF \E f \in Worst : loss < f.loss
     THEN \E f \in Worst :
            /\ dirs' = [dirs EXCEPT ![RunLabel(config)] = @ \cup {FileName}]
            /\ evicted' = f
            /\ kept' = (kept \ {f}) \cup {FileName}
     ELSE UNCHANGED <<dirs, kept, evicted>>
  /\ earned' = [earned EXCEPT ![config] = Min({@, loss})]
  /\ stage' = "evict"
  /\ UNCHANGED <<vars, config, plan, left, optimizer, monitors, planFile, bounds>>

\* _remove_checkpoint, after the new file is there.
Evict ==
  /\ stage = "evict"
  /\ dirs' = [dirs EXCEPT ![RunLabel(config)] = @ \ {evicted}]
  /\ evicted' = NoFile
  /\ stage' = "adapt"
  /\ UNCHANGED <<vars, config, plan, left, optimizer, monitors, planFile, earned, kept, bounds>>

\* Mutant: the sampler's batches are a generator that the first epoch used up.
AdaptOnce ==
  /\ stage = "adapt"
  /\ IF Better(loss) THEN least' = loss /\ bad' = 0 /\ rate' = rate
     ELSE /\ bad' = IF PatienceSpent(bad + 1) THEN 0 ELSE bad + 1
          /\ rate' = IF PatienceSpent(bad + 1) /\ Halved < rate THEN Halved ELSE rate
          /\ least' = least
  /\ epoch' = epoch + 1
  /\ stage' = IF wait >= StopPatience \/ epoch' = MaxEpochs THEN "done" ELSE "epoch"
  /\ trained' = {}
  /\ UNCHANGED <<vars, config, plan, left, steps, graphs, batchCount, lastRate, best, wait,
                 loss, atBest, storage, saving, bounds>>

\* The scheduler's step, after the callbacks; then the next epoch, whose
\* sampler iterates over all batches again, or the end.
Adapt ==
  /\ stage = "adapt"
  /\ IF Better(loss) THEN least' = loss /\ bad' = 0 /\ rate' = rate
     ELSE /\ bad' = IF PatienceSpent(bad + 1) THEN 0 ELSE bad + 1
          /\ rate' = IF PatienceSpent(bad + 1) /\ Halved < rate THEN Halved ELSE rate
          /\ least' = least
  /\ epoch' = epoch + 1
  /\ IF wait >= StopPatience \/ epoch' = MaxEpochs
     THEN stage' = "done" /\ UNCHANGED <<left, trained>>
     ELSE stage' = "epoch" /\ left' = plan /\ trained' = {}
  /\ UNCHANGED <<vars, config, plan, steps, graphs, batchCount, lastRate, best, wait,
                 loss, atBest, storage, saving, bounds>>

\* Out of memory, out of time: memory is gone, the files stay.
Kill ==
  /\ stage \in {"setup", "built", "epoch", "save", "evict", "adapt"}
  /\ kills < MaxKills
  /\ kills' = kills + 1
  /\ stage' = "killed"
  /\ UNCHANGED <<vars, config, plan, left, optimizer, monitors, storage, saving, launches>>

TrainNext ==
  \/ Pack \/ StorePlan \/ ReusePlan \/ Unnamed \/ Fit \/ Save \/ Evict \/ Adapt \/ Kill
  \/ \E b \in left : Step(b)
  \/ \E l \in Losses : Validate(l)
  \/ \E c \in Configs : Launch(c)

TrainSpec == TrainInit /\ [][TrainNext]_trainVars

-----------------------------------------------------------------------------
(***************************************************************************)
(* Every epoch trains every sample exactly once, whether the plan was      *)
(* packed by this process or read from an earlier one's file, and the sums *)
(* the epoch summary divides are those of whole epochs only.  (The plan is *)
(* handed over once, datamodule.py:215; its batches are checked by length  *)
(* alone; the sampler must yield them again for every epoch.)              *)
(***************************************************************************)
EpochCovers ==
  stage \in {"save", "evict", "adapt", "done"} =>
    /\ trained = 1..call.n
    /\ graphs = (IF stage = "done" THEN epoch ELSE epoch + 1) * call.n
    /\ batchCount * call.n = graphs * Cardinality(plan)

(***************************************************************************)
(* The checkpoint test.py takes for the best of a configuration was        *)
(* trained under that configuration, and no epoch of any run of it that    *)
(* the checkpoint callback saw printed a lower loss: across runs into one  *)
(* directory, kills between saving and deleting, and losses the file name  *)
(* cannot tell apart.  The label read back names the configuration.  (Two  *)
(* configurations once shared a directory: config.py:131-137.)             *)
(***************************************************************************)
SelectedIsBest ==
  \A c \in {d \in Configs : HasLabel(d) /\ earned[d] # Infinity} :
    /\ Selected(c) # {}
    /\ \A f \in Selected(c) : f.config = c /\ f.printed = Printed(earned[c])
    /\ \A k \in DOMAIN ParseRunLabel(RunLabel(c)) : ParseRunLabel(RunLabel(c))[k] = c[k]

(***************************************************************************)
(* A run stops early only after it has trained at a lower rate than at its *)
(* best epoch, or at the floor: the two patience counters, of which only   *)
(* the scheduler's needs a margin, never let early stopping win.  This is  *)
(* about runs whose patience exceeds the scheduler's by two (train.sh: 4   *)
(* and 2) and a best epoch after the warm-up.                              *)
(***************************************************************************)
StopsAfterReduction ==
  stage = "done" /\ wait >= StopPatience /\ atBest.steps >= Warmup =>
    lastRate < atBest.rate \/ lastRate <= MinRate

(***************************************************************************)
(* Within a run the learning rate rises only while it warms up and never   *)
(* over the peak; any other change lowers it, to no less than the floor.   *)
(* (optimizer_step and the scheduler write one param_group["lr"].)         *)
(***************************************************************************)
RateLaw ==
  [][launches' = launches /\ rate' # rate =>
       \/ steps < Warmup /\ rate' <= Peak
       \/ rate' < rate /\ rate' >= MinRate]_trainVars
=============================================================================
