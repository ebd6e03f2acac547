------------------------------- MODULE Dataset -------------------------------
(***************************************************************************)
(* The station-camera dataset on disk: the labelled images and their       *)
(* metadata.csv (ai-service/app/tools/collect.py, make_pilot.py), the      *)
(* session-aware split into directories (common.py, split_dataset.py) and  *)
(* the tools that train and calibrate on what the directories list.  Every *)
(* tool is a process of its own that may be killed between two writes.     *)
(* The seed decides shuffles: any order may come out.                      *)
(***************************************************************************)
EXTENDS Integers, Sequences, FiniteSets, FiniteSetsExt, Functions

CONSTANTS
  Images,      \* images that may be labelled, each with its file name
  Pilot,       \* those make_pilot renders; the others are collected by hand
  Session,     \* Session[i]: the session, object or file that groups i
  Class,       \* Class[i]: the label a human gave, or the source folder
  NoImage,
  MaxRuns      \* bound on the runs of split_dataset

DatasetAssumption ==
  /\ Pilot \subseteq Images /\ NoImage \notin Images /\ MaxRuns \in Nat
  /\ DOMAIN Session = Images /\ DOMAIN Class = Images

Parts == {"train", "val", "test"}
Classes == Range(Class)

VARIABLES
  disk,       \* images under <data-root>/<class>/
  rows,       \* metadata.csv, in the order of its rows
  collector,  \* the image collect.py has saved and not yet recorded
  rendered,   \* what a run of make_pilot.py has saved so far
  plan,       \* what a run of split_dataset.py has still to link, per part
  split,      \* the assignment it works out: the images of each part
  runs,       \* how many runs have begun
  dirs,       \* <data-root>_splits/: what each part's directory lists
  seen        \* what train_finetune.py has loaded of each part

datasetVars == <<disk, rows, collector, rendered, plan, split, runs, dirs, seen>>

Nothing == [p \in Parts |-> {}]

DatasetInit ==
  /\ disk = {} /\ rows = <<>> /\ collector = NoImage /\ rendered = <<>>
  /\ plan = Nothing /\ split = Nothing /\ runs = 0
  /\ dirs = Nothing /\ seen = Nothing

-----------------------------------------------------------------------------
\* collect.py: the image under a new id, then its row.
CollectSave(i) ==
  /\ collector = NoImage /\ i \in Images \ (Pilot \cup disk)
  /\ disk' = disk \cup {i}
  /\ collector' = i
  /\ UNCHANGED <<rows, rendered, plan, split, runs, dirs, seen>>

CollectAppend ==
  /\ collector # NoImage
  /\ rows' = IF collector \in Range(rows) THEN rows ELSE Append(rows, collector)
  /\ collector' = NoImage
  /\ UNCHANGED <<disk, rendered, plan, split, runs, dirs, seen>>

CollectKill ==
  /\ collector # NoImage
  /\ collector' = NoImage
  /\ UNCHANGED <<disk, rows, rendered, plan, split, runs, dirs, seen>>

\* make_pilot.py: the rendered views, then a metadata.csv of them alone, put in
\* place of the one that was there.
PilotSave(i) ==
  /\ i \in Pilot \ disk
  /\ disk' = disk \cup {i}
  /\ rendered' = Append(rendered, i)
  /\ UNCHANGED <<rows, collector, plan, split, runs, dirs, seen>>

PilotWrite ==
  /\ rendered # <<>>
  /\ rows' = rendered
  /\ rendered' = <<>>
  /\ UNCHANGED <<disk, collector, plan, split, runs, dirs, seen>>

PilotKill ==
  /\ rendered # <<>>
  /\ rendered' = <<>>
  /\ UNCHANGED <<disk, rows, collector, plan, split, runs, dirs, seen>>

-----------------------------------------------------------------------------
\* session_aware_split.

GroupByFile(S) == {{i} : i \in S}              \* variant: sessions are ignored

\* group_by_session.
GroupBySession(S) == {{i \in S : Session[i] = s} : s \in {Session[i] : i \in S}}

\* A group counts for the class of its first row.
ClassOf(g, r) ==
  Class[r[CHOOSE n \in DOMAIN r : r[n] \in g /\ \A m \in 1..n - 1 : r[m] \notin g]]

\* max(1, round(n * 0.15)), as Python rounds, if there are three groups to share.
HeldOut(n) ==
  LET whole == (15 * n) \div 100
      rest == (15 * n) % 100
      round == IF rest > 50 \/ (rest = 50 /\ whole % 2 = 1) THEN whole + 1 ELSE whole
  IN IF n < 3 THEN 0 ELSE Max({1, round})

\* The groups G of one class to parts, in any order of the shuffle.
Stratified(G) ==
  {a \in [G -> Parts] : \A p \in {"val", "test"} :
     Cardinality({g \in G : a[g] = p}) = HeldOut(Cardinality(G))}

Smallest(S) == {g \in S : \A h \in S : Cardinality(g) <= Cardinality(h)}

NoDonor(a, p) == {a}                           \* variant: nobody donates

\* A part without the class inherits its smallest group of the train part, or
\* else of the test part.
Inherit(a, p) ==
  LET of(q) == {g \in DOMAIN a : a[g] = q}
      donors == Smallest(IF of("train") # {} THEN of("train") ELSE of("test"))
  IN IF of(p) # {} \/ donors = {} THEN {a} ELSE {[a EXCEPT ![g] = p] : g \in donors}

Rebalance(A, p) == UNION {Inherit(a, p) : a \in A}

SplitOfClass(G) == Rebalance(Rebalance(Rebalance(Stratified(G), "train"), "val"), "test")

\* The images S in the order of the rows r.  No class takes another's groups:
\* each is split on its own.
SessionAwareSplit(S, r) ==
  LET groups == GroupBySession(S)
      splits == [c \in Classes |-> SplitOfClass({g \in groups : ClassOf(g, r) = c})]
  IN {[p \in Parts |-> UNION {g \in groups : f[ClassOf(g, r)][g] = p}] :
        f \in {h \in [Classes -> UNION Range(splits)] : \A c \in Classes : h[c] \in splits[c]}}

-----------------------------------------------------------------------------
\* split_dataset.py reads the rows whose file is there ...
SplitStart ==
  /\ plan = Nothing /\ runs < MaxRuns
  /\ LET S == Range(rows) \cap disk IN
     /\ S # {}
     /\ split' \in SessionAwareSplit(S, rows)
     /\ plan' = split'
  /\ runs' = runs + 1
  /\ UNCHANGED <<disk, rows, collector, rendered, dirs, seen>>

\* ... and links them, train before val before test, into directories nobody
\* empties.  A name that is taken is this very file, linked by an earlier run:
\* the copy that shall replace the link refuses it and ends the run.
SplitLink(p, i) ==
  /\ i \in plan[p]
  /\ p = "val" => plan["train"] = {}
  /\ p = "test" => plan["train"] \cup plan["val"] = {}
  /\ IF i \in dirs[p]
     THEN plan' = Nothing /\ UNCHANGED dirs
     ELSE /\ plan' = [plan EXCEPT ![p] = @ \ {i}]
          /\ dirs' = [dirs EXCEPT ![p] = @ \cup {i}]
  /\ UNCHANGED <<disk, rows, collector, rendered, split, runs, seen>>

SplitKill ==
  /\ plan # Nothing
  /\ plan' = Nothing
  /\ UNCHANGED <<disk, rows, collector, rendered, split, runs, dirs, seen>>

\* train_finetune.py loads train, val and test one after the other by listing
\* their directories; an empty one ends it.
Load(p) ==
  /\ dirs[p] # {}
  /\ p = "train" => seen = Nothing
  /\ p = "val" => seen["train"] # {} /\ seen["val"] = {}
  /\ p = "test" => seen["val"] # {} /\ seen["test"] = {}
  /\ seen' = [seen EXCEPT ![p] = dirs[p]]
  /\ UNCHANGED <<disk, rows, collector, rendered, plan, split, runs, dirs>>

\* It reports and ends, or is killed.
Unload ==
  /\ seen # Nothing
  /\ seen' = Nothing
  /\ UNCHANGED <<disk, rows, collector, rendered, plan, split, runs, dirs>>

DatasetNext ==
  \/ \E i \in Images : CollectSave(i) \/ PilotSave(i)
  \/ CollectAppend \/ CollectKill \/ PilotWrite \/ PilotKill
  \/ SplitStart \/ SplitKill \/ Unload
  \/ \E p \in Parts : Load(p) \/ \E i \in Images : SplitLink(p, i)

DatasetSpec == DatasetInit /\ [][DatasetNext]_datasetVars

-----------------------------------------------------------------------------
(* Properties.                                                              *)

\* "An object never straddles train/val/test": whatever is loaded while the
\* first split is being written, or after it was killed, no session of the
\* training set is validated or tested on.  (A second run adds to the
\* directories of the first, and then it may be.)
TestSetUnseen ==
  runs <= 1 =>
    \A p, q \in Parts : \A i \in seen[p], j \in seen[q] :
      p # q => Session[i] # Session[j]

\* "Final class coverage is enforced": a class is validated as soon as it has
\* one group, tested from two on, and trained from three on.
SplitCovers ==
  split # Nothing =>
    LET all == UNION {split[p] : p \in Parts}
        groups(c) == {s \in Range(Session) :
                        \E i \in all : Session[i] = s
                        /\ \A j \in all : Session[j] = s => Class[j] = c}
        has(p, c) == \E i \in split[p] : Class[i] = c IN
    \A c \in Classes :
      LET n == Cardinality(groups(c)) IN
      /\ n >= 1 => has("val", c)
      /\ n >= 2 => has("test", c)
      /\ n >= 3 => has("train", c)
=============================================================================
