------------------------ MODULE RunPublicationProofs ------------------------
(***************************************************************************)
(* The theorems about RunPublication, for any attempts, ids, datasets and  *)
(* policies.                                                               *)
(***************************************************************************)
EXTENDS RunPublication, TLAPS, SequenceTheorems

LEMMA PutProperties ==
    ASSUME NEW tree, NEW name, NEW files
    PROVE  /\ DOMAIN Put(tree, name, files) = DOMAIN tree \cup {name}
           /\ Put(tree, name, files)[name] = files
           /\ \A n \in DOMAIN tree : n # name => Put(tree, name, files)[n] = tree[n]
  BY DEF Put

LEMMA DropProperties ==
    ASSUME NEW tree, NEW name
    PROVE  /\ DOMAIN Drop(tree, name) = DOMAIN tree \ {name}
           /\ \A n \in DOMAIN tree : n # name => Drop(tree, name)[n] = tree[n]
  BY DEF Drop

LEMMA TreeTypes ==
    ASSUME NEW V, NEW tree, tree \in [DOMAIN tree -> V], NEW name, NEW files \in V
    PROVE  /\ Put(tree, name, files) \in [DOMAIN Put(tree, name, files) -> V]
           /\ Drop(tree, name) \in [DOMAIN Drop(tree, name) -> V]
           /\ name \in DOMAIN tree => tree = Put(tree, name, tree[name])
<1>1. Put(tree, name, files) \in [DOMAIN tree \cup {name} -> V]
  BY DEF Put
<1>2. Drop(tree, name) \in [DOMAIN tree \ {name} -> V]
  BY DEF Drop
<1>3. ASSUME name \in DOMAIN tree
      PROVE  tree = Put(tree, name, tree[name])
  <2>1. DOMAIN tree \cup {name} = DOMAIN tree
    BY <1>3
  <2>2. tree = [n \in DOMAIN tree |-> tree[n]]
    OBVIOUS
  <2>3. tree = [n \in DOMAIN tree |-> IF n = name THEN tree[name] ELSE tree[n]]
    BY <2>2
  <2> QED
    BY <2>1, <2>3 DEF Put
<1>4. QED
  BY <1>1, <1>2, <1>3, PutProperties, DropProperties

\* A versioned name is a name of the same run.
LEMMA NamesFit ==
    /\ \A a \in Attempts : <<RunId[a]>> \in Names /\ <<RunId[a]>>[1] = RunId[a]
    /\ \A name \in Names, v \in Nat : name \o <<v>> \in Names /\ (name \o <<v>>)[1] = name[1]
<1> DEFINE Part == Nat \cup {RunId[a] : a \in Attempts}
<1>1. ASSUME NEW a \in Attempts
      PROVE  <<RunId[a]>> \in Names /\ <<RunId[a]>>[1] = RunId[a]
  <2>1. <<RunId[a]>> \in Seq(Part) /\ Len(<<RunId[a]>>) = 1
    OBVIOUS
  <2>2. <<RunId[a]>> # <<>>
    BY <2>1
  <2> QED
    BY <2>1, <2>2 DEF Names
<1>2. ASSUME NEW name \in Names, NEW v \in Nat
      PROVE  name \o <<v>> \in Names /\ (name \o <<v>>)[1] = name[1]
  <2>1. name \in Seq(Part) /\ name # <<>> /\ <<v>> \in Seq(Part) /\ Len(<<v>>) = 1
    BY DEF Names
  <2> HIDE DEF Part
  <2>2. Len(name) \in Nat /\ Len(name) >= 1
    BY <2>1, EmptySeq
  <2>3. /\ name \o <<v>> \in Seq(Part)
        /\ Len(name \o <<v>>) = Len(name) + 1
        /\ (name \o <<v>>)[1] = name[1]
    BY <2>1, <2>2, ConcatProperties
  <2>4. name \o <<v>> # <<>>
    BY <2>2, <2>3
  <2> QED
    BY <2>3, <2>4 DEF Names, Part
<1>3. QED
  BY <1>1, <1>2

\* The staging invariant, when one attempt takes a step in its own directory.
LEMMA StagingStep ==
    ASSUME TypeOK, StagingInv, NEW a \in Attempts,
           up' = up,
           \A b \in Attempts \ {a} : /\ pc'[b] = pc[b] /\ todo'[b] = todo[b]
                                     /\ base'[b] = base[b]
                                     /\ Running(b) => RunId[b] # RunId[a],
           \A n \in DOMAIN staging : n[1] # RunId[a] =>
               n \in DOMAIN staging' /\ staging'[n] = staging[n],
           pc'[a] \in {"idle", "clearing"} => todo'[a] = Datasets,
           Running(a)' =>
               /\ base'[a] \in DOMAIN staging' /\ base'[a] \in Names
               /\ base'[a][1] = RunId[a]
               /\ pc'[a] = "writing" => staging'[base'[a]] = (Datasets \ todo'[a]) \X {a}
               /\ pc'[a] \in {"publishing", "removing", "renaming"} =>
                      staging'[base'[a]] = Files \X {a}
    PROVE  StagingInv'
<1>1. \A b \in Attempts \ {a} : Running(b)' <=> Running(b)
  BY DEF Running
<1>2. \A b \in Attempts \ {a} : Running(b) =>
          base[b] \in DOMAIN staging' /\ staging'[base[b]] = staging[base[b]]
  BY DEF StagingInv
<1>3. \A b, c \in Attempts : b # c /\ Running(b)' /\ Running(c)' => RunId[b] # RunId[c]
  BY <1>1 DEF StagingInv
<1>4. \A b \in Attempts : pc'[b] \in {"idle", "clearing"} => todo'[b] = Datasets
  BY DEF StagingInv
<1>5. \A b \in Attempts : Running(b)' =>
          base'[b] \in DOMAIN staging' /\ base'[b] \in Names /\ base'[b][1] = RunId[b]
  BY <1>1, <1>2 DEF StagingInv
<1>6. \A b \in Attempts : Running(b)' =>
          /\ pc'[b] = "writing" => staging'[base'[b]] = (Datasets \ todo'[b]) \X {b}
          /\ pc'[b] \in {"publishing", "removing", "renaming"} =>
                 staging'[base'[b]] = Files \X {b}
  <2>1. \A b \in Attempts \ {a} : Running(b)' =>
            /\ pc'[b] = "writing" => staging'[base'[b]] = (Datasets \ todo'[b]) \X {b}
            /\ pc'[b] \in {"publishing", "removing", "renaming"} =>
                   staging'[base'[b]] = Files \X {b}
    BY <1>1, <1>2 DEF StagingInv
  <2> QED
    BY <2>1
<1>7. QED
  BY <1>3, <1>4, <1>5, <1>6 DEF StagingInv

\* What is below runs/ and in the reader's hands is as good as it was when a
\* step touches neither.
LEMMA RunsUntouched ==
    ASSUME PublicationInv, NEW a \in Attempts, pc[a] \notin {"removing", "done"},
           UNCHANGED <<policy, runs, readerVars>>,
           \A b \in Attempts \ {a} : pc'[b] = pc[b] /\ target'[b] = target[b]
    PROVE  PublishedRunsAreWhole' /\ FailuresPublishNothing' /\ ReaderInv'
<1>1. PublishedRunsAreWhole'
  BY DEF PublicationInv, PublishedRunsAreWhole, Whole
<1>2. FailuresPublishNothing'
  BY DEF PublicationInv, FailuresPublishNothing
<1>3. ReaderInv'
  BY DEF PublicationInv, ReaderInv, readerVars
<1>4. QED
  BY <1>1, <1>2, <1>3
-----------------------------------------------------------------------------
(* The steps of an attempt.                                                *)

LEMMA CreateKeeps ==
    ASSUME PublicationInv, NEW a \in Attempts, Create(a)
    PROVE  PublicationInv'
<1> DEFINE name == <<RunId[a]>>
<1>1. /\ pc[a] = "idle" /\ todo[a] = Datasets
      /\ \A b \in Attempts \ {a} : Running(b) => RunId[b] # RunId[a]
      /\ UNCHANGED <<policy, runs, up, todo, target, readerVars>>
  BY DEF Create, PublicationInv, StagingInv
<1>2. TypeOK
  BY DEF PublicationInv
<1>3. \/ \E dir \in Names : dir[1] = RunId[a] /\ Mkdir(a, dir)
      \/ pc' = [pc EXCEPT ![a] = "failed"] /\ UNCHANGED <<staging, base>>
      \/ /\ pc' = [pc EXCEPT ![a] = "clearing"] /\ UNCHANGED staging
         /\ base' = [base EXCEPT ![a] = name] /\ name \in DOMAIN staging
         /\ name \in Names /\ name[1] = RunId[a]
  <2>1. name \in Names /\ name[1] = RunId[a]
    BY NamesFit
  <2>2. \A dir \in NextVersion(staging, name) : dir \in Names /\ dir[1] = RunId[a]
    <3> SUFFICES ASSUME NEW dir \in NextVersion(staging, name)
                 PROVE  dir \in Names /\ dir[1] = RunId[a]
      OBVIOUS
    <3>1. PICK v \in 2..MaxVersion : dir = name \o <<v>>
      BY DEF NextVersion
    <3>2. v \in Nat
      BY PublicationConstants
    <3> HIDE DEF name
    <3> QED
      BY <2>1, <3>1, <3>2, NamesFit
  <2> QED
    BY <2>1, <2>2 DEF Create, Goto
<1>4. /\ \A b \in Attempts \ {a} : pc'[b] = pc[b] /\ base'[b] = base[b]
      /\ pc' \in [Attempts -> Places] /\ base' \in [Attempts -> Names \cup {NoRun}]
      /\ pc'[a] \in {"failed", "clearing", "writing"}
  BY <1>2, <1>3 DEF TypeOK, Mkdir, Goto, Places
<1>5. /\ \A n \in DOMAIN staging : n[1] # RunId[a] =>
             n \in DOMAIN staging' /\ staging'[n] = staging[n]
      /\ DOMAIN staging' \subseteq Names
      /\ staging' \in [DOMAIN staging' -> SUBSET (Files \X Attempts)]
      /\ pc'[a] \in {"clearing", "writing"} =>
             /\ base'[a] \in DOMAIN staging' /\ base'[a] \in Names
             /\ base'[a][1] = RunId[a]
      /\ pc'[a] = "writing" => staging'[base'[a]] = {}
  <2>1. CASE \E dir \in Names : dir[1] = RunId[a] /\ Mkdir(a, dir)
    <3>1. PICK dir \in Names : dir[1] = RunId[a] /\ Mkdir(a, dir)
      BY <2>1
    <3>2. staging' = Put(staging, dir, {}) /\ base'[a] = dir
      BY <1>2, <3>1 DEF Mkdir, TypeOK
    <3>3. /\ DOMAIN staging' = DOMAIN staging \cup {dir} /\ staging'[dir] = {}
          /\ \A n \in DOMAIN staging : n # dir => staging'[n] = staging[n]
      <4>1. /\ DOMAIN Put(staging, dir, {}) = DOMAIN staging \cup {dir}
            /\ Put(staging, dir, {})[dir] = {}
            /\ \A n \in DOMAIN staging : n # dir => Put(staging, dir, {})[n] = staging[n]
        BY DEF Put
      <4> QED
        BY <3>2, <4>1
    <3>4. staging' \in [DOMAIN staging' -> SUBSET (Files \X Attempts)]
      <4>1. staging \in [DOMAIN staging -> SUBSET (Files \X Attempts)]
        BY <1>2 DEF TypeOK
      <4> QED
        BY <3>2, <4>1, TreeTypes
    <3>5. DOMAIN staging \subseteq Names
      BY <1>2 DEF TypeOK
    <3>6. pc'[a] = "writing"
      BY <1>2, <3>1 DEF Mkdir, Goto, TypeOK
    <3>7. DOMAIN staging' \subseteq Names
      BY <3>1, <3>3, <3>5
    <3>8. \A n \in DOMAIN staging : n[1] # RunId[a] =>
              n \in DOMAIN staging' /\ staging'[n] = staging[n]
      BY <3>1, <3>3
    <3> QED
      BY <3>1, <3>2, <3>3, <3>4, <3>7, <3>8
  <2>2. CASE pc' = [pc EXCEPT ![a] = "failed"] /\ UNCHANGED <<staging, base>>
    BY <1>2, <2>2 DEF TypeOK
  <2>3. CASE /\ pc' = [pc EXCEPT ![a] = "clearing"] /\ UNCHANGED staging
             /\ base' = [base EXCEPT ![a] = name] /\ name \in DOMAIN staging
             /\ name \in Names /\ name[1] = RunId[a]
    <3> HIDE DEF name
    <3> QED
      BY <1>2, <2>3 DEF TypeOK
  <2> QED
    BY <1>3, <2>1, <2>2, <2>3
<1>6. StagingInv'
  <2>1. Running(a)' =>
            /\ base'[a] \in DOMAIN staging' /\ base'[a] \in Names
            /\ base'[a][1] = RunId[a]
            /\ pc'[a] = "writing" => staging'[base'[a]] = (Datasets \ todo'[a]) \X {a}
            /\ pc'[a] \in {"publishing", "removing", "renaming"} =>
                   staging'[base'[a]] = Files \X {a}
    BY <1>1, <1>4, <1>5 DEF Running
  <2> QED
    BY <1>1, <1>2, <1>4, <1>5, <2>1, StagingStep DEF PublicationInv
<1>7. TypeOK'
  BY <1>1, <1>2, <1>4, <1>5 DEF TypeOK, readerVars
<1>8. TargetInv'
  BY <1>1, <1>4 DEF PublicationInv, TargetInv
<1>9. PublishedRunsAreWhole' /\ FailuresPublishNothing' /\ ReaderInv'
  BY <1>1, <1>4, RunsUntouched
<1>10. QED
  BY <1>6, <1>7, <1>8, <1>9 DEF PublicationInv

\* A step within the staging directory of a running attempt.
LEMMA StagingOnly ==
    ASSUME PublicationInv, NEW a \in Attempts, Running(a),
           pc[a] \in {"clearing", "writing", "cleaning"},
           NEW place \in {"clearing", "writing", "cleaning", "publishing", "failed"},
           pc' = [pc EXCEPT ![a] = place],
           NEW left \in SUBSET Datasets, todo' = [todo EXCEPT ![a] = left],
           UNCHANGED <<policy, runs, up, base, target, readerVars>>,
           place = "clearing" => left = Datasets,
           \/ place = "failed" /\ staging' = Drop(staging, base[a])
           \/ \E files \in SUBSET (Files \X Attempts) :
                  /\ staging' = Put(staging, base[a], files)
                  /\ place = "writing" => files = (Datasets \ left) \X {a}
                  /\ place = "publishing" => files = Files \X {a}
    PROVE  PublicationInv'
<1>1. TypeOK /\ StagingInv
  BY DEF PublicationInv
<1>2. /\ base[a] \in DOMAIN staging /\ base[a] \in Names /\ base[a][1] = RunId[a]
      /\ \A b \in Attempts \ {a} : Running(b) => RunId[b] # RunId[a]
  BY <1>1 DEF StagingInv
<1>3. /\ pc'[a] = place /\ todo'[a] = left
      /\ \A b \in Attempts \ {a} : pc'[b] = pc[b] /\ todo'[b] = todo[b]
      /\ pc' \in [Attempts -> Places] /\ todo' \in [Attempts -> SUBSET Datasets]
  BY <1>1 DEF TypeOK, Places
<1>4. /\ \A n \in DOMAIN staging : n # base[a] =>
             n \in DOMAIN staging' /\ staging'[n] = staging[n]
      /\ DOMAIN staging' \subseteq Names
      /\ staging' \in [DOMAIN staging' -> SUBSET (Files \X Attempts)]
      /\ place # "failed" => base[a] \in DOMAIN staging'
      /\ place = "writing" => staging'[base[a]] = (Datasets \ left) \X {a}
      /\ place = "publishing" => staging'[base[a]] = Files \X {a}
  <2>0. staging \in [DOMAIN staging -> SUBSET (Files \X Attempts)]
    BY <1>1 DEF TypeOK
  <2>3. DOMAIN staging \subseteq Names
    BY <1>1 DEF TypeOK
  <2>1. CASE place = "failed" /\ staging' = Drop(staging, base[a])
    <3>1. staging' \in [DOMAIN staging' -> SUBSET (Files \X Attempts)]
      BY <2>0, <2>1, TreeTypes
    <3>2. /\ DOMAIN staging' = DOMAIN staging \ {base[a]}
          /\ \A n \in DOMAIN staging : n # base[a] => staging'[n] = staging[n]
      BY <2>1, DropProperties
    <3> QED
      BY <2>1, <2>3, <3>1, <3>2
  <2>2. CASE \E files \in SUBSET (Files \X Attempts) :
                 /\ staging' = Put(staging, base[a], files)
                 /\ place = "writing" => files = (Datasets \ left) \X {a}
                 /\ place = "publishing" => files = Files \X {a}
    <3>1. PICK files \in SUBSET (Files \X Attempts) :
                 /\ staging' = Put(staging, base[a], files)
                 /\ place = "writing" => files = (Datasets \ left) \X {a}
                 /\ place = "publishing" => files = Files \X {a}
      BY <2>2
    <3>2. /\ DOMAIN staging' = DOMAIN staging \cup {base[a]} /\ staging'[base[a]] = files
          /\ \A n \in DOMAIN staging : n # base[a] => staging'[n] = staging[n]
      <4>1. /\ DOMAIN Put(staging, base[a], files) = DOMAIN staging \cup {base[a]}
            /\ Put(staging, base[a], files)[base[a]] = files
            /\ \A n \in DOMAIN staging :
                   n # base[a] => Put(staging, base[a], files)[n] = staging[n]
        BY DEF Put
      <4> QED
        BY <3>1, <4>1
    <3>3. staging' \in [DOMAIN staging' -> SUBSET (Files \X Attempts)]
      BY <2>0, <3>1, TreeTypes
    <3> QED
      BY <1>2, <2>3, <3>1, <3>2, <3>3
  <2> QED
    BY <2>1, <2>2
<1>5. StagingInv'
  <2>1. Running(a)' =>
            /\ base'[a] \in DOMAIN staging' /\ base'[a] \in Names
            /\ base'[a][1] = RunId[a]
            /\ pc'[a] = "writing" => staging'[base'[a]] = (Datasets \ todo'[a]) \X {a}
            /\ pc'[a] \in {"publishing", "removing", "renaming"} =>
                   staging'[base'[a]] = Files \X {a}
    BY <1>2, <1>3, <1>4 DEF Running
  <2>2. \A n \in DOMAIN staging : n[1] # RunId[a] =>
            n \in DOMAIN staging' /\ staging'[n] = staging[n]
    BY <1>2, <1>4
  <2>3. pc'[a] \in {"idle", "clearing"} => todo'[a] = Datasets
    BY <1>3
  <2> QED
    BY <1>1, <1>2, <1>3, <2>1, <2>2, <2>3, StagingStep
<1>6. TypeOK'
  BY <1>1, <1>3, <1>4 DEF TypeOK, readerVars
<1>7. TargetInv'
  BY <1>3 DEF PublicationInv, TargetInv
<1>8. PublishedRunsAreWhole' /\ FailuresPublishNothing' /\ ReaderInv'
  BY <1>3, RunsUntouched
<1>9. QED
  BY <1>5, <1>6, <1>7, <1>8 DEF PublicationInv

LEMMA InBlockKeeps ==
    ASSUME PublicationInv, NEW a \in Attempts,
           Clear(a) \/ WriteOne(a) \/ WriteManifest(a) \/ RaiseInBlock(a) \/ Cleanup(a)
    PROVE  PublicationInv'
<1>1. /\ TypeOK /\ StagingInv /\ Running(a)
      /\ UNCHANGED <<policy, runs, up, base, target, readerVars>>
  BY DEF PublicationInv, Running, Clear, WriteOne, WriteManifest, RaiseInBlock, Cleanup,
         treeVars
<1>2. /\ base[a] \in DOMAIN staging /\ staging[base[a]] \in SUBSET (Files \X Attempts)
      /\ staging = Put(staging, base[a], staging[base[a]])
      /\ todo[a] \in SUBSET Datasets /\ todo = [todo EXCEPT ![a] = todo[a]]
      /\ pc = [pc EXCEPT ![a] = pc[a]]
      /\ pc[a] = "clearing" => todo[a] = Datasets
      /\ pc[a] = "writing" => staging[base[a]] = (Datasets \ todo[a]) \X {a}
  <2>1. base[a] \in DOMAIN staging /\ staging[base[a]] \in SUBSET (Files \X Attempts)
    BY <1>1 DEF TypeOK, StagingInv
  <2>2. staging \in [DOMAIN staging -> SUBSET (Files \X Attempts)]
    BY <1>1 DEF TypeOK
  <2>3. staging = Put(staging, base[a], staging[base[a]])
    BY <2>1, <2>2, TreeTypes
  <2> QED
    BY <1>1, <2>1, <2>3 DEF TypeOK, StagingInv
<1> DEFINE dir == staging[base[a]]
<1>3. CASE Clear(a)
  <2>1. \/ \E files \in OneLess(dir) : /\ staging' = Put(staging, base[a], files)
                                       /\ pc' = [pc EXCEPT ![a] = "clearing"]
        \/ /\ dir = {} /\ staging' = Put(staging, base[a], {})
           /\ pc' = [pc EXCEPT ![a] = "writing"]
    BY <1>2, <1>3 DEF Clear, Goto
  <2>2. /\ pc[a] = "clearing" /\ todo[a] = Datasets
        /\ todo' = [todo EXCEPT ![a] = Datasets]
    BY <1>2, <1>3 DEF Clear
  <2>3. \A files \in OneLess(dir) : files \in SUBSET (Files \X Attempts)
    BY <1>2 DEF OneLess
  <2>4. {} = (Datasets \ Datasets) \X {a} /\ {} \in SUBSET (Files \X Attempts)
    OBVIOUS
  <2> HIDE DEF dir
  <2>5. CASE \E files \in OneLess(dir) : /\ staging' = Put(staging, base[a], files)
                                         /\ pc' = [pc EXCEPT ![a] = "clearing"]
    BY <1>1, <2>2, <2>3, <2>5, StagingOnly
  <2>6. CASE /\ dir = {} /\ staging' = Put(staging, base[a], {})
             /\ pc' = [pc EXCEPT ![a] = "writing"]
    BY <1>1, <2>2, <2>4, <2>6, StagingOnly
  <2> QED
    BY <2>1, <2>5, <2>6
<1>4. CASE WriteOne(a)
  <2>1. PICK d \in todo[a] :
            /\ \E kept \in IF d \in Partitioned THEN SUBSET {e \in dir : e[1] = d} ELSE {{}} :
                   staging' = Put(staging, base[a],
                                  (dir \ {e \in dir : e[1] = d}) \cup kept \cup {<<d, a>>})
            /\ todo' = [todo EXCEPT ![a] = @ \ {d}]
    BY <1>4 DEF WriteOne
  <2>2. /\ pc[a] = "writing" /\ pc' = [pc EXCEPT ![a] = "writing"]
        /\ dir = (Datasets \ todo[a]) \X {a}
    BY <1>2, <1>4 DEF WriteOne
  <2>3. {e \in dir : e[1] = d} = {}
    BY <1>2, <2>1, <2>2
  <2> DEFINE left == todo[a] \ {d}
             files == (Datasets \ left) \X {a}
  <2>4. staging' = Put(staging, base[a], dir \cup {<<d, a>>})
    <3>1. PICK kept \in IF d \in Partitioned THEN SUBSET {e \in dir : e[1] = d} ELSE {{}} :
              staging' = Put(staging, base[a],
                             (dir \ {e \in dir : e[1] = d}) \cup kept \cup {<<d, a>>})
      BY <2>1
    <3>2. kept = {}
      BY <2>3, <3>1
    <3>3. (dir \ {e \in dir : e[1] = d}) \cup kept \cup {<<d, a>>} = dir \cup {<<d, a>>}
      BY <2>3, <3>2
    <3> QED
      BY <3>1, <3>3
  <2>5. dir \cup {<<d, a>>} = files /\ files \in SUBSET (Files \X Attempts)
    BY <1>2, <2>1, <2>2 DEF Files
  <2>6. /\ left \in SUBSET Datasets /\ todo' = [todo EXCEPT ![a] = left]
        /\ staging' = Put(staging, base[a], files)
    BY <1>2, <2>1, <2>4, <2>5
  <2> HIDE DEF left, dir
  <2> QED
    BY <1>1, <2>2, <2>5, <2>6, StagingOnly
<1>5. CASE WriteManifest(a)
  <2>1. /\ pc[a] = "writing" /\ todo[a] = {} /\ pc' = [pc EXCEPT ![a] = "publishing"]
        /\ staging' = Put(staging, base[a],
                          {e \in dir : e[1] # Manifest} \cup {<<Manifest, a>>})
        /\ todo' = [todo EXCEPT ![a] = {}]
    BY <1>2, <1>5 DEF WriteManifest, Goto
  <2>2. dir = Datasets \X {a}
    BY <1>2, <2>1
  <2>3. {e \in dir : e[1] # Manifest} \cup {<<Manifest, a>>} = Files \X {a}
    BY <2>2, PublicationConstants DEF Files
  <2>4. staging' = Put(staging, base[a], Files \X {a})
    BY <2>1, <2>3
  <2>5. Files \X {a} \in SUBSET (Files \X Attempts)
    OBVIOUS
  <2> HIDE DEF dir
  <2> QED
    BY <1>1, <2>1, <2>4, <2>5, StagingOnly
<1>6. CASE RaiseInBlock(a)
  <2>1. /\ pc[a] = "writing" /\ pc' = [pc EXCEPT ![a] = "cleaning"]
        /\ staging' = Put(staging, base[a], dir)
        /\ todo' = [todo EXCEPT ![a] = todo[a]]
    BY <1>2, <1>6 DEF RaiseInBlock, Goto, treeVars
  <2> HIDE DEF dir
  <2>2. dir \in SUBSET (Files \X Attempts)
    BY <1>2 DEF dir
  <2> QED
    BY <1>1, <1>2, <2>1, <2>2, StagingOnly
<1>7. CASE Cleanup(a)
  <2>1. \/ \E files \in OneLess(dir) : /\ staging' = Put(staging, base[a], files)
                                       /\ pc' = [pc EXCEPT ![a] = "cleaning"]
        \/ /\ staging' = Drop(staging, base[a])
           /\ pc' = [pc EXCEPT ![a] = "failed"]
    BY <1>2, <1>7 DEF Cleanup, Goto
  <2>2. pc[a] = "cleaning" /\ todo' = [todo EXCEPT ![a] = todo[a]]
    BY <1>2, <1>7 DEF Cleanup
  <2>3. \A files \in OneLess(dir) : files \in SUBSET (Files \X Attempts)
    BY <1>2 DEF OneLess
  <2> HIDE DEF dir
  <2>4. CASE \E files \in OneLess(dir) : /\ staging' = Put(staging, base[a], files)
                                         /\ pc' = [pc EXCEPT ![a] = "cleaning"]
    BY <1>1, <1>2, <2>2, <2>3, <2>4, StagingOnly
  <2>5. CASE staging' = Drop(staging, base[a]) /\ pc' = [pc EXCEPT ![a] = "failed"]
    BY <1>1, <1>2, <2>2, <2>5, StagingOnly
  <2> QED
    BY <2>1, <2>4, <2>5
<1>8. QED
  BY <1>3, <1>4, <1>5, <1>6, <1>7
LEMMA PublishKeeps ==
    ASSUME PublicationInv, NEW a \in Attempts, Publish(a)
    PROVE  PublicationInv'
<1>1. /\ TypeOK /\ StagingInv /\ Running(a) /\ pc[a] = "publishing"
      /\ UNCHANGED <<policy, staging, runs, up, todo, base, readerVars>>
      /\ base[a] \in Names /\ base[a][1] = RunId[a]
  BY DEF PublicationInv, Running, Publish, treeVars, StagingInv
<1>2. \/ pc' = [pc EXCEPT ![a] = "failed"] /\ target' = target
      \/ /\ pc' = [pc EXCEPT ![a] = "removing"]
         /\ target' = [target EXCEPT ![a] = base[a]]
         /\ policy = "replace" /\ base[a] \in DOMAIN runs
      \/ /\ pc' = [pc EXCEPT ![a] = "renaming"]
         /\ \E name \in Names : /\ name[1] = RunId[a]
                                /\ target' = [target EXCEPT ![a] = name]
  <2>1. \A name \in NextVersion(runs, base[a]) : name \in Names /\ name[1] = RunId[a]
    <3> SUFFICES ASSUME NEW name \in NextVersion(runs, base[a])
                 PROVE  name \in Names /\ name[1] = RunId[a]
      OBVIOUS
    <3>1. PICK v \in 2..MaxVersion : name = base[a] \o <<v>>
      BY DEF NextVersion
    <3>2. v \in Nat
      BY PublicationConstants
    <3> QED
      BY <1>1, <3>1, <3>2, NamesFit
  <2> QED
    BY <1>1, <2>1 DEF Publish, Goto
<1>3. /\ \A b \in Attempts \ {a} : pc'[b] = pc[b] /\ target'[b] = target[b]
      /\ pc' \in [Attempts -> Places] /\ target' \in [Attempts -> Names \cup {NoRun}]
      /\ pc'[a] \in {"failed", "removing", "renaming"}
      /\ pc'[a] = "removing" =>
             policy = "replace" /\ target'[a] \in DOMAIN runs
      /\ pc'[a] \in {"removing", "renaming"} =>
             target'[a] \in Names /\ target'[a][1] = RunId[a]
  BY <1>1, <1>2 DEF TypeOK, Places
<1>4. StagingInv'
  <2>1. Running(a)' =>
            /\ base'[a] \in DOMAIN staging' /\ base'[a] \in Names
            /\ base'[a][1] = RunId[a]
            /\ pc'[a] = "writing" => staging'[base'[a]] = (Datasets \ todo'[a]) \X {a}
            /\ pc'[a] \in {"publishing", "removing", "renaming"} =>
                   staging'[base'[a]] = Files \X {a}
    BY <1>1, <1>3 DEF StagingInv
  <2>2. \A b \in Attempts \ {a} : Running(b) => RunId[b] # RunId[a]
    BY <1>1 DEF StagingInv
  <2> QED
    BY <1>1, <1>3, <2>1, <2>2, StagingStep
<1>5. TypeOK'
  BY <1>1, <1>3 DEF TypeOK, readerVars
<1>6. TargetInv'
  BY <1>1, <1>3 DEF PublicationInv, TargetInv
<1>7. PublishedRunsAreWhole' /\ FailuresPublishNothing' /\ ReaderInv'
  BY <1>1, <1>3, RunsUntouched
<1>8. QED
  BY <1>4, <1>5, <1>6, <1>7 DEF PublicationInv

LEMMA KillKeeps ==
    ASSUME PublicationInv, NEW a \in Attempts, Kill(a)
    PROVE  PublicationInv'
<1>1. /\ UNCHANGED <<policy, staging, runs, pc, todo, base, target, readerVars>>
      /\ up' = [up EXCEPT ![a] = FALSE] /\ up' \in [Attempts -> BOOLEAN]
  BY DEF PublicationInv, TypeOK, Kill, treeVars
<1>2. \A b \in Attempts : (up'[b] => up[b]) /\ (Running(b)' => Running(b))
  BY <1>1 DEF Running, PublicationInv, TypeOK
<1>3. StagingInv'
  BY <1>1, <1>2 DEF PublicationInv, StagingInv
<1>4. TargetInv'
  BY <1>1, <1>2 DEF PublicationInv, TargetInv
<1>5. QED
  BY <1>1, <1>3, <1>4
  DEF PublicationInv, TypeOK, ReaderInv, PublishedRunsAreWhole, FailuresPublishNothing,
      Whole, readerVars

LEMMA RemoveFinalKeeps ==
    ASSUME PublicationInv, NEW a \in Attempts, RemoveFinal(a)
    PROVE  PublicationInv'
<1>1. /\ TypeOK /\ StagingInv /\ Running(a) /\ up[a] /\ pc[a] = "removing"
      /\ UNCHANGED <<policy, staging, up, todo, base, target, readerVars>>
      /\ policy = "replace" /\ target[a] \in Names /\ target[a] \in DOMAIN runs
  BY DEF PublicationInv, Running, RemoveFinal, TargetInv
<1>2. runs \in [DOMAIN runs -> SUBSET (Files \X Attempts)] /\ DOMAIN runs \subseteq Names
  BY <1>1 DEF TypeOK
<1>3. \/ /\ \E left \in SUBSET runs[target[a]] : runs' = Put(runs, target[a], left)
         /\ pc' = pc
      \/ runs' = Drop(runs, target[a]) /\ pc' = [pc EXCEPT ![a] = "renaming"]
  BY DEF RemoveFinal, OneLess, Goto
<1>4. /\ runs' \in [DOMAIN runs' -> SUBSET (Files \X Attempts)]
      /\ DOMAIN runs' \subseteq DOMAIN runs
      /\ \A n \in DOMAIN runs : n # target[a] => n \in DOMAIN runs'
      /\ \A n \in DOMAIN runs' : runs'[n] \subseteq runs[n]
      /\ \A n \in DOMAIN runs' : n # target[a] => runs'[n] = runs[n]
      /\ \A b \in Attempts \ {a} : pc'[b] = pc[b]
      /\ pc' \in [Attempts -> Places] /\ pc'[a] \in {"removing", "renaming"}
      /\ pc'[a] = "removing" => target[a] \in DOMAIN runs'
      /\ pc'[a] # "removing" => target[a] \notin DOMAIN runs'
  <2>1. CASE /\ \E left \in SUBSET runs[target[a]] : runs' = Put(runs, target[a], left)
             /\ pc' = pc
    <3>1. PICK left \in SUBSET runs[target[a]] : runs' = Put(runs, target[a], left)
      BY <2>1
    <3>2. left \in SUBSET (Files \X Attempts)
      BY <1>1, <1>2
    <3>3. runs' \in [DOMAIN runs' -> SUBSET (Files \X Attempts)]
      BY <1>2, <3>1, <3>2, TreeTypes
    <3>4. /\ DOMAIN Put(runs, target[a], left) = DOMAIN runs \cup {target[a]}
          /\ Put(runs, target[a], left)[target[a]] = left
          /\ \A n \in DOMAIN runs :
                 n # target[a] => Put(runs, target[a], left)[n] = runs[n]
      BY DEF Put
    <3>5. /\ DOMAIN runs' = DOMAIN runs /\ runs'[target[a]] = left
          /\ \A n \in DOMAIN runs : n # target[a] => runs'[n] = runs[n]
      BY <1>1, <3>1, <3>4
    <3>6. pc \in [Attempts -> Places]
      BY <1>1 DEF TypeOK
    <3> QED
      BY <1>1, <2>1, <3>3, <3>5, <3>6
  <2>2. CASE runs' = Drop(runs, target[a]) /\ pc' = [pc EXCEPT ![a] = "renaming"]
    <3>1. runs' \in [DOMAIN runs' -> SUBSET (Files \X Attempts)]
      BY <1>2, <2>2, TreeTypes
    <3>2. /\ DOMAIN runs' = DOMAIN runs \ {target[a]}
          /\ \A n \in DOMAIN runs : n # target[a] => runs'[n] = runs[n]
      BY <2>2, DropProperties
    <3>3. pc \in [Attempts -> Places]
      BY <1>1 DEF TypeOK
    <3>4. /\ \A b \in Attempts \ {a} : pc'[b] = pc[b]
          /\ pc' \in [Attempts -> Places] /\ pc'[a] = "renaming"
      BY <2>2, <3>3 DEF Places
    <3> QED
      BY <3>1, <3>2, <3>4
  <2> QED
    BY <1>3, <2>1, <2>2
<1>5. StagingInv'
  <2>1. Running(a)' =>
            /\ base'[a] \in DOMAIN staging' /\ base'[a] \in Names
            /\ base'[a][1] = RunId[a]
            /\ pc'[a] = "writing" => staging'[base'[a]] = (Datasets \ todo'[a]) \X {a}
            /\ pc'[a] \in {"publishing", "removing", "renaming"} =>
                   staging'[base'[a]] = Files \X {a}
    BY <1>1, <1>4 DEF StagingInv
  <2>2. \A b \in Attempts \ {a} : Running(b) => RunId[b] # RunId[a]
    BY <1>1 DEF StagingInv
  <2> QED
    BY <1>1, <1>4, <2>1, <2>2, StagingStep
<1>6. TypeOK'
  <2>1. DOMAIN runs' \subseteq Names
    BY <1>2, <1>4
  <2> QED
    BY <1>1, <1>4, <2>1 DEF TypeOK, readerVars
<1>7. TargetInv'
  <2>1. \A b \in Attempts \ {a} : pc[b] = "removing" /\ up[b] => target[b] # target[a]
    <3> SUFFICES ASSUME NEW b \in Attempts \ {a}, pc[b] = "removing", up[b]
                 PROVE  target[b] # target[a]
      OBVIOUS
    <3>1. Running(b) /\ RunId[b] # RunId[a]
      BY <1>1 DEF Running, StagingInv
    <3>2. target[b][1] = RunId[b] /\ target[a][1] = RunId[a]
      BY <1>1 DEF PublicationInv, TargetInv
    <3> QED
      BY <3>1, <3>2
  <2>2. \A b \in Attempts \ {a} : pc[b] = "removing" /\ up[b] =>
            target[b] \in DOMAIN runs /\ target[b] \in DOMAIN runs'
    <3> QED
      BY <1>4, <2>1 DEF PublicationInv, TargetInv
  <2>3. \A b \in Attempts : /\ pc'[b] = "removing" => policy' = "replace"
                            /\ pc'[b] \in {"removing", "renaming"} =>
                                   target'[b] \in Names /\ target'[b][1] = RunId[b]
    BY <1>1, <1>4 DEF PublicationInv, TargetInv
  <2>4. \A b \in Attempts : pc'[b] = "removing" /\ up'[b] => target'[b] \in DOMAIN runs'
    BY <1>1, <1>4, <2>2
  <2> QED
    BY <2>3, <2>4 DEF TargetInv
<1>8. PublishedRunsAreWhole'
  <2>1. \A n \in DOMAIN runs' : n = target[a] => pc'[a] = "removing"
    BY <1>4
  <2>2. \A n \in DOMAIN runs' : n # target[a] =>
            Whole(runs[n]) \/ \E b \in Attempts \ {a} : pc[b] = "removing" /\ target[b] = n
    BY <1>4 DEF PublicationInv, PublishedRunsAreWhole
  <2> QED
    BY <1>1, <1>4, <2>1, <2>2 DEF PublishedRunsAreWhole, Whole
<1>9. FailuresPublishNothing'
  BY <1>1, <1>4 DEF PublicationInv, FailuresPublishNothing
<1>10. ReaderInv'
  BY <1>1 DEF ReaderInv
<1>11. QED
  BY <1>5, <1>6, <1>7, <1>8, <1>9, <1>10 DEF PublicationInv
LEMMA RenameKeeps ==
    ASSUME PublicationInv, NEW a \in Attempts, Rename(a)
    PROVE  PublicationInv'
<1>1. /\ TypeOK /\ StagingInv /\ Running(a) /\ up[a] /\ pc[a] = "renaming"
      /\ UNCHANGED <<policy, up, todo, base, target, readerVars>>
      /\ target[a] \in Names /\ base[a] \in DOMAIN staging /\ base[a][1] = RunId[a]
      /\ staging[base[a]] = Files \X {a}
      /\ \A b \in Attempts \ {a} : Running(b) => RunId[b] # RunId[a]
  BY DEF PublicationInv, Running, Rename, TargetInv, StagingInv
<1>2. pc \in [Attempts -> Places]
  BY <1>1 DEF TypeOK
<1>3. CASE pc' = [pc EXCEPT ![a] = "failed"] /\ UNCHANGED treeVars
  <2>1. /\ \A b \in Attempts \ {a} : pc'[b] = pc[b]
        /\ pc' \in [Attempts -> Places] /\ pc'[a] = "failed"
    BY <1>2, <1>3 DEF Places
  <2>2. StagingInv'
    BY <1>1, <1>3, <2>1, StagingStep DEF treeVars, Running
  <2>3. TypeOK'
    BY <1>1, <1>3, <2>1 DEF TypeOK, treeVars, readerVars
  <2>4. TargetInv'
    BY <1>1, <1>3, <2>1 DEF PublicationInv, TargetInv, treeVars
  <2>5. PublishedRunsAreWhole' /\ FailuresPublishNothing' /\ ReaderInv'
    BY <1>1, <1>3, <2>1, RunsUntouched DEF treeVars
  <2> QED
    BY <2>2, <2>3, <2>4, <2>5 DEF PublicationInv
<1>4. CASE /\ target[a] \in DOMAIN runs => runs[target[a]] = {}
           /\ staging' = Drop(staging, base[a])
           /\ runs' = Put(runs, target[a], Files \X {a})
           /\ pc' = [pc EXCEPT ![a] = "done"]
  <2>1. /\ \A b \in Attempts \ {a} : pc'[b] = pc[b]
        /\ pc' \in [Attempts -> Places] /\ pc'[a] = "done"
    BY <1>2, <1>4 DEF Places
  <2>2. /\ staging \in [DOMAIN staging -> SUBSET (Files \X Attempts)]
        /\ runs \in [DOMAIN runs -> SUBSET (Files \X Attempts)]
        /\ DOMAIN staging \subseteq Names /\ DOMAIN runs \subseteq Names
        /\ Files \X {a} \in SUBSET (Files \X Attempts)
    BY <1>1 DEF TypeOK
  <2>3. /\ staging' \in [DOMAIN staging' -> SUBSET (Files \X Attempts)]
        /\ runs' \in [DOMAIN runs' -> SUBSET (Files \X Attempts)]
    BY <1>4, <2>2, TreeTypes
  <2>4. /\ DOMAIN staging' = DOMAIN staging \ {base[a]}
        /\ \A n \in DOMAIN staging : n # base[a] => staging'[n] = staging[n]
    BY <1>4, DropProperties
  <2>5. /\ DOMAIN runs' = DOMAIN runs \cup {target[a]} /\ runs'[target[a]] = Files \X {a}
        /\ \A n \in DOMAIN runs : n # target[a] => runs'[n] = runs[n]
    <3>1. /\ DOMAIN Put(runs, target[a], Files \X {a}) = DOMAIN runs \cup {target[a]}
          /\ Put(runs, target[a], Files \X {a})[target[a]] = Files \X {a}
          /\ \A n \in DOMAIN runs :
                 n # target[a] => Put(runs, target[a], Files \X {a})[n] = runs[n]
      BY DEF Put
    <3> QED
      BY <1>4, <3>1
  <2>6. StagingInv'
    <3>1. \A n \in DOMAIN staging : n[1] # RunId[a] =>
              n \in DOMAIN staging' /\ staging'[n] = staging[n]
      BY <1>1, <2>4
    <3>2. ~Running(a)'
      BY <2>1 DEF Running
    <3> QED
      BY <1>1, <2>1, <3>1, <3>2, StagingStep
  <2>7. TypeOK'
    <3>1. DOMAIN staging' \subseteq Names /\ DOMAIN runs' \subseteq Names
      BY <1>1, <2>2, <2>4, <2>5
    <3> QED
      BY <1>1, <2>1, <2>3, <3>1 DEF TypeOK, readerVars
  <2>8. TargetInv'
    BY <1>1, <2>1, <2>5 DEF PublicationInv, TargetInv
  <2>9. PublishedRunsAreWhole'
    <3>1. Whole(runs'[target[a]])
      BY <2>5 DEF Whole
    <3>2. \A n \in DOMAIN runs' : n # target[a] =>
              Whole(runs'[n]) \/ \E b \in Attempts : pc[b] = "removing" /\ target[b] = n
      BY <2>5 DEF PublicationInv, PublishedRunsAreWhole
    <3>3. \A b \in Attempts : pc[b] = "removing" =>
              pc'[b] = "removing" /\ target'[b] = target[b]
      BY <1>1, <2>1
    <3>4. \A n \in DOMAIN runs' :
              Whole(runs'[n]) \/ \E b \in Attempts : pc'[b] = "removing" /\ target'[b] = n
      BY <3>1, <3>2, <3>3
    <3> QED
      BY <3>4 DEF PublishedRunsAreWhole, Whole
  <2>10. FailuresPublishNothing'
    <3>1. \A e \in runs'[target[a]] : e[2] = a
      BY <2>5
    <3> QED
      BY <1>1, <2>1, <2>5, <3>1 DEF PublicationInv, FailuresPublishNothing
  <2>11. ReaderInv'
    <3> SUFFICES ASSUME policy # "replace" PROVE ReaderInv'
      BY <1>1 DEF ReaderInv
    <3>1. \A n \in DOMAIN runs : Whole(runs[n])
      BY DEF PublicationInv, PublishedRunsAreWhole, TargetInv
    <3>2. \A n \in DOMAIN runs : runs[n] # {}
      <4>1. \A b \in Attempts : <<Manifest, b>> \in Files \X {b}
        BY DEF Files
      <4> QED
        BY <3>1, <4>1 DEF Whole
    <3>3. \A n \in DOMAIN runs : n # target[a]
      BY <1>4, <3>2
    <3>4. \A n \in DOMAIN runs : n \in DOMAIN runs' /\ runs'[n] = runs[n]
      BY <2>5, <3>3
    <3> QED
      BY <1>1, <3>4 DEF PublicationInv, ReaderInv, readerVars
  <2> QED
    BY <2>6, <2>7, <2>8, <2>9, <2>10, <2>11 DEF PublicationInv
<1>5. QED
  BY <1>1, <1>3, <1>4 DEF Rename, Goto
-----------------------------------------------------------------------------
(* The steps of the reader.                                                *)

LEMMA IngestKeeps ==
    ASSUME PublicationInv, Ingest
    PROVE  PublicationInv'
<1>1. UNCHANGED <<policy, staging, runs, pc, up, todo, base, target>>
  BY DEF Ingest, LoadRun, DiscoverArtifacts, ReadArtifact, Ingested, treeVars
<1>2. /\ TypeOK /\ runs \in [DOMAIN runs -> SUBSET (Files \X Attempts)]
      /\ DOMAIN runs \subseteq Names
  BY DEF PublicationInv, TypeOK
<1>3. /\ reading' \in {"idle", "listing", "reading", "done", "failed"}
      /\ source' \in Names \cup {NoRun}
      /\ unread' \subseteq Datasets /\ ingested' \subseteq Datasets \X Attempts
  <2>1. /\ reading \in {"idle", "listing", "reading", "done", "failed"}
        /\ source \in Names \cup {NoRun}
        /\ unread \subseteq Datasets /\ ingested \subseteq Datasets \X Attempts
    BY <1>2 DEF TypeOK
  <2>2. CASE LoadRun
    BY <1>2, <2>1, <2>2 DEF LoadRun
  <2>3. CASE DiscoverArtifacts
    BY <1>2, <2>1, <2>3 DEF DiscoverArtifacts, Files
  <2>4. CASE ReadArtifact
    <3>1. PICK f \in unread :
              LET found == IF source \in DOMAIN runs
                           THEN {e \in runs[source] : e[1] = f} ELSE {}
              IN  IF found = {}
                  THEN reading' = "failed" /\ UNCHANGED <<unread, ingested>>
                  ELSE /\ ingested' = ingested \cup found
                       /\ unread' = unread \ {f} /\ UNCHANGED reading
      BY <2>4 DEF ReadArtifact
    <3> DEFINE found == IF source \in DOMAIN runs
                        THEN {e \in runs[source] : e[1] = f} ELSE {}
    <3>2. found \subseteq Datasets \X Attempts
      BY <1>2, <2>1
    <3>3. source' = source
      BY <2>4 DEF ReadArtifact
    <3> QED
      BY <2>1, <3>1, <3>2, <3>3
  <2>5. CASE Ingested
    BY <2>1, <2>5 DEF Ingested
  <2> QED
    BY <2>2, <2>3, <2>4, <2>5 DEF Ingest
<1>4. TypeOK'
  BY <1>1, <1>2, <1>3 DEF TypeOK
<1>5. ASSUME policy # "replace"
      PROVE  ReaderInv'
  <2>1. \A n \in DOMAIN runs : \E a \in Attempts : runs[n] = Files \X {a}
    BY <1>5 DEF PublicationInv, PublishedRunsAreWhole, TargetInv, Whole
  <2>2. ReaderInv
    BY DEF PublicationInv
  <2>3. CASE LoadRun
    <3>1. PICK name \in DOMAIN runs :
              /\ source' = name /\ UNCHANGED <<unread, ingested>>
              /\ reading' = IF HasManifest(runs[name]) THEN "listing" ELSE "failed"
      BY <2>3 DEF LoadRun
    <3>2. PICK a \in Attempts : runs[name] = Files \X {a}
      BY <2>1
    <3>3. <<Manifest, a>> \in runs[name] /\ <<Manifest, a>>[1] = Manifest
      BY <3>2 DEF Files
    <3>4. reading' = "listing"
      BY <3>1, <3>3 DEF HasManifest
    <3>5. unread = {} /\ ingested = {}
      BY <1>5, <2>2, <2>3 DEF LoadRun, ReaderInv
    <3> QED
      BY <1>1, <3>1, <3>4, <3>5 DEF ReaderInv
  <2>4. CASE DiscoverArtifacts
    <3>1. /\ source \in DOMAIN runs /\ ingested = {} /\ reading' = "reading"
          /\ unread' = {e[1] : e \in runs[source]} \ {Manifest}
          /\ UNCHANGED <<source, ingested>>
      BY <1>5, <2>2, <2>4 DEF DiscoverArtifacts, ReaderInv
    <3>2. PICK a \in Attempts : runs[source] = Files \X {a}
      BY <2>1, <3>1
    <3>3. unread' = Datasets
      <4>1. \A f \in Files : <<f, a>> \in runs[source] /\ <<f, a>>[1] = f
        BY <3>2
      <4>2. {e[1] : e \in runs[source]} = Files
        BY <3>2, <4>1
      <4> QED
        BY <3>1, <4>2, PublicationConstants DEF Files
    <3> QED
      BY <1>1, <3>1, <3>3 DEF ReaderInv
  <2>5. CASE ReadArtifact
    <3>1. /\ source \in DOMAIN runs /\ source' = source /\ reading = "reading"
          /\ ingested = {e \in runs[source] : e[1] \in Datasets \ unread}
      BY <1>5, <2>2, <2>5 DEF ReadArtifact, ReaderInv
    <3>2. PICK f \in unread :
              IF {e \in runs[source] : e[1] = f} = {}
              THEN reading' = "failed" /\ UNCHANGED <<unread, ingested>>
              ELSE /\ ingested' = ingested \cup {e \in runs[source] : e[1] = f}
                   /\ unread' = unread \ {f} /\ UNCHANGED reading
      BY <2>5, <3>1 DEF ReadArtifact
    <3>3. PICK a \in Attempts : runs[source] = Files \X {a}
      BY <2>1, <3>1
    <3>4. f \in Datasets /\ unread \subseteq Datasets
      BY <1>2 DEF TypeOK
    <3>5. <<f, a>> \in {e \in runs[source] : e[1] = f}
      BY <3>3, <3>4 DEF Files
    <3>6. /\ ingested' = ingested \cup {e \in runs[source] : e[1] = f}
          /\ unread' = unread \ {f} /\ reading' = "reading"
      BY <3>1, <3>2, <3>5
    <3>7. ingested' = {e \in runs[source] : e[1] \in Datasets \ unread'}
      BY <3>1, <3>4, <3>6
    <3> QED
      BY <1>1, <3>1, <3>6, <3>7 DEF ReaderInv
  <2>6. CASE Ingested
    BY <1>1, <1>5, <2>2, <2>6 DEF Ingested, ReaderInv
  <2> QED
    BY <2>3, <2>4, <2>5, <2>6 DEF Ingest
<1>6. ReaderInv'
  BY <1>1, <1>5 DEF ReaderInv
<1>7. QED
  BY <1>1, <1>4, <1>6
  DEF PublicationInv, StagingInv, TargetInv, PublishedRunsAreWhole, FailuresPublishNothing,
      Running, Whole

-----------------------------------------------------------------------------
(* The invariant and what follows from it.                                 *)

LEMMA PublicationInit == Init => PublicationInv
<1> SUFFICES ASSUME Init PROVE PublicationInv
  OBVIOUS
<1>1. DOMAIN staging = {} /\ DOMAIN runs = {}
  BY DEF Init
<1>2. /\ staging \in [DOMAIN staging -> SUBSET (Files \X Attempts)]
      /\ runs \in [DOMAIN runs -> SUBSET (Files \X Attempts)]
  BY DEF Init
<1>3. TypeOK
  BY <1>1, <1>2 DEF Init, TypeOK, Places
<1>4. StagingInv /\ TargetInv
  BY DEF Init, StagingInv, TargetInv, Running
<1>5. QED
  BY <1>1, <1>3, <1>4
  DEF Init, PublicationInv, ReaderInv, PublishedRunsAreWhole, FailuresPublishNothing

LEMMA PublicationStep == PublicationInv /\ [Next]_vars => PublicationInv'
<1> SUFFICES ASSUME PublicationInv, [Next]_vars PROVE PublicationInv'
  OBVIOUS
<1>1. ASSUME NEW a \in Attempts, Attempt(a)
      PROVE  PublicationInv'
  BY <1>1, CreateKeeps, InBlockKeeps, PublishKeeps, RemoveFinalKeeps, RenameKeeps, KillKeeps
  DEF Attempt
<1>2. CASE UNCHANGED vars
  BY <1>2
  DEF vars, PublicationInv, TypeOK, StagingInv, TargetInv, ReaderInv, PublishedRunsAreWhole,
      FailuresPublishNothing, Running, Whole
<1>3. QED
  BY <1>1, <1>2, IngestKeeps DEF Next

\* Every reachable state satisfies the inductive invariant.
THEOREM PublicationInvariant == Spec => []PublicationInv
<1>1. QED
  BY PublicationInit, PublicationStep, PTL DEF Spec

\* Type correctness of the directories, the attempts and the reader.
THEOREM PublicationTypes == Spec => []TypeOK
<1>1. PublicationInv => TypeOK
  BY DEF PublicationInv
<1>2. QED
  BY <1>1, PublicationInvariant, PTL

\* A directory below runs/ is one attempt's whole output, save where REPLACE
\* is at work on it or was killed there.
THEOREM PublishedWhole == Spec => []PublishedRunsAreWhole
<1>1. PublicationInv => PublishedRunsAreWhole
  BY DEF PublicationInv
<1>2. QED
  BY <1>1, PublicationInvariant, PTL

\* An attempt that raised or was killed has published nothing.
THEOREM NothingFromFailures == Spec => []FailuresPublishNothing
<1>1. PublicationInv => FailuresPublishNothing
  BY DEF PublicationInv
<1>2. QED
  BY <1>1, PublicationInvariant, PTL

\* Without REPLACE an ingestion gets all of one attempt's frames.
THEOREM IngestionIsOneRun == Spec => []IngestedIsOneRun
<1>1. PublicationInv => IngestedIsOneRun
  <2> SUFFICES ASSUME PublicationInv, policy # "replace"
               PROVE  /\ reading # "failed"
                      /\ reading = "done" => \E a \in Attempts : ingested = Datasets \X {a}
    BY DEF IngestedIsOneRun
  <2>1. reading # "failed"
    BY DEF PublicationInv, ReaderInv
  <2>2. ASSUME reading = "done"
        PROVE  \E a \in Attempts : ingested = Datasets \X {a}
    <3>1. /\ source \in DOMAIN runs /\ unread = {}
          /\ ingested = {e \in runs[source] : e[1] \in Datasets \ unread}
      BY <2>2 DEF PublicationInv, ReaderInv
    <3>2. PICK a \in Attempts : runs[source] = Files \X {a}
      BY <3>1 DEF PublicationInv, PublishedRunsAreWhole, TargetInv, Whole
    <3>3. ingested = Datasets \X {a}
      BY <3>1, <3>2 DEF Files
    <3> QED
      BY <3>3
  <2> QED
    BY <2>1, <2>2
<1>2. QED
  BY <1>1, PublicationInvariant, PTL

\* Without REPLACE a published run never changes nor goes.
THEOREM PublishedStay == Spec => PublishedRunsStay
<1> DEFINE Stays == policy # "replace" =>
                        \A n \in DOMAIN runs : n \in DOMAIN runs' /\ runs'[n] = runs[n]
<1>1. PublicationInv /\ [Next]_vars => [Stays]_vars
  <2> SUFFICES ASSUME PublicationInv, Next, policy # "replace", runs' # runs,
                      NEW n \in DOMAIN runs
               PROVE  n \in DOMAIN runs' /\ runs'[n] = runs[n]
    OBVIOUS
  <2>1. PICK a \in Attempts : RemoveFinal(a) \/ Rename(a)
    BY DEF Next, Attempt, Ingest, Create, Clear, WriteOne, WriteManifest, RaiseInBlock,
           Cleanup, Publish, Kill, LoadRun, DiscoverArtifacts, ReadArtifact, Ingested, treeVars
  <2>2. ~RemoveFinal(a)
    BY DEF PublicationInv, TargetInv, RemoveFinal
  <2>3. /\ runs' = Put(runs, target[a], staging[base[a]])
        /\ target[a] \in DOMAIN runs => runs[target[a]] = {}
    BY <2>1, <2>2 DEF Rename, treeVars
  <2>4. \E b \in Attempts : runs[n] = Files \X {b}
    BY DEF PublicationInv, PublishedRunsAreWhole, TargetInv, Whole
  <2>5. runs[n] # {}
    <3>1. PICK b \in Attempts : runs[n] = Files \X {b}
      BY <2>4
    <3>2. <<Manifest, b>> \in Files \X {b}
      BY DEF Files
    <3> QED
      BY <3>1, <3>2
  <2> QED
    BY <2>3, <2>5 DEF Put
<1>2. QED
  BY <1>1, PublicationInvariant, PTL DEF Spec, PublishedRunsStay
=============================================================================
