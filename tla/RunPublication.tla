--------------------------- MODULE RunPublication ---------------------------
(***************************************************************************)
(* How a synthetic data set reaches its readers (synthetic/io.py,          *)
(* synthetic/metadata.py, etl/ingestion.py).  An attempt to generate a run *)
(* writes its files below .staging/, then moves the directory to runs/;    *)
(* the ingestion reads the directories it finds there.  An attempt may     *)
(* raise at any step or be killed, and a later one starts from what it     *)
(* left.  Attempts of one run id follow each other (nothing in the code    *)
(* locks the directory); attempts of different ids overlap.                *)
(*                                                                         *)
(* A directory is the set of its files, each as <<file, attempt>>.         *)
(***************************************************************************)
EXTENDS Naturals, Sequences

CONSTANTS
    Attempts,       \* invocations of the generator
    RunId,          \* RunId[a]: the id derived from the configuration
    Datasets,
    Partitioned,    \* the datasets written as one file per month and plant
    Policies,       \* the overwrite policies to consider
    MaxVersion,     \* bound: versions looked at by _next_version_path
    NoRun           \* no directory chosen yet

Manifest == "manifest.json"

Files == Datasets \cup {Manifest}

\* Values of RunId that name a run for one of its attempts: all attempts are
\* of one run; or all but one, so that attempts of two runs overlap.
FirstAttempt == CHOOSE a \in Attempts : TRUE

OneRun  == [a \in Attempts |-> FirstAttempt]
TwoRuns == [a \in Attempts |->
               IF a = FirstAttempt THEN a ELSE CHOOSE b \in Attempts \ {FirstAttempt} : TRUE]

ASSUME PublicationConstants ==
    /\ Partitioned \subseteq Datasets /\ Manifest \notin Datasets
    /\ DOMAIN RunId = Attempts
    /\ Policies \subseteq {"error", "replace", "version"}
    /\ MaxVersion \in Nat

VARIABLES
    policy,     \* output.overwrite_policy
    staging,    \* the directories below .staging/, by name
    runs,       \* the directories below runs/, by name
    pc,         \* pc[a]: where attempt a is
    up,         \* up[a]: FALSE once its process was killed
    todo,       \* todo[a]: datasets not written yet
    base,       \* base[a]: name of its staging directory
    target,     \* target[a]: name it publishes to
    reading,    \* where the ingestion is
    source,     \* the run it reads
    unread,     \* files it found and has not read
    ingested    \* files it has read

treeVars   == <<staging, runs>>
readerVars == <<reading, source, unread, ingested>>
vars == <<policy, staging, runs, pc, up, todo, base, target, reading, source, unread, ingested>>

Running(a) == up[a] /\ pc[a] \notin {"idle", "done", "failed"}

Put(tree, name, files) ==
    [n \in DOMAIN tree \cup {name} |-> IF n = name THEN files ELSE tree[n]]

Drop(tree, name) == [n \in DOMAIN tree \ {name} |-> tree[n]]

\* What is left of a directory when rmtree has taken one more file.
OneLess(files) == {files \ {f} : f \in files}

\* The first free name among name-v2, name-v3, ...
NextVersion(tree, name) ==
    {name \o <<v>> : v \in {v \in 2..MaxVersion :
        /\ name \o <<v>> \notin DOMAIN tree
        /\ \A u \in 2..(v - 1) : name \o <<u>> \in DOMAIN tree}}

Goto(a, place) == pc' = [pc EXCEPT ![a] = place]

-----------------------------------------------------------------------------
(* with StagedRunDirectory(...) as staging: ...                            *)

Mkdir(a, name) ==
    /\ staging' = Put(staging, name, {})
    /\ base' = [base EXCEPT ![a] = name]
    /\ Goto(a, "writing")

\* Mutant: a directory that is there already is taken over as it is.
CreateReuses(a) ==
    LET name == <<RunId[a]>>
    IN  /\ pc[a] = "idle"
        /\ \A b \in Attempts \ {a} : RunId[b] = RunId[a] => ~Running(b)
        /\ base' = [base EXCEPT ![a] = name] /\ Goto(a, "writing")
        /\ staging' = IF name \in DOMAIN staging THEN staging ELSE Put(staging, name, {})
        /\ UNCHANGED <<policy, runs, up, todo, target, readerVars>>

Create(a) ==
    LET name == <<RunId[a]>>
    IN  /\ pc[a] = "idle"
        /\ \A b \in Attempts \ {a} : RunId[b] = RunId[a] => ~Running(b)
        /\ \/ name \notin DOMAIN staging /\ Mkdir(a, name)
           \/ /\ name \in DOMAIN staging /\ policy = "error"
              /\ Goto(a, "failed") /\ UNCHANGED <<staging, base>>
           \/ /\ name \in DOMAIN staging /\ policy = "replace"
              /\ base' = [base EXCEPT ![a] = name]
              /\ Goto(a, "clearing") /\ UNCHANGED staging
           \/ /\ name \in DOMAIN staging /\ policy = "version"
              /\ \E next \in NextVersion(staging, name) : Mkdir(a, next)
        /\ UNCHANGED <<policy, runs, up, todo, target, readerVars>>

\* rmtree of what an earlier attempt left, file by file, then mkdir.
Clear(a) ==
    /\ up[a] /\ pc[a] = "clearing"
    /\ \/ /\ \E left \in OneLess(staging[base[a]]) : staging' = Put(staging, base[a], left)
          /\ UNCHANGED pc
       \/ /\ staging[base[a]] = {}
          /\ Goto(a, "writing") /\ UNCHANGED staging
    /\ UNCHANGED <<policy, runs, up, todo, base, target, readerVars>>

\* Writing a partitioned dataset leaves parts of other months alone.  The
\* order of the datasets plays no part.
WriteOne(a) ==
    /\ up[a] /\ pc[a] = "writing"
    /\ \E d \in todo[a] :
           LET dir   == staging[base[a]]
               old   == {e \in dir : e[1] = d}
           IN  /\ \E kept \in IF d \in Partitioned THEN SUBSET old ELSE {{}} :
                      staging' = Put(staging, base[a], (dir \ old) \cup kept \cup {<<d, a>>})
               /\ todo' = [todo EXCEPT ![a] = @ \ {d}]
    /\ UNCHANGED <<policy, runs, pc, up, base, target, readerVars>>

\* Written to a temporary file and moved into place: all of it or nothing.
WriteManifest(a) ==
    /\ up[a] /\ pc[a] = "writing" /\ todo[a] = {}
    /\ staging' = Put(staging, base[a],
                      {e \in staging[base[a]] : e[1] # Manifest} \cup {<<Manifest, a>>})
    /\ Goto(a, "publishing")
    /\ UNCHANGED <<policy, runs, up, todo, base, target, readerVars>>

\* Any exception in the block, a failed validation among them.
RaiseInBlock(a) ==
    /\ up[a] /\ pc[a] = "writing"
    /\ Goto(a, "cleaning")
    /\ UNCHANGED <<policy, treeVars, up, todo, base, target, readerVars>>

Cleanup(a) ==
    /\ up[a] /\ pc[a] = "cleaning"
    /\ \/ /\ \E left \in OneLess(staging[base[a]]) : staging' = Put(staging, base[a], left)
          /\ UNCHANGED pc
       \/ /\ staging[base[a]] = {}
          /\ staging' = Drop(staging, base[a]) /\ Goto(a, "failed")
    /\ UNCHANGED <<policy, runs, up, todo, base, target, readerVars>>

-----------------------------------------------------------------------------
(* staging.publish()                                                       *)

\* Mutant: the final name is kept only when it had to be versioned.
PublishUnnamed(a) ==
    /\ up[a] /\ pc[a] = "publishing"
    /\ \/ base[a] \notin DOMAIN runs /\ UNCHANGED target
       \/ /\ base[a] \in DOMAIN runs
          /\ \E next \in NextVersion(runs, base[a]) : target' = [target EXCEPT ![a] = next]
    /\ Goto(a, "renaming")
    /\ UNCHANGED <<policy, treeVars, up, todo, base, readerVars>>

\* Mutant: an existing run gives way whatever the policy.
PublishReplaces(a) ==
    /\ up[a] /\ pc[a] = "publishing"
    /\ target' = [target EXCEPT ![a] = base[a]]
    /\ Goto(a, IF base[a] \in DOMAIN runs THEN "removing" ELSE "renaming")
    /\ UNCHANGED <<policy, treeVars, up, todo, base, readerVars>>

Publish(a) ==
    /\ up[a] /\ pc[a] = "publishing"
    /\ \/ /\ base[a] \notin DOMAIN runs
          /\ target' = [target EXCEPT ![a] = base[a]] /\ Goto(a, "renaming")
       \/ /\ base[a] \in DOMAIN runs /\ policy = "error"
          /\ Goto(a, "failed") /\ UNCHANGED target
       \/ /\ base[a] \in DOMAIN runs /\ policy = "replace"
          /\ target' = [target EXCEPT ![a] = base[a]] /\ Goto(a, "removing")
       \/ /\ base[a] \in DOMAIN runs /\ policy = "version"
          /\ \E next \in NextVersion(runs, base[a]) : target' = [target EXCEPT ![a] = next]
          /\ Goto(a, "renaming")
    /\ UNCHANGED <<policy, treeVars, up, todo, base, readerVars>>

RemoveFinal(a) ==
    /\ up[a] /\ pc[a] = "removing"
    /\ \/ /\ \E left \in OneLess(runs[target[a]]) : runs' = Put(runs, target[a], left)
          /\ UNCHANGED pc
       \/ /\ runs[target[a]] = {}
          /\ runs' = Drop(runs, target[a]) /\ Goto(a, "renaming")
    /\ UNCHANGED <<policy, staging, up, todo, base, target, readerVars>>

\* Mutant: a copy that may stop in the middle.
RenameCopies(a) ==
    /\ up[a] /\ pc[a] = "renaming"
    /\ \/ /\ staging' = Drop(staging, base[a])
          /\ runs' = Put(runs, target[a], staging[base[a]]) /\ Goto(a, "done")
       \/ /\ \E part \in OneLess(staging[base[a]]) : runs' = Put(runs, target[a], part)
          /\ Goto(a, "failed") /\ UNCHANGED staging
    /\ UNCHANGED <<policy, up, todo, base, target, readerVars>>

\* rename(2) moves the directory at once, and never onto one with files.
Rename(a) ==
    /\ up[a] /\ pc[a] = "renaming"
    /\ \/ /\ target[a] \in DOMAIN runs => runs[target[a]] = {}
          /\ staging' = Drop(staging, base[a])
          /\ runs' = Put(runs, target[a], staging[base[a]]) /\ Goto(a, "done")
       \/ Goto(a, "failed") /\ UNCHANGED treeVars
    /\ UNCHANGED <<policy, up, todo, base, target, readerVars>>

\* The process is killed, or an rmtree raises: what it left stays.
Kill(a) ==
    /\ Running(a)
    /\ up' = [up EXCEPT ![a] = FALSE]
    /\ UNCHANGED <<policy, treeVars, pc, todo, base, target, readerVars>>

-----------------------------------------------------------------------------
(* SourceIngestor.ingest_run: the reader looks at the directory once for   *)
(* the manifest, once for the list of files and once for each file.        *)

HasManifest(files) == \E e \in files : e[1] = Manifest

LoadRun ==
    /\ reading = "idle"
    /\ \E name \in DOMAIN runs :
           /\ source' = name
           /\ reading' = IF HasManifest(runs[name]) THEN "listing" ELSE "failed"
    /\ UNCHANGED <<policy, treeVars, pc, up, todo, base, target, unread, ingested>>

\* rglob below a directory that has gone finds nothing.
DiscoverArtifacts ==
    /\ reading = "listing"
    /\ unread' = IF source \in DOMAIN runs THEN {e[1] : e \in runs[source]} \ {Manifest} ELSE {}
    /\ reading' = "reading"
    /\ UNCHANGED <<policy, treeVars, pc, up, todo, base, target, source, ingested>>

\* Mutant: each artifact comes from whichever version has it.
ReadAnyVersion ==
    /\ reading = "reading"
    /\ \E f \in unread, name \in DOMAIN runs :
           /\ name[1] = source[1]
           /\ ingested' = ingested \cup {e \in runs[name] : e[1] = f}
           /\ unread' = unread \ {f}
    /\ UNCHANGED <<policy, treeVars, pc, up, todo, base, target, reading, source>>

ReadArtifact ==
    /\ reading = "reading"
    /\ \E f \in unread :
           LET found == IF source \in DOMAIN runs
                        THEN {e \in runs[source] : e[1] = f} ELSE {}
           IN  IF found = {}
               THEN reading' = "failed" /\ UNCHANGED <<unread, ingested>>
               ELSE /\ ingested' = ingested \cup found
                    /\ unread' = unread \ {f} /\ UNCHANGED reading
    /\ UNCHANGED <<policy, treeVars, pc, up, todo, base, target, source>>

Ingested ==
    /\ reading = "reading" /\ unread = {}
    /\ reading' = "done"
    /\ UNCHANGED <<policy, treeVars, pc, up, todo, base, target, source, unread, ingested>>

-----------------------------------------------------------------------------
Init ==
    /\ policy \in Policies
    /\ staging = [n \in {} |-> {}] /\ runs = [n \in {} |-> {}]
    /\ pc = [a \in Attempts |-> "idle"] /\ up = [a \in Attempts |-> TRUE]
    /\ todo = [a \in Attempts |-> Datasets]
    /\ base = [a \in Attempts |-> NoRun] /\ target = [a \in Attempts |-> NoRun]
    /\ reading = "idle" /\ source = NoRun /\ unread = {} /\ ingested = {}

Attempt(a) ==
    \/ Create(a) \/ Clear(a) \/ WriteOne(a) \/ WriteManifest(a)
    \/ RaiseInBlock(a) \/ Cleanup(a)
    \/ Publish(a) \/ RemoveFinal(a) \/ Rename(a) \/ Kill(a)

Ingest == LoadRun \/ DiscoverArtifacts \/ ReadArtifact \/ Ingested

Next == (\E a \in Attempts : Attempt(a)) \/ Ingest

Spec == Init /\ [][Next]_vars

-----------------------------------------------------------------------------
Names == Seq(Nat \cup {RunId[a] : a \in Attempts}) \ {<<>>}

Places == {"idle", "clearing", "writing", "cleaning", "publishing", "removing", "renaming",
           "done", "failed"}

TypeOK ==
    /\ policy \in Policies
    /\ DOMAIN staging \subseteq Names /\ DOMAIN runs \subseteq Names
    /\ staging \in [DOMAIN staging -> SUBSET (Files \X Attempts)]
    /\ runs \in [DOMAIN runs -> SUBSET (Files \X Attempts)]
    /\ pc \in [Attempts -> Places] /\ up \in [Attempts -> BOOLEAN]
    /\ todo \in [Attempts -> SUBSET Datasets]
    /\ base \in [Attempts -> Names \cup {NoRun}] /\ target \in [Attempts -> Names \cup {NoRun}]
    /\ reading \in {"idle", "listing", "reading", "done", "failed"}
    /\ source \in Names \cup {NoRun}
    /\ unread \subseteq Datasets /\ ingested \subseteq Datasets \X Attempts

\* All files of one attempt and no other: what its manifest describes.
Whole(files) == \E a \in Attempts : files = Files \X {a}

\* Whatever raised or was killed, and whatever it left in the staging
\* directory, a directory below runs/ has every file of one attempt, unless
\* a REPLACE publication is removing it or was killed while doing so.
PublishedRunsAreWhole ==
    \A n \in DOMAIN runs :
        Whole(runs[n]) \/ \E a \in Attempts : pc[a] = "removing" /\ target[a] = n

\* PHASE_2_IMPLEMENTATION_PLAN 14.3: "Writes are atomic at run level: ... An
\* unsuccessful run leaves no published partial directory."  With REPLACE a
\* kill during publish() leaves one.
NoPartialRunIsLeft ==
    (\A a \in Attempts : ~Running(a)) => \A n \in DOMAIN runs : Whole(runs[n])

\* An attempt that raised or was killed has published nothing.
FailuresPublishNothing ==
    \A a \in Attempts, n \in DOMAIN runs :
        (\E e \in runs[n] : e[2] = a) => pc[a] = "done"

\* Unless the policy is REPLACE, a run that is published never changes nor
\* goes, however many later attempts have the same id.
PublishedRunsStay ==
    [][policy # "replace" =>
           \A n \in DOMAIN runs : n \in DOMAIN runs' /\ runs'[n] = runs[n]]_vars

\* Unless the policy is REPLACE, the frames of an ingestion come from one
\* attempt and none is missing, whatever is published meanwhile.
IngestedIsOneRun ==
    policy # "replace" =>
        /\ reading # "failed"
        /\ reading = "done" => \E a \in Attempts : ingested = Datasets \X {a}

-----------------------------------------------------------------------------
(* Why: the inductive invariant.                                           *)

\* An attempt works in a directory of its own id, which no other running
\* attempt has, and the directory holds what it wrote and nothing else.
StagingInv ==
    /\ \A a, b \in Attempts : a # b /\ Running(a) /\ Running(b) => RunId[a] # RunId[b]
    /\ \A a \in Attempts : pc[a] \in {"idle", "clearing"} => todo[a] = Datasets
    /\ \A a \in Attempts : Running(a) =>
           base[a] \in DOMAIN staging /\ base[a] \in Names /\ base[a][1] = RunId[a]
    /\ \A a \in Attempts : Running(a) =>
           /\ pc[a] = "writing" => staging[base[a]] = (Datasets \ todo[a]) \X {a}
           /\ pc[a] \in {"publishing", "removing", "renaming"} =>
                  staging[base[a]] = Files \X {a}

TargetInv ==
    \A a \in Attempts :
        /\ pc[a] = "removing" => policy = "replace"
        /\ pc[a] \in {"removing", "renaming"} => target[a] \in Names /\ target[a][1] = RunId[a]
        /\ pc[a] = "removing" /\ up[a] => target[a] \in DOMAIN runs

\* The reader holds the part of its run that it has read.
ReaderInv ==
    policy # "replace" =>
        /\ reading # "failed"
        /\ reading \in {"idle", "listing"} => unread = {} /\ ingested = {}
        /\ reading # "idle" => source \in DOMAIN runs
        /\ reading \in {"reading", "done"} =>
               ingested = {e \in runs[source] : e[1] \in Datasets \ unread}
        /\ reading = "done" => unread = {}

PublicationInv ==
    /\ TypeOK /\ StagingInv /\ TargetInv /\ ReaderInv
    /\ PublishedRunsAreWhole /\ FailuresPublishNothing
=============================================================================
