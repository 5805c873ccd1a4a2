----------------------------- MODULE RandomStreams -----------------------------
(***************************************************************************)
(* The random numbers of synthetic runs.  A context derives a generator    *)
(* for each of its named streams, which it keeps, and one for each entity  *)
(* of a stream, which it makes anew for every request.  Two runs draw for  *)
(* their decisions, in any order, from contexts of the same root seed.     *)
(*                                                                         *)
(* Texts are sequences of atoms, so that what is joined can be told apart  *)
(* no better than in the code; a hash stands for what it is taken of.      *)
(***************************************************************************)
EXTENDS Integers, Sequences

CONSTANTS
    None,
    RunInputs       \* [decisions: of each run, contexts: of each run]

VARIABLES input, state

vars == <<input, state>>

-----------------------------------------------------------------------------
\* Names differ in case and in spaces around them, keys in the latter: a key
\* reaches from its first atom that is not blank to its last.
StreamName(name) == IF name = "Alarms" THEN "alarms" ELSE name

EntityKey(key) ==
    LET kept  == {k \in DOMAIN key : key[k] # " "}
        first == CHOOSE k \in kept : \A j \in kept : k <= j
        last  == CHOOSE k \in kept : \A j \in kept : j <= k IN
    IF kept = {} THEN <<>> ELSE SubSeq(key, first, last)

StreamKeys == {"events", "alarms", "incidents", "work_orders", "tariffs", "budgets", "weather"}

\* _derive_seed_words: the root seed and a digest of it and the namespace.
SeedWords(root, namespace) == [root |-> root, digest |-> <<root, ":">> \o namespace]

Version == <<"1.0.0", ":">>

StreamSeed(root, name) == SeedWords(root, Version \o <<"stream", ":">> \o <<name>>)

EntitySeed(root, name, key) == SeedWords(root, Version \o <<name, ":", "entity", ":">> \o EntityKey(key))

\* The root seed of a child context is a hash of the words of its namespace.
ChildRoot(root, namespace) == SeedWords(root, Version \o <<"context", ":">> \o namespace)

Root(context) == IF context.namespace = None THEN <<>> ELSE <<ChildRoot(<<>>, context.namespace)>>

-----------------------------------------------------------------------------
\* What the generators ask for: the name of a stream, and the key made of
\* what a decision is about.  A request that names no entity is not made by
\* any of them.

\* Mutant: the key of an alarm does not say that it is the primary one.
AlarmKeyAlone(d) == <<d.event, "|", d.code>>

PrimaryAlarmKey(d) == <<d.event, "|", d.code, "|", "primary">>

Request(d) ==
    CASE d.about = "event type"    -> [name |-> "events", key |-> <<d.type>>]
      [] d.about = "primary alarm" -> [name |-> "operations.alarms", key |-> PrimaryAlarmKey(d)]
      [] d.about = "nuisance alarm" ->
             [name |-> "operations.alarms.nuisance", key |-> <<d.event, "|", d.code>>]
      [] d.about = "incident" ->
             [name |-> "operations.incidents", key |-> <<d.event, "|", d.alarm, "|", d.group>>]
      [] d.about = "work order"    -> [name |-> "operations.work_orders", key |-> <<d.incident>>]
      [] d.about = "tariff"        -> [name |-> "tariffs", key |-> <<d.plant>>]
      [] d.about = "budget"        -> [name |-> "budgets", key |-> <<d.plant>>]
      [] d.about = "stream"        -> [name |-> d.name, key |-> None]

\* _RandomContextAdapter
StreamMap(name) ==
    CASE name \in {"operations.alarms", "operations.alarms.nuisance"} -> "alarms"
      [] name = "operations.incidents" -> "incidents"
      [] name = "operations.work_orders" -> "work_orders"
      [] OTHER -> name

-----------------------------------------------------------------------------
Init ==
    /\ input \in RunInputs
    /\ state = [draws |-> {}, failed |-> {},
                positions |-> [c \in {input.contexts[r] : r \in DOMAIN input.contexts} |->
                                  [name \in StreamKeys |-> 0]]]

Drawn(r, d, value) == [run |-> r, decision |-> d, value |-> value]

\* A first number of a generator of its own.
EntityStream(r, d) ==
    LET name == StreamName(StreamMap(Request(d).name)) IN
    /\ Request(d).key # None
    /\ state' = IF name \in StreamKeys
                THEN [state EXCEPT !.draws = @ \cup
                         {Drawn(r, d, [seed |-> EntitySeed(Root(input.contexts[r]), name, Request(d).key),
                                       position |-> 0])}]
                ELSE [state EXCEPT !.failed = @ \cup {<<r, d>>}]

Advanced(positions, context, name) ==
    LET counts == positions[context] IN
    [positions EXCEPT ![context] = [counts EXCEPT ![name] = counts[name] + 1]]

\* The next number of a generator shared by all that name the stream.
Stream(r, d) ==
    LET name    == StreamName(StreamMap(Request(d).name))
        context == input.contexts[r] IN
    /\ Request(d).key = None
    /\ state' = IF name \in StreamKeys
                THEN [state EXCEPT
                         !.draws = @ \cup {Drawn(r, d, [seed |-> StreamSeed(Root(context), name),
                                                        position |-> state.positions[context][name]])},
                         !.positions = Advanced(@, context, name)]
                ELSE [state EXCEPT !.failed = @ \cup {<<r, d>>}]

Pending(r, d) ==
    <<r, d>> \notin state.failed /\ \A x \in state.draws : x.run # r \/ x.decision # d

Next ==
    \E r \in DOMAIN input.decisions : \E d \in input.decisions[r] :
        /\ Pending(r, d)
        /\ EntityStream(r, d) \/ Stream(r, d)
        /\ UNCHANGED input

Spec == Init /\ [][Next]_vars

-----------------------------------------------------------------------------
Namespace(x) == input.contexts[x.run].namespace

\* A decision gets the same number in every run of a seed, whatever else
\* is decided and in whatever order.
DecisionsAreRepeatable ==
    \A x, y \in state.draws :
        x.decision = y.decision /\ x.decision.about # "stream" /\ Namespace(x) = Namespace(y) =>
            x.value = y.value

\* No two decisions hang on the same number, but for two spellings of one
\* stream, which include what the adapter calls it; no number of a shared
\* stream is drawn twice from one context; and child contexts share nothing
\* with their parent.
Spelling(d) == IF d.about = "stream" THEN [d EXCEPT !.name = StreamName(StreamMap(@))] ELSE d

DecisionsAreIndependent ==
    \A x, y \in state.draws :
        x.value = y.value =>
            /\ Spelling(x.decision) = Spelling(y.decision)
            /\ Namespace(x) = Namespace(y)
            /\ x.decision.about = "stream" /\ x # y => input.contexts[x.run] # input.contexts[y.run]
-----------------------------------------------------------------------------
(* What the proofs assume of the inputs, and the inductive invariant.      *)

Atoms == STRING \cup {"|", "primary"}

Words == Atoms \ {" "}

Decisions ==
    [about : {"event type"}, type : Words]
    \cup [about : {"tariff", "budget"}, plant : Words]
    \cup [about : {"primary alarm", "nuisance alarm"}, event : Words, code : Words]
    \cup [about : {"incident"}, event : Words, alarm : Words, group : Words]
    \cup [about : {"work order"}, incident : Words]
    \cup [about : {"stream"}, name : Atoms]

Contexts == [id : Nat, namespace : Seq(Atoms) \cup {None}]

RunsFit ==
    /\ None \notin Seq(Atoms)
    /\ \A i \in RunInputs :
           /\ DOMAIN i.contexts = DOMAIN i.decisions
           /\ \A r \in DOMAIN i.decisions :
                  i.contexts[r] \in Contexts /\ i.decisions[r] \subseteq Decisions

NameOf(d) == StreamName(StreamMap(Request(d).name))

\* A draw for an entity hangs on what it is about, one from a shared stream
\* has a position that has been passed and that no other draw has.
DrawFits(x) ==
    LET context == input.contexts[x.run]
        name    == NameOf(x.decision) IN
    /\ x.run \in DOMAIN input.decisions /\ x.decision \in input.decisions[x.run]
    /\ name \in StreamKeys
    /\ IF x.decision.about = "stream"
       THEN /\ x.value = [seed |-> StreamSeed(Root(context), name), position |-> x.value.position]
            /\ x.value.position \in 0..(state.positions[context][name] - 1)
       ELSE x.value = [seed |-> EntitySeed(Root(context), name, Request(x.decision).key),
                       position |-> 0]

SharesStream(x, y) ==
    /\ x.decision.about = "stream" /\ y.decision.about = "stream"
    /\ input.contexts[x.run] = input.contexts[y.run]
    /\ NameOf(x.decision) = NameOf(y.decision)

StreamsInv ==
    /\ input \in RunInputs
    /\ DOMAIN state = {"draws", "failed", "positions"}
    /\ state.positions \in
           [{input.contexts[r] : r \in DOMAIN input.contexts} -> [StreamKeys -> Nat]]
    /\ \A x \in state.draws : DrawFits(x)
    /\ \A x, y \in state.draws :
           SharesStream(x, y) /\ x.value.position = y.value.position => x = y
=============================================================================
