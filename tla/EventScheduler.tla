---------------------------- MODULE EventScheduler ----------------------------
(***************************************************************************)
(* How the generator schedules its ground-truth events                     *)
(* (synthetic/events/scheduler.py, with the definitions of catalogue.py).  *)
(* Candidates are drawn definition by definition, with no regard to each   *)
(* other; then the resolver goes through them once, in the order of their  *)
(* sort key, and keeps what does not conflict with what it kept before;    *)
(* what is kept is numbered by year.  Every random draw is a choice.       *)
(***************************************************************************)
EXTENDS Naturals, Sequences

CONSTANTS
    Catalogue,      \* the event definitions, ordered by event_type.value
    Assets,         \* eligible assets: [scope, plant, id]
    Interval,       \* config.interval_minutes
    Steps,          \* number of timestamps of the time grid
    YearOf,         \* YearOf[t]: the calendar year of a timestamp
    MaxEvents       \* config.maximum_events_per_definition

Types == DOMAIN Catalogue
Grid  == {Interval * k : k \in 0..(Steps - 1)}
GridEnd == Interval * Steps
Scopes == {"portfolio", "plant", "feeder", "transformer", "inverter", "sensor"}
Years == {YearOf[t] : t \in Grid}

\* EventDefinition: starts stands for the season and daylight restrictions,
\* durations for what the triangular distribution may yield.
EventDefinition ==
    [scopes : SUBSET Scopes, starts : SUBSET Grid, durations : SUBSET (Nat \ {0}),
     separation : Nat, overlaps : SUBSET Types]

ASSUME SchedulerConstants ==
    /\ Catalogue \in Seq(EventDefinition)
    /\ Assets \subseteq [scope : Scopes, plant : Nat, id : Nat]
    /\ Interval \in Nat \ {0} /\ Steps \in Nat \ {0} /\ MaxEvents \in Nat \ {0}
    /\ YearOf \in [Grid -> Nat]

SyntheticEvent ==
    [type : Types, ordinal : 1..MaxEvents, asset : Assets, start : Grid, end : 1..GridEnd]

VARIABLES
    rules,          \* which of the two rules config enforces
    definition,     \* the definition whose candidates are drawn
    ordinal,        \* how many of them have been drawn
    candidates,     \* the candidates drawn
    waiting,        \* those the resolver has not come to
    accepted,       \* those it has kept
    ids,            \* the number of each event that has one
    counters        \* the last number given in each year

vars == <<rules, definition, ordinal, candidates, waiting, accepted, ids, counters>>

Drawing == definition <= Len(Catalogue)

-----------------------------------------------------------------------------
(* The order of events and the relations the rules are about.              *)

ScopeRank == [portfolio |-> 0, plant |-> 1, feeder |-> 2,
              transformer |-> 3, inverter |-> 4, sensor |-> 5]

\* Draws of one definition that agree in the rest stay in the order drawn.
SortKey(e) == <<e.start, ScopeRank[e.asset.scope], e.asset.id, e.type, e.ordinal>>

Before(e, f) ==
    LET k == SortKey(e)  l == SortKey(f)
    IN  \/ k[1] < l[1]
        \/ (k[1] = l[1] /\ k[2] < l[2])
        \/ (k[1] = l[1] /\ k[2] = l[2] /\ k[3] < l[3])
        \/ (k[1] = l[1] /\ k[2] = l[2] /\ k[3] = l[3] /\ k[4] < l[4])
        \/ (k[1] = l[1] /\ k[2] = l[2] /\ k[3] = l[3] /\ k[4] = l[4] /\ k[5] < l[5])

First(events) == {e \in events : \A f \in events \ {e} : Before(e, f)}

IntervalsOverlap(e, f) == e.start < f.end /\ f.start < e.end

OverlapAllowed(e, f) ==
    f.type \in Catalogue[e.type].overlaps \/ e.type \in Catalogue[f.type].overlaps

\* Mutant: from start to start.
EventGapOfStarts(e, f) == IF e.start <= f.start THEN f.start - e.start ELSE e.start - f.start

EventGap(e, f) ==
    IF IntervalsOverlap(e, f) THEN 0
    ELSE IF e.end <= f.start THEN f.start - e.end ELSE e.start - f.end

SharesAffectedScope(e, f) ==
    \/ e.asset.scope = "portfolio" \/ f.asset.scope = "portfolio"
    \/ /\ e.asset.plant = f.asset.plant
       /\ "plant" \in {e.asset.scope, f.asset.scope} \/ e.asset.id = f.asset.id

RequiredGap(e, f) ==
    LET s == Catalogue[e.type].separation  t == Catalogue[f.type].separation
    IN  IF s < t THEN t ELSE s

Conflict(e, f) ==
    /\ SharesAffectedScope(e, f)
    /\ \/ rules.overlap /\ IntervalsOverlap(e, f) /\ ~OverlapAllowed(e, f)
       \/ rules.separation /\ EventGap(e, f) < RequiredGap(e, f)

-----------------------------------------------------------------------------
(* EventScheduler.schedule                                                 *)

End(start, duration) == IF start + duration > GridEnd THEN GridEnd ELSE start + duration

\* A definition no timestamp is allowed for uses up its draws.
DrawCandidate ==
    /\ Drawing /\ ordinal < MaxEvents
    /\ \E asset \in {a \in Assets : a.scope \in Catalogue[definition].scopes} :
           \/ Catalogue[definition].starts = {} /\ UNCHANGED candidates
           \/ \E start \in Catalogue[definition].starts, d \in Catalogue[definition].durations :
                  candidates' = candidates \cup
                      {[type |-> definition, ordinal |-> ordinal + 1, asset |-> asset,
                        start |-> start, end |-> End(start, d)]}
    /\ ordinal' = ordinal + 1
    /\ UNCHANGED <<rules, definition, waiting, accepted, ids, counters>>

\* The count is Poisson: it may be anything up to the maximum.
NextDefinition ==
    /\ Drawing
    /\ definition' = definition + 1 /\ ordinal' = 0
    /\ waiting' = IF definition = Len(Catalogue) THEN candidates ELSE {}
    /\ UNCHANGED <<rules, candidates, accepted, ids, counters>>

\* Mutant: a candidate that was dropped blocks others too.
ResolveAgainstAll ==
    /\ ~Drawing
    /\ \E e \in First(waiting) :
           /\ accepted' = IF \E f \in candidates \ waiting : Conflict(e, f)
                          THEN accepted ELSE accepted \cup {e}
           /\ waiting' = waiting \ {e}
    /\ UNCHANGED <<rules, definition, ordinal, candidates, ids, counters>>

Resolve ==
    /\ ~Drawing
    /\ \E e \in First(waiting) :
           /\ accepted' = IF \E f \in accepted : Conflict(e, f)
                          THEN accepted ELSE accepted \cup {e}
           /\ waiting' = waiting \ {e}
    /\ UNCHANGED <<rules, definition, ordinal, candidates, ids, counters>>

Unnumbered == accepted \ DOMAIN ids

Number(e) ==
    LET year == YearOf[e.start]
    IN  /\ counters' = [counters EXCEPT ![year] = @ + 1]
        /\ ids' = [f \in DOMAIN ids \cup {e} |->
                      IF f = e THEN <<year, counters[year] + 1>> ELSE ids[f]]

\* Mutant: in the order of the definitions.
AssignIdAsDrawn ==
    /\ ~Drawing /\ waiting = {}
    /\ \E e \in Unnumbered :
           /\ \A f \in Unnumbered \ {e} :
                  e.type < f.type \/ (e.type = f.type /\ e.ordinal < f.ordinal)
           /\ Number(e)
    /\ UNCHANGED <<rules, definition, ordinal, candidates, waiting, accepted>>

AssignId ==
    /\ ~Drawing /\ waiting = {}
    /\ \E e \in First(Unnumbered) : Number(e)
    /\ UNCHANGED <<rules, definition, ordinal, candidates, waiting, accepted>>

-----------------------------------------------------------------------------
Init ==
    /\ rules \in [separation : BOOLEAN, overlap : BOOLEAN]
    /\ definition = 1 /\ ordinal = 0
    /\ candidates = {} /\ waiting = {} /\ accepted = {}
    /\ ids = [e \in {} |-> <<>>] /\ counters = [y \in Years |-> 0]

Next == DrawCandidate \/ NextDefinition \/ Resolve \/ AssignId

Spec == Init /\ [][Next]_vars

-----------------------------------------------------------------------------
TypeOK ==
    /\ rules \in [separation : BOOLEAN, overlap : BOOLEAN]
    /\ definition \in 1..(Len(Catalogue) + 1) /\ ordinal \in 0..MaxEvents
    /\ candidates \subseteq SyntheticEvent /\ waiting \subseteq candidates
    /\ accepted \subseteq candidates /\ DOMAIN ids \subseteq accepted
    /\ ids \in [DOMAIN ids -> Years \X (Nat \ {0})] /\ counters \in [Years -> Nat]
    /\ \A e \in candidates : e.start < e.end

\* One asset is the other or contains it.
Contains(a, b) ==
    a.scope = "portfolio" \/ (a.plant = b.plant /\ (a.scope = "plant" \/ a.id = b.id))
Related(e, f) == Contains(e.asset, f.asset) \/ Contains(f.asset, e.asset)

\* The catalogue's rules hold of every two kept events, whichever was
\* looked at first: of events of related assets one ends long enough before
\* the other starts, and they do not overlap where it is not allowed.
KeptEventsObeyTheRules ==
    \A e, f \in accepted : e # f /\ Related(e, f) =>
        /\ rules.separation /\ RequiredGap(e, f) > 0 =>
               \/ e.end + RequiredGap(e, f) <= f.start
               \/ f.end + RequiredGap(e, f) <= e.start
        /\ rules.overlap /\ ~OverlapAllowed(e, f) => e.end <= f.start \/ f.end <= e.start

\* An event is lost only to a kept one that comes before it: what was
\* dropped itself blocks nothing.
DroppedForAKeptOne ==
    \A e \in candidates \ (accepted \cup waiting) :
        ~Drawing => \E f \in accepted : Before(f, e) /\ Conflict(e, f)

\* No two events have one number; numbers are given without gaps within each
\* year and follow the sort key
\* (PHASE_2_IMPLEMENTATION_PLAN 13.3: "Events receive IDs only after a stable
\* sort by start time, scope rank, asset ID, and type").
IdsFollowTheOrder ==
    /\ \A e, f \in DOMAIN ids : ids[e][1] = ids[f][1] =>
           (Before(e, f) <=> ids[e][2] < ids[f][2])
    /\ \A e, f \in DOMAIN ids : ids[e] = ids[f] => e = f
    /\ \A y \in Years : \A n \in 1..counters[y] : \E e \in DOMAIN ids : ids[e] = <<y, n>>

-----------------------------------------------------------------------------
(* Why: the inductive invariant.                                           *)

\* A definition and an ordinal name one candidate.
DrawInv ==
    /\ \A e \in candidates :
           e.type < definition \/ (e.type = definition /\ e.ordinal <= ordinal)
    /\ \A e, f \in candidates : e.type = f.type /\ e.ordinal = f.ordinal => e = f
    /\ Drawing => waiting = {} /\ accepted = {}

\* The resolver goes through the candidates in order.
ResolveInv ==
    /\ accepted \cap waiting = {}
    /\ ~Drawing => \A e \in candidates \ waiting, f \in waiting : Before(e, f)

\* So does the numbering, which starts when the resolver is through.
NumberInv ==
    /\ waiting # {} => DOMAIN ids = {}
    /\ \A e \in DOMAIN ids, f \in Unnumbered : Before(e, f)
    /\ \A e \in DOMAIN ids : ids[e][1] = YearOf[e.start] /\ ids[e][2] <= counters[ids[e][1]]

SchedulerInv ==
    /\ TypeOK /\ DrawInv /\ ResolveInv /\ NumberInv
    /\ KeptEventsObeyTheRules /\ DroppedForAKeptOne /\ IdsFollowTheOrder
=============================================================================
