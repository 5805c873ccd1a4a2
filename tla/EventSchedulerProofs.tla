------------------------- MODULE EventSchedulerProofs -------------------------
(***************************************************************************)
(* What EventScheduler promises, for any catalogue, portfolio and grid.    *)
(***************************************************************************)
EXTENDS EventScheduler, TLAPS

\* The fields the sort key and the rules are made of are natural numbers.
LEMMA EventFields ==
    ASSUME NEW e \in SyntheticEvent
    PROVE  /\ e.type \in Types /\ e.type \in Nat /\ e.ordinal \in Nat
           /\ e.start \in Grid /\ e.start \in Nat /\ e.end \in Nat
           /\ e.asset.id \in Nat /\ ScopeRank[e.asset.scope] \in Nat
           /\ Catalogue[e.type].separation \in Nat
<1>1. e.type \in Types /\ e.ordinal \in Nat /\ e.start \in Grid /\ e.end \in Nat
  BY SchedulerConstants DEF SyntheticEvent, GridEnd
<1>2. Types \subseteq Nat /\ Grid \subseteq Nat
  BY SchedulerConstants DEF Types, Grid
<1>3. e.asset \in [scope : Scopes, plant : Nat, id : Nat]
  BY SchedulerConstants DEF SyntheticEvent
<1>4. ScopeRank[e.asset.scope] \in Nat
  BY <1>3 DEF ScopeRank, Scopes
<1>5. Catalogue[e.type] \in EventDefinition
  BY <1>1, SchedulerConstants DEF Types
<1> QED
  BY <1>1, <1>2, <1>3, <1>4, <1>5 DEF EventDefinition

\* Of two different draws one comes before the other.
LEMMA OneBefore ==
    ASSUME NEW e \in SyntheticEvent, NEW f \in SyntheticEvent,
           e.type # f.type \/ e.ordinal # f.ordinal
    PROVE  Before(e, f) \/ Before(f, e)
<1> DEFINE r == ScopeRank[e.asset.scope]  s == ScopeRank[f.asset.scope]
<1>1. /\ r \in Nat /\ s \in Nat /\ e.start \in Nat /\ f.start \in Nat
      /\ e.asset.id \in Nat /\ f.asset.id \in Nat
      /\ e.type \in Nat /\ f.type \in Nat /\ e.ordinal \in Nat /\ f.ordinal \in Nat
  BY EventFields
<1> HIDE DEF r, s
<1> QED
  BY <1>1 DEF Before, SortKey, r, s

\* And the other does not.
LEMMA NotBoth ==
    ASSUME NEW e \in SyntheticEvent, NEW f \in SyntheticEvent, Before(e, f)
    PROVE  ~Before(f, e)
<1> DEFINE r == ScopeRank[e.asset.scope]  s == ScopeRank[f.asset.scope]
<1>1. /\ r \in Nat /\ s \in Nat /\ e.start \in Nat /\ f.start \in Nat
      /\ e.asset.id \in Nat /\ f.asset.id \in Nat
      /\ e.type \in Nat /\ f.type \in Nat /\ e.ordinal \in Nat /\ f.ordinal \in Nat
  BY EventFields
<1> HIDE DEF r, s
<1> QED
  BY <1>1 DEF Before, SortKey, r, s

\* What KeptEventsObeyTheRules says of two events.
Obey(e, f) ==
    /\ rules.separation /\ RequiredGap(e, f) > 0 =>
           \/ e.end + RequiredGap(e, f) <= f.start
           \/ f.end + RequiredGap(e, f) <= e.start
    /\ rules.overlap /\ ~OverlapAllowed(e, f) => e.end <= f.start \/ f.end <= e.start

\* An event that does not conflict with another obeys the rules with it, and
\* the other with it.
LEMMA NoConflictObeys ==
    ASSUME NEW e \in SyntheticEvent, NEW f \in SyntheticEvent,
           ~Conflict(e, f), Related(e, f) \/ Related(f, e)
    PROVE  Obey(e, f) /\ Obey(f, e)
<1>1. SharesAffectedScope(e, f)
  BY DEF Related, Contains, SharesAffectedScope
<1> DEFINE g == RequiredGap(e, f)
<1>2. g \in Nat /\ e.start \in Nat /\ e.end \in Nat /\ f.start \in Nat /\ f.end \in Nat
  BY EventFields DEF RequiredGap
<1>3. RequiredGap(f, e) = g
  BY EventFields DEF RequiredGap
<1>4. OverlapAllowed(f, e) <=> OverlapAllowed(e, f)
  BY DEF OverlapAllowed
<1> HIDE DEF g
<1>5. rules.separation => ~(EventGap(e, f) < g)
  BY <1>1 DEF Conflict, g
<1>6. rules.separation /\ g > 0 => e.end + g <= f.start \/ f.end + g <= e.start
  BY <1>2, <1>5 DEF EventGap, IntervalsOverlap
<1>7. rules.overlap /\ ~OverlapAllowed(e, f) => e.end <= f.start \/ f.end <= e.start
  BY <1>1, <1>2 DEF Conflict, IntervalsOverlap
<1> QED
  BY <1>3, <1>4, <1>6, <1>7 DEF Obey, g

LEMMA StartsBelowEnd ==
    ASSUME NEW t \in Grid
    PROVE  t \in Nat /\ GridEnd \in Nat /\ t < GridEnd
<1>1. PICK k \in 0..(Steps - 1) : t = Interval * k
  BY DEF Grid
<1>2. k \in Nat /\ Steps \in Nat /\ Interval \in Nat /\ k < Steps /\ Interval > 0
  BY SchedulerConstants
<1>3. Interval * k < Interval * Steps
  BY <1>2
<1> QED
  BY <1>1, <1>2, <1>3 DEF GridEnd

LEMMA EndsAfterStart ==
    ASSUME NEW t \in Grid, NEW d \in Nat \ {0}
    PROVE  End(t, d) \in 1..GridEnd /\ t < End(t, d)
BY StartsBelowEnd DEF End

-----------------------------------------------------------------------------
(* One lemma for each action.                                              *)

LEMMA DrawPreserves == SchedulerInv /\ DrawCandidate => SchedulerInv'
<1> SUFFICES ASSUME SchedulerInv, DrawCandidate
             PROVE  SchedulerInv'
  OBVIOUS
<1> USE DEF SchedulerInv
<1>1. /\ Drawing /\ Drawing' /\ ordinal < MaxEvents /\ ordinal' = ordinal + 1
      /\ UNCHANGED <<rules, definition, waiting, accepted, ids, counters>>
  BY DEF DrawCandidate, Drawing
<1>2. waiting = {} /\ accepted = {} /\ DOMAIN ids = {}
  BY <1>1 DEF DrawInv, TypeOK
<1>3. definition \in Types /\ ordinal \in Nat /\ MaxEvents \in Nat
  BY <1>1, SchedulerConstants DEF TypeOK, Drawing, Types
<1>4. Catalogue[definition] \in EventDefinition
  BY <1>3, SchedulerConstants DEF Types
<1>5. \/ candidates' = candidates
      \/ \E e \in SyntheticEvent :
             /\ candidates' = candidates \cup {e} /\ e.start < e.end
             /\ e.type = definition /\ e.ordinal = ordinal + 1
  <2>1. SUFFICES ASSUME NEW asset \in Assets, NEW start \in Catalogue[definition].starts,
                        NEW d \in Catalogue[definition].durations,
                        candidates' = candidates \cup
                            {[type |-> definition, ordinal |-> ordinal + 1, asset |-> asset,
                              start |-> start, end |-> End(start, d)]}
                 PROVE  \E e \in SyntheticEvent :
                            /\ candidates' = candidates \cup {e} /\ e.start < e.end
                            /\ e.type = definition /\ e.ordinal = ordinal + 1
    BY DEF DrawCandidate
  <2> DEFINE e == [type |-> definition, ordinal |-> ordinal + 1, asset |-> asset,
                   start |-> start, end |-> End(start, d)]
  <2>2. start \in Grid /\ d \in Nat \ {0}
    BY <1>4 DEF EventDefinition
  <2>3. End(start, d) \in 1..GridEnd /\ start < End(start, d)
    BY <2>2, EndsAfterStart
  <2>4. ordinal + 1 \in 1..MaxEvents
    BY <1>1, <1>3
  <2>5. e \in SyntheticEvent /\ e.start < e.end
    BY <1>3, <2>2, <2>3, <2>4 DEF SyntheticEvent
  <2> QED
    BY <2>1, <2>5
<1>6. TypeOK'
  <2>1. ordinal' \in 0..MaxEvents
    BY <1>1, <1>3
  <2>2. candidates' \subseteq SyntheticEvent /\ \A e \in candidates' : e.start < e.end
    BY <1>5 DEF TypeOK
  <2> QED
    BY <1>1, <1>2, <2>1, <2>2 DEF TypeOK
<1>7. DrawInv'
  <2>1. \A e \in candidates : e.ordinal \in Nat /\ e.type \in Nat
    BY EventFields DEF TypeOK
  <2> QED
    BY <1>1, <1>2, <1>3, <1>5, <2>1 DEF DrawInv
<1>8. ResolveInv' /\ NumberInv' /\ KeptEventsObeyTheRules' /\ DroppedForAKeptOne'
  BY <1>1, <1>2 DEF ResolveInv, NumberInv, KeptEventsObeyTheRules, DroppedForAKeptOne, Unnumbered
<1>9. IdsFollowTheOrder'
  BY <1>1 DEF IdsFollowTheOrder
<1> QED
  BY <1>6, <1>7, <1>8, <1>9

LEMMA NextPreserves == SchedulerInv /\ NextDefinition => SchedulerInv'
<1> SUFFICES ASSUME SchedulerInv, NextDefinition
             PROVE  SchedulerInv'
  OBVIOUS
<1> USE DEF SchedulerInv
<1>1. /\ Drawing /\ definition' = definition + 1 /\ ordinal' = 0
      /\ waiting' = IF definition = Len(Catalogue) THEN candidates ELSE {}
      /\ UNCHANGED <<rules, candidates, accepted, ids, counters>>
  BY DEF NextDefinition
<1>2. waiting = {} /\ accepted = {} /\ DOMAIN ids = {}
  BY <1>1 DEF DrawInv, TypeOK
<1>3. definition \in 1..Len(Catalogue) /\ Len(Catalogue) \in Nat /\ MaxEvents \in Nat
  BY <1>1, SchedulerConstants DEF TypeOK, Drawing
<1>4. Drawing' <=> definition # Len(Catalogue)
  BY <1>1, <1>3 DEF Drawing
<1>5. TypeOK'
  BY <1>1, <1>2, <1>3 DEF TypeOK
<1>6. DrawInv'
  <2>1. \A e \in candidates : e.ordinal \in Nat /\ e.type \in Nat
    BY EventFields DEF TypeOK
  <2> QED
    BY <1>1, <1>2, <1>3, <1>4, <2>1 DEF DrawInv
<1>7. ResolveInv' /\ DroppedForAKeptOne'
  BY <1>1, <1>2, <1>4 DEF ResolveInv, DroppedForAKeptOne
<1>8. NumberInv' /\ KeptEventsObeyTheRules'
  BY <1>1, <1>2 DEF NumberInv, KeptEventsObeyTheRules, Unnumbered
<1>9. IdsFollowTheOrder'
  BY <1>1 DEF IdsFollowTheOrder
<1> QED
  BY <1>5, <1>6, <1>7, <1>8, <1>9

LEMMA ResolvePreserves == SchedulerInv /\ Resolve => SchedulerInv'
<1> SUFFICES ASSUME SchedulerInv, Resolve
             PROVE  SchedulerInv'
  OBVIOUS
<1> USE DEF SchedulerInv
<1>1. PICK e \in First(waiting) :
          /\ accepted' = IF \E f \in accepted : Conflict(e, f)
                         THEN accepted ELSE accepted \cup {e}
          /\ waiting' = waiting \ {e}
  BY DEF Resolve
<1>2. /\ ~Drawing /\ ~Drawing'
      /\ UNCHANGED <<rules, definition, ordinal, candidates, ids, counters>>
  BY DEF Resolve, Drawing
<1>3. /\ e \in waiting /\ e \in candidates /\ e \in SyntheticEvent
      /\ \A f \in waiting \ {e} : Before(e, f)
  BY DEF First, TypeOK
<1>4. DOMAIN ids = {} /\ e \notin accepted
  BY <1>3 DEF NumberInv, ResolveInv
<1>5. TypeOK' /\ DrawInv'
  BY <1>1, <1>2, <1>3 DEF TypeOK, DrawInv
<1>6. ResolveInv'
  BY <1>1, <1>2, <1>3 DEF ResolveInv
<1>7. NumberInv' /\ IdsFollowTheOrder'
  BY <1>2, <1>4 DEF NumberInv, IdsFollowTheOrder
<1>8. KeptEventsObeyTheRules'
  <2>1. SUFFICES ASSUME NEW a \in accepted', NEW b \in accepted', a # b, Related(a, b)
                 PROVE  Obey(a, b)
    BY <1>2 DEF KeptEventsObeyTheRules, Obey, RequiredGap, OverlapAllowed
  <2>2. CASE a \in accepted /\ b \in accepted
    BY <2>1, <2>2 DEF KeptEventsObeyTheRules, Obey
  <2>3. CASE a \notin accepted \/ b \notin accepted
    <3>1. ~\E f \in accepted : Conflict(e, f)
      BY <1>1, <2>3
    <3>2. \/ a = e /\ b \in accepted /\ b \in SyntheticEvent /\ ~Conflict(e, b)
          \/ b = e /\ a \in accepted /\ a \in SyntheticEvent /\ ~Conflict(e, a)
      BY <1>1, <2>1, <2>3, <3>1 DEF TypeOK
    <3> QED
      BY <1>3, <2>1, <3>2, NoConflictObeys
  <2> QED
    BY <2>2, <2>3
<1>9. DroppedForAKeptOne'
  <2>1. SUFFICES ASSUME NEW c \in candidates' \ (accepted' \cup waiting')
                 PROVE  \E f \in accepted' : Before(f, c) /\ Conflict(c, f)'
    BY DEF DroppedForAKeptOne
  <2>2. \A f : Conflict(c, f)' <=> Conflict(c, f)
    BY <1>2 DEF Conflict
  <2>3. CASE c = e
    <3>1. PICK f \in accepted : Conflict(e, f)
      BY <1>1, <2>1, <2>3
    <3>2. Before(f, e)
      BY <1>2, <1>3 DEF ResolveInv, TypeOK
    <3> QED
      BY <1>1, <2>2, <2>3, <3>1, <3>2
  <2>4. CASE c # e
    BY <1>1, <1>2, <2>1, <2>2, <2>4 DEF DroppedForAKeptOne
  <2> QED
    BY <2>3, <2>4
<1> QED
  BY <1>5, <1>6, <1>7, <1>8, <1>9

LEMMA AssignPreserves == SchedulerInv /\ AssignId => SchedulerInv'
<1> SUFFICES ASSUME SchedulerInv, AssignId
             PROVE  SchedulerInv'
  OBVIOUS
<1> USE DEF SchedulerInv
<1>1. PICK e \in First(Unnumbered) : Number(e)
  BY DEF AssignId
<1> DEFINE y == YearOf[e.start]
<1>2. /\ ~Drawing /\ ~Drawing' /\ waiting = {}
      /\ UNCHANGED <<rules, definition, ordinal, candidates, waiting, accepted>>
  BY DEF AssignId, Drawing
<1>3. /\ e \in accepted /\ e \notin DOMAIN ids /\ e \in SyntheticEvent
      /\ \A f \in Unnumbered \ {e} : Before(e, f)
  BY DEF First, Unnumbered, TypeOK
<1>4. y \in Years /\ counters[y] \in Nat
  BY <1>3, EventFields DEF Years, TypeOK
<1>5. /\ counters' = [counters EXCEPT ![y] = @ + 1]
      /\ ids' = [f \in DOMAIN ids \cup {e} |-> IF f = e THEN <<y, counters[y] + 1>> ELSE ids[f]]
  BY <1>1 DEF Number
<1> HIDE DEF y
<1>6. /\ DOMAIN ids' = DOMAIN ids \cup {e} /\ ids'[e] = <<y, counters[y] + 1>>
      /\ \A f \in DOMAIN ids : ids'[f] = ids[f]
      /\ counters'[y] = counters[y] + 1
      /\ \A z \in Years \ {y} : counters'[z] = counters[z]
  BY <1>3, <1>4, <1>5 DEF TypeOK
<1>7. TypeOK'
  <2>1. counters' \in [Years -> Nat]
    BY <1>4, <1>5 DEF TypeOK
  <2>2. ids' \in [DOMAIN ids' -> Years \X (Nat \ {0})]
    BY <1>4, <1>5 DEF TypeOK
  <2>3. DOMAIN ids' \subseteq accepted'
    BY <1>2, <1>3, <1>6 DEF TypeOK
  <2> QED
    BY <1>2, <2>1, <2>2, <2>3 DEF TypeOK
<1>8. DrawInv' /\ ResolveInv'
  BY <1>2 DEF DrawInv, ResolveInv
<1>9. KeptEventsObeyTheRules'
  BY <1>2 DEF KeptEventsObeyTheRules, RequiredGap, OverlapAllowed
<1>10. DroppedForAKeptOne'
  BY <1>2 DEF DroppedForAKeptOne, Conflict
<1>11. \A d \in DOMAIN ids : /\ ids[d][1] \in Years /\ ids[d][2] \in Nat
                             /\ d \in SyntheticEvent /\ Before(d, e)
  BY <1>3 DEF TypeOK, NumberInv, Unnumbered
<1>12. NumberInv'
  <2>1. \A d \in DOMAIN ids', f \in Unnumbered' : Before(d, f)
    BY <1>2, <1>3, <1>6 DEF NumberInv, Unnumbered
  <2>2. \A d \in DOMAIN ids' :
            ids'[d][1] = YearOf[d.start] /\ ids'[d][2] <= counters'[ids'[d][1]]
    <3>1. SUFFICES ASSUME NEW d \in DOMAIN ids
                   PROVE  ids[d][1] = YearOf[d.start] /\ ids[d][2] <= counters'[ids[d][1]]
      BY <1>4, <1>6 DEF y
    <3>2. /\ ids[d][1] = YearOf[d.start] /\ ids[d][2] <= counters[ids[d][1]]
          /\ ids[d][1] \in Years /\ ids[d][2] \in Nat /\ counters[ids[d][1]] \in Nat
      BY <1>11 DEF NumberInv, TypeOK
    <3> QED
      BY <1>4, <1>6, <3>2
  <2> QED
    BY <1>2, <2>1, <2>2 DEF NumberInv
<1>13. IdsFollowTheOrder'
  <2>1. \A a, b \in DOMAIN ids' : ids'[a][1] = ids'[b][1] =>
            (Before(a, b) <=> ids'[a][2] < ids'[b][2])
    <3>1. SUFFICES ASSUME NEW a \in DOMAIN ids', NEW b \in DOMAIN ids',
                          ids'[a][1] = ids'[b][1]
                   PROVE  Before(a, b) <=> ids'[a][2] < ids'[b][2]
      OBVIOUS
    <3>2. \A d \in DOMAIN ids : ids[d][1] = y => ids[d][2] < counters[y] + 1
      BY <1>4, <1>11 DEF NumberInv
    <3>3. CASE a \in DOMAIN ids /\ b \in DOMAIN ids
      BY <1>6, <3>1, <3>3 DEF IdsFollowTheOrder
    <3>4. CASE a \in DOMAIN ids /\ b = e
      BY <1>6, <1>11, <3>1, <3>2, <3>4
    <3>5. CASE a = e /\ b \in DOMAIN ids
      <4>1. ~Before(e, b)
        BY <1>3, <1>11, <3>5, NotBoth
      <4>2. ids[b][2] < counters[y] + 1 /\ ids[b][2] \in Nat
        BY <1>6, <1>11, <3>1, <3>2, <3>5
      <4>3. ~(counters[y] + 1 < ids[b][2])
        BY <1>4, <4>2
      <4> QED
        BY <1>6, <3>5, <4>1, <4>3
    <3>6. CASE a = e /\ b = e
      <4>1. ~Before(e, e)
        BY <1>3, NotBoth
      <4> QED
        BY <1>4, <1>6, <3>6, <4>1
    <3> QED
      BY <1>6, <3>3, <3>4, <3>5, <3>6
  <2>2. \A z \in Years : \A n \in 1..counters'[z] : \E d \in DOMAIN ids' : ids'[d] = <<z, n>>
    <3>1. SUFFICES ASSUME NEW z \in Years, NEW n \in 1..counters'[z]
                   PROVE  \E d \in DOMAIN ids' : ids'[d] = <<z, n>>
      OBVIOUS
    <3>2. CASE z = y /\ n = counters[y] + 1
      BY <1>6, <3>2
    <3>3. CASE ~(z = y /\ n = counters[y] + 1)
      <4>1. n \in 1..counters[z]
        BY <1>4, <1>6, <3>3
      <4>2. PICK d \in DOMAIN ids : ids[d] = <<z, n>>
        BY <4>1 DEF IdsFollowTheOrder
      <4> QED
        BY <1>6, <4>2
    <3> QED
      BY <3>2, <3>3
  <2>3. \A a, b \in DOMAIN ids' : ids'[a] = ids'[b] => a = b
    <3>1. SUFFICES ASSUME NEW a \in DOMAIN ids', NEW b \in DOMAIN ids',
                          ids'[a] = ids'[b], a # b
                   PROVE  FALSE
      OBVIOUS
    <3>2. /\ a \in candidates' /\ b \in candidates'
          /\ a \in SyntheticEvent /\ b \in SyntheticEvent
      BY <1>7 DEF TypeOK
    <3>3. a.type # b.type \/ a.ordinal # b.ordinal
      BY <1>8, <3>1, <3>2 DEF DrawInv
    <3>4. Before(a, b) \/ Before(b, a)
      BY <3>2, <3>3, OneBefore
    <3>5. ids'[a][2] \in Nat
      BY <1>4, <1>6, <1>11
    <3> QED
      BY <2>1, <3>1, <3>4, <3>5
  <2> QED
    BY <2>1, <2>2, <2>3 DEF IdsFollowTheOrder
<1> QED
  BY <1>7, <1>8, <1>9, <1>10, <1>12, <1>13

-----------------------------------------------------------------------------
\* The scheduler's inductive invariant, for any catalogue, portfolio and grid.
THEOREM SchedulerInvariant == Spec => []SchedulerInv
<1>1. Init => SchedulerInv
  <2> SUFFICES ASSUME Init
               PROVE  SchedulerInv
    OBVIOUS
  <2>1. TypeOK
    BY SchedulerConstants DEF Init, TypeOK
  <2>2. DrawInv /\ ResolveInv /\ KeptEventsObeyTheRules /\ DroppedForAKeptOne
    BY DEF Init, DrawInv, ResolveInv, KeptEventsObeyTheRules, DroppedForAKeptOne
  <2>3. NumberInv /\ IdsFollowTheOrder
    BY DEF Init, NumberInv, IdsFollowTheOrder, Unnumbered
  <2> QED
    BY <2>1, <2>2, <2>3 DEF SchedulerInv
<1>2. SchedulerInv /\ [Next]_vars => SchedulerInv'
  <2> SUFFICES ASSUME SchedulerInv, [Next]_vars
               PROVE  SchedulerInv'
    OBVIOUS
  <2>1. CASE UNCHANGED vars
    BY <2>1 DEF SchedulerInv, vars, TypeOK, DrawInv, ResolveInv, NumberInv, Drawing,
       Unnumbered, KeptEventsObeyTheRules, RequiredGap, OverlapAllowed, DroppedForAKeptOne,
       Conflict, IdsFollowTheOrder
  <2> QED
    BY <2>1, DrawPreserves, NextPreserves, ResolvePreserves, AssignPreserves DEF Next
<1> QED
  BY <1>1, <1>2, PTL DEF Spec

\* Candidates lie on the grid and inside it, and the lists nest.
THEOREM SchedulerTypes == Spec => []TypeOK
<1>1. SchedulerInv => TypeOK
  BY DEF SchedulerInv
<1> QED
  BY <1>1, SchedulerInvariant, PTL

\* Two kept events of related assets keep the required distance and overlap
\* only where the catalogue allows it.
THEOREM KeptEventsObey == Spec => []KeptEventsObeyTheRules
<1>1. SchedulerInv => KeptEventsObeyTheRules
  BY DEF SchedulerInv
<1> QED
  BY <1>1, SchedulerInvariant, PTL

\* No event is dropped without a kept one before it that it conflicts with.
THEOREM DroppedForCause == Spec => []DroppedForAKeptOne
<1>1. SchedulerInv => DroppedForAKeptOne
  BY DEF SchedulerInv
<1> QED
  BY <1>1, SchedulerInvariant, PTL

\* Event numbers of a year have no gaps and follow the sort key.
THEOREM IdsFollowOrder == Spec => []IdsFollowTheOrder
<1>1. SchedulerInv => IdsFollowTheOrder
  BY DEF SchedulerInv
<1> QED
  BY <1>1, SchedulerInvariant, PTL
=============================================================================
