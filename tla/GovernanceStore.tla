-------------------------- MODULE GovernanceStore ---------------------------
(***************************************************************************)
(* Recommendations under review: their lifecycle, their owners, and the    *)
(* audit history of both.  A write replaces the recommendation first and   *)
(* makes its audit event after that; what raises in between leaves the     *)
(* recommendation changed and the history as it was.                       *)
(***************************************************************************)
EXTENDS Naturals, Sequences

CONSTANTS
    Recommendations,
    Owners,     \* [owner_id, display_name] of owners a user can enter
    Roles,      \* of the actors
    MaxOccurred,
    MaxHistory,     \* writes, with or without an event
    Required(_),    \* a text without the space around it
    None

VARIABLES
    recommendations, events,
    missed  \* history: the recommendations of events that were never made

vars == <<recommendations, events, missed>>

ALLOWED_TRANSITIONS ==
    [PROPOSED     |-> {"UNDER_REVIEW", "CANCELLED"},
     UNDER_REVIEW |-> {"APPROVED", "DEFERRED", "REJECTED", "CANCELLED"},
     DEFERRED     |-> {"UNDER_REVIEW", "CANCELLED"},
     APPROVED     |-> {"IN_PROGRESS", "CANCELLED"},
     IN_PROGRESS  |-> {"COMPLETED", "CANCELLED"},
     REJECTED     |-> {},
     COMPLETED    |-> {},
     CANCELLED    |-> {}]

RecommendationStatus == DOMAIN ALLOWED_TRANSITIONS

Unassigned == [owner_id |-> None, display_name |-> "Unassigned"]

\* An owner keeps the name as it was entered.
Label(owner) == owner.display_name

\* Statuses and notes come to an event without space around them.
GovernanceFits ==
    /\ MaxOccurred \in Nat /\ MaxHistory \in Nat
    /\ \A text \in RecommendationStatus \cup {"note"} : Required(text) = text

Authorized(role) == role \in {"operator", "admin"}

\* The places of the events about r in the log.
History(r) == {k \in DOMAIN events : events[k].recommendation = r}

IsLast(k, S) == k \in S /\ \A j \in S : j <= k

\* Times are normalised to UTC; the history of a recommendation does not go
\* back, those of two recommendations may.
ValidEventTime(r, at) ==
    \A k \in History(r) : IsLast(k, History(r)) => at >= events[k].occurred_at

\* An event strips its new value, but not the one before.
Record(r, type, previous, new, at) ==
    /\ Len(events) + Len(missed) < MaxHistory
    /\ events' = Append(events, [recommendation |-> r, event_type |-> type,
           previous_value |-> previous, new_value |-> Required(new), occurred_at |-> at])
    /\ UNCHANGED missed

\* What making the event raises comes too late for the recommendation.
RaiseBeforeEvent(r) ==
    /\ Len(events) + Len(missed) < MaxHistory
    /\ missed' = Append(missed, r)
    /\ UNCHANGED events

\* A transition of r has changed its status without an event.
Unaudited(r) == \E k \in DOMAIN missed : missed[k] = r

-----------------------------------------------------------------------------
\* Mutant: the previous status is read after the new one is written.
TransitionReadsLate(r, status, is_text, role, at) ==
    LET current == recommendations[r] IN
    /\ Authorized(role)
    /\ status # current.status /\ status \in ALLOWED_TRANSITIONS[current.status]
    /\ ValidEventTime(r, at)
    /\ recommendations' = [recommendations EXCEPT ![r] =
           [current EXCEPT !.status = status, !.is_text = is_text,
                           !.status_classification = "USER_ENTERED"]]
    /\ IF current.is_text \/ is_text THEN RaiseBeforeEvent(r)
       ELSE Record(r, "STATUS_CHANGED", status, status, at)

\* A status is a member of the enumeration or the text of one.  They compare
\* equal, but a text has no .value, which the event asks of both statuses.
Transition(r, status, is_text, role, at) ==
    LET current == recommendations[r] IN
    /\ Authorized(role)
    /\ status # current.status
    /\ status \in ALLOWED_TRANSITIONS[current.status]
    /\ ValidEventTime(r, at)
    /\ recommendations' = [recommendations EXCEPT ![r] =
           [current EXCEPT !.status = status, !.is_text = is_text,
                           !.status_classification = "USER_ENTERED"]]
    /\ \/ ~current.is_text /\ ~is_text /\ Record(r, "STATUS_CHANGED", current.status, status, at)
       \/ (current.is_text \/ is_text) /\ RaiseBeforeEvent(r)

\* No status keeps a recommendation from getting another owner.
AssignOwner(r, owner, role, at) ==
    LET current == recommendations[r] IN
    /\ Authorized(role)
    /\ owner # current.owner
    /\ ValidEventTime(r, at)
    /\ recommendations' = [recommendations EXCEPT ![r] = [current EXCEPT !.owner = owner]]
    /\ Record(r, "OWNER_ASSIGNED", Label(current.owner), Label(owner), at)

AddReviewNote(r, role, at) ==
    /\ Authorized(role)
    /\ ValidEventTime(r, at)
    /\ Record(r, "REVIEW_NOTE_ADDED", None, "note", at)
    /\ UNCHANGED recommendations

Init ==
    /\ recommendations = [r \in Recommendations |->
           [status |-> "PROPOSED", is_text |-> FALSE, status_classification |-> "CONFIGURED",
            owner |-> Unassigned]]
    /\ events = <<>>
    /\ missed = <<>>

Next ==
    \E r \in Recommendations, role \in Roles, at \in 1..MaxOccurred :
        \/ \E status \in RecommendationStatus, is_text \in BOOLEAN :
               Transition(r, status, is_text, role, at)
        \/ \E owner \in Owners : AssignOwner(r, owner, role, at)
        \/ AddReviewNote(r, role, at)

Spec == Init /\ [][Next]_vars

-----------------------------------------------------------------------------
TypeOK ==
    /\ \A r \in Recommendations :
           /\ recommendations[r].status \in RecommendationStatus
           /\ recommendations[r].owner \in Owners \cup {Unassigned}
    /\ Len(events) + Len(missed) <= MaxHistory

EventsOfType(r, type) == {k \in History(r) : events[k].event_type = type}

\* The events at S lead, one after the other, from the first value to the
\* value kept now, but for the space around values.
Explains(S, first, now) ==
    /\ S = {} => now = first
    /\ \A k \in S : /\ (\A j \in S : k <= j) => events[k].previous_value = first
                    /\ IsLast(k, S) => events[k].new_value = Required(now)
    /\ \A j, k \in S : j < k /\ (\A i \in S : i <= j \/ k <= i) =>
           events[j].new_value = Required(events[k].previous_value)

\* The audit history explains the state: replaying a recommendation's events
\* without a gap, in the order of their times, leads to its status, unless a
\* transition from or to the text of a status raised, and to the name of its
\* owner; and a status is marked as entered by a user if and only if an event
\* tells of one, or was never made.
HistoryExplainsState ==
    \A r \in Recommendations :
        LET statuses == EventsOfType(r, "STATUS_CHANGED") IN
        /\ ~Unaudited(r) => Explains(statuses, "PROPOSED", recommendations[r].status)
        /\ Explains(EventsOfType(r, "OWNER_ASSIGNED"), Label(Unassigned),
                    Label(recommendations[r].owner))
        /\ \A j, k \in History(r) : j < k => events[j].occurred_at <= events[k].occurred_at
        /\ recommendations[r].status_classification = "USER_ENTERED" <=>
               statuses # {} \/ Unaudited(r)

\* What the history says is rejected, completed or cancelled is so now, and no
\* status follows; and nothing is carried out that was not approved while it
\* was under review, as far as all transitions made their events.
ReviewedBeforeDone ==
    \A r \in Recommendations :
        LET statuses == EventsOfType(r, "STATUS_CHANGED") IN
        \A k \in statuses :
            /\ events[k].new_value \in {"REJECTED", "COMPLETED", "CANCELLED"} =>
                   IsLast(k, statuses) /\ recommendations[r].status = events[k].new_value
            /\ ~Unaudited(r) /\ events[k].new_value \in {"IN_PROGRESS", "COMPLETED"} =>
                   \E i, j \in statuses : /\ i < j /\ j < k
                                          /\ events[i].new_value = "UNDER_REVIEW"
                                          /\ events[j].new_value = "APPROVED"

-----------------------------------------------------------------------------
(* The inductive invariant.                                                *)

Recommendation ==
    [status : RecommendationStatus, is_text : BOOLEAN,
     status_classification : {"CONFIGURED", "USER_ENTERED"}, owner : Owners \cup {Unassigned}]

Event ==
    [recommendation : Recommendations,
     event_type     : {"STATUS_CHANGED", "OWNER_ASSIGNED", "REVIEW_NOTE_ADDED"},
     previous_value : RecommendationStatus \cup {Label(o) : o \in Owners \cup {Unassigned}} \cup {None},
     new_value      : RecommendationStatus \cup {Required(Label(o)) : o \in Owners \cup {Unassigned}}
                          \cup {"note"},
     occurred_at    : 1..MaxOccurred]

HasLast(S) == S = {} \/ \E k \in S : IsLast(k, S)

\* What is approved was under review before.
ApprovedInReview(r) ==
    LET statuses == EventsOfType(r, "STATUS_CHANGED") IN
    \A j \in statuses : events[j].new_value = "APPROVED" =>
        \E i \in statuses : i < j /\ events[i].new_value = "UNDER_REVIEW"

GovernanceInv ==
    /\ recommendations \in [Recommendations -> Recommendation]
    /\ events \in Seq(Event) /\ missed \in Seq(Recommendations)
    /\ Len(events) + Len(missed) <= MaxHistory
    /\ \A r \in Recommendations :
           /\ HasLast(History(r)) /\ HasLast(EventsOfType(r, "STATUS_CHANGED"))
           /\ ~Unaudited(r) => ApprovedInReview(r)
    /\ HistoryExplainsState /\ ReviewedBeforeDone
=============================================================================
