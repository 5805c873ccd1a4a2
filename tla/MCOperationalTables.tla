------------------------ MODULE MCOperationalTables -------------------------
EXTENDS OperationalTables

\* Alarms as an operator raises them, and closed history as an import has it.
MCNewAlarms ==
    {[status |-> "active", raised_at |-> t, acknowledged_at |-> None,
      cleared_at |-> None] : t \in {1, 2}}
    \cup {[status |-> "cleared", raised_at |-> 1, acknowledged_at |-> None,
           cleared_at |-> 2]}

\* An incident as it is opened by hand, one detected by the monitoring, and a
\* closed one from an import of history.
MCNewIncidents ==
    {[status |-> "open", occurred_at |-> 1, detected_at |-> d,
      resolved_at |-> None, root_cause |-> None] : d \in {None, 2}}
    \cup {[status |-> "resolved", occurred_at |-> 1, detected_at |-> 1,
           resolved_at |-> 2, root_cause |-> "text"]}

\* Work orders as they are opened by hand: unassigned, or assigned to a team
\* and planned for a later time.
MCNewWorkOrders ==
    {[status |-> "open", assigned_team |-> None, created_at |-> 1,
      scheduled_at |-> None, started_at |-> None, completed_at |-> None,
      cancelled_at |-> None],
     [status |-> "assigned", assigned_team |-> Team, created_at |-> 1,
      scheduled_at |-> 2, started_at |-> None, completed_at |-> None,
      cancelled_at |-> None]}
=============================================================================
