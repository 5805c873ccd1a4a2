-------------------------- MODULE RecordLifecycle --------------------------
(***************************************************************************)
(* What the operations platform expects of an operational record (an alarm *)
(* or an incident): it is created, open or already closed; an open record  *)
(* may be closed; a closed record is never opened again, it is only        *)
(* deleted.  KPIs, open-event lists and resolution times rest on this.     *)
(***************************************************************************)
CONSTANT Ids

VARIABLE phase

Phases == {"absent", "open", "closed"}

LifecycleInit == phase = [id \in Ids |-> "absent"]

CreateRecord(id) ==
    /\ phase[id] = "absent"
    /\ \E p \in {"open", "closed"} : phase' = [phase EXCEPT ![id] = p]

CloseRecord(id) ==
    /\ phase[id] = "open"
    /\ phase' = [phase EXCEPT ![id] = "closed"]

DeleteRecord(id) ==
    /\ phase[id] # "absent"
    /\ phase' = [phase EXCEPT ![id] = "absent"]

LifecycleNext == \E id \in Ids : CreateRecord(id) \/ CloseRecord(id) \/ DeleteRecord(id)

LifecycleSpec == LifecycleInit /\ [][LifecycleNext]_phase
=============================================================================
