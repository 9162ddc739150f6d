----------------------------- MODULE SchedAudit ------------------------------
(***************************************************************************)
(* GridKernel with two history variables, to state what a job gets from    *)
(* the scheduler over time: how often it is passed over and how long its   *)
(* slices are.  They record the run and constrain nothing.                 *)
(***************************************************************************)
EXTENDS GridKernel

VARIABLES
    passed,   \* per job slot: dispatches of others since it became ready or ran
    ran       \* ticks the running job has seen in ring 3 in its slice

audit_vars == <<vars, passed, ran>>

\* This step is a dispatch by sched_service.
Dispatch ==
    /\ caller' = "sched_service"
    /\ running_slot = -1 \/ suspended' # suspended

AuditInit == Init /\ passed = [i \in JobSlots |-> 0] /\ ran = 0

AuditNext ==
    /\ Next
    /\ passed' = [i \in JobSlots |->
                    IF i \notin Ready(Live) \/ i \notin Ready(Live)' THEN 0
                    ELSE IF ~Dispatch THEN passed[i]
                    ELSE IF i = running_slot' THEN 0
                    ELSE passed[i] + 1]
    /\ ran' = IF Dispatch THEN 0
              ELSE IF caller = "sched_service" /\ ticks' # ticks THEN ran + 1
              ELSE ran

AuditSpec == AuditInit /\ [][AuditNext]_audit_vars

------------------------------------------------------------------------------
\* sched_host_test.c, "Round-robin dispatch", over every history: between two
\* turns of a ready job each other slot has at most one turn.
Rotation == INSTANCE BoundedBypass
                WITH Clients <- JobSlots, Bound <- JobsMax - 1,
                     ready <- Ready(Live), passed <- passed
RoundRobin == Rotation!Spec

\* A job is preempted when its slice has lasted one quantum, never on a
\* quantum counted for another job or on a flag left from an earlier slice.
FullSlices ==
    [][cpu = "ring3" /\ cpu' = "kernel" /\ programs'[active_program].has_ctx
          => ran' = Quantum]_audit_vars
==============================================================================
