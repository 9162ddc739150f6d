------------------------------ MODULE GridSched ------------------------------
(***************************************************************************)
(* The job table of kernel/sched.c and the tick counter of kernel/timer.c. *)
(* Each operation is an action on the variables it assigns; GridKernel     *)
(* joins them with the program table, which the scheduler only sees        *)
(* through program_get: `live' is the set of program ids for which it      *)
(* returns a program that has neither exited nor faulted.                  *)
(***************************************************************************)
EXTENDS Integers, FiniteSets

CONSTANTS
    ProgramSlots,   \* PROGRAM_SLOTS: 4 in the code
    JobsMax,        \* SCHED_JOBS_MAX: 4 in the code
    Quantum,        \* SCHED_QUANTUM: 25 ticks in the code
    TickMod         \* the tick counter counts modulo this: 2^32 in the code

ASSUME SchedAssumption ==
    /\ ProgramSlots \in Nat \ {0}
    /\ JobsMax \in Nat \ {0}
    /\ Quantum \in Nat \ {0}
    /\ TickMod \in Nat /\ TickMod > Quantum

VARIABLES
    jobs,             \* the job table
    job_count,        \* number of active entries, kept by hand in the code
    preempt_armed,    \* preemption is on
    quantum_expired,  \* the running job's quantum is used up
    next_run,         \* round-robin cursor
    running_slot,     \* job slot being executed, -1 for none
    ticks             \* timer.c's counter

Ids == 1 .. ProgramSlots
JobSlots == 0 .. JobsMax - 1

Job == [program_id : 0 .. ProgramSlots, active : BOOLEAN,
        slice_start : 0 .. TickMod - 1]

\* An entry not in use.  Where the code leaves the old program_id and
\* slice_start in it, nothing reads them: the model clears them.
NoJob == [program_id |-> 0, active |-> FALSE, slice_start |-> 0]

Active == {i \in JobSlots : jobs[i].active}
JobsOf(id) == {i \in Active : jobs[i].program_id = id}

\* The table with the entries S taken out.
Without(S) == [i \in JobSlots |-> IF i \in S THEN NoJob ELSE jobs[i]]

SchedInit ==
    /\ jobs = [i \in JobSlots |-> NoJob]
    /\ job_count = 0
    /\ preempt_armed = FALSE
    /\ quantum_expired = FALSE
    /\ next_run = 0
    /\ running_slot = -1
    /\ ticks = 0

------------------------------------------------------------------------------
\* sched_launch returns -1: the program is in no job and no job is free.
LaunchFails(id) == JobsOf(id) = {} /\ Active = JobSlots

\* Mutant: no check that the program already has a job.
LaunchTwice(id) ==
    \E i \in JobSlots \ Active :
        /\ \A j \in JobSlots \ Active : i <= j
        /\ jobs' = [jobs EXCEPT ![i] = [program_id |-> id, active |-> TRUE,
                                        slice_start |-> ticks]]
        /\ job_count' = job_count + 1
        /\ preempt_armed' = TRUE

\* sched_launch when it returns 0.
sched_launch(id) ==
    \/ /\ JobsOf(id) # {}
       /\ UNCHANGED <<jobs, job_count, preempt_armed>>
    \/ \E i \in JobSlots \ Active :
          /\ JobsOf(id) = {}
          /\ \A j \in JobSlots \ Active : i <= j
          /\ jobs' = [jobs EXCEPT ![i] = [program_id |-> id, active |-> TRUE,
                                          slice_start |-> ticks]]
          /\ job_count' = job_count + 1
          /\ preempt_armed' = TRUE

\* What sched_kill and sched_detach do to the job table.
RemoveJobs(id) ==
    LET left == job_count - Cardinality(JobsOf(id))
    IN  /\ jobs' = Without(JobsOf(id))
        /\ job_count' = IF JobsOf(id) # {} /\ left <= 0 THEN 0 ELSE left
        /\ preempt_armed' = (preempt_armed /\ (JobsOf(id) # {} => left > 0))
        /\ quantum_expired' = (quantum_expired /\ (JobsOf(id) # {} => left > 0))

sched_kill_all ==
    /\ jobs' = Without(Active)
    /\ job_count' = 0
    /\ preempt_armed' = FALSE
    /\ quantum_expired' = FALSE

------------------------------------------------------------------------------
(***************************************************************************)
(* sched_service scans the slots from the cursor, drops the entries whose  *)
(* program is gone or ended, and runs the first live one.                  *)
(***************************************************************************)
Turn(i) == (i - next_run) % JobsMax

Ready(live) == {i \in Active : jobs[i].program_id \in live}

Picked(live, i) == i \in Ready(live) /\ \A j \in Ready(live) : Turn(i) <= Turn(j)

\* The entries the scan drops before it picks slot i ...
ReapedBefore(live, i) == {j \in Active \ Ready(live) : Turn(j) < Turn(i)}

\* Mutants: the flat scan sched.c used to have, and a cursor that leaves the table.
FlatScan(i) == 0
NoWrap(i) == i + 1

NextCursor(i) == (i + 1) % JobsMax

\* ... and the dispatch of slot i, up to the call of program_run.
ServicePicks(live, i) ==
    /\ Picked(live, i)
    /\ jobs' = [Without(ReapedBefore(live, i)) EXCEPT ![i].slice_start = ticks]
    /\ job_count' = job_count - Cardinality(ReapedBefore(live, i))
    /\ quantum_expired' = FALSE
    /\ next_run' = NextCursor(i)
    /\ running_slot' = i
    /\ UNCHANGED preempt_armed

\* Mutant: entries are dropped without being counted off.
IdlesUncounted(live) ==
    /\ Ready(live) = {}
    /\ jobs' = Without(Active)
    /\ preempt_armed' = (preempt_armed /\ job_count # 0)
    /\ UNCHANGED <<job_count, quantum_expired, next_run, running_slot>>

\* A scan that finds nothing to run drops every entry it meets.
ServiceIdles(live) ==
    /\ Ready(live) = {}
    /\ jobs' = Without(Active)
    /\ job_count' = job_count - Cardinality(Active)
    /\ preempt_armed' = (preempt_armed /\ job_count' # 0)
    /\ UNCHANGED <<quantum_expired, next_run, running_slot>>

------------------------------------------------------------------------------
\* timer_on_irq's counter and sched_on_timer.
NextTick == (ticks + 1) % TickMod

SliceUsed(slot, now) == (now - jobs[slot].slice_start) % TickMod

\* Mutant: sched_on_timer as it used to be, looking at every active job.
OnTimerAnyJob(now) ==
    \/ quantum_expired
    \/ preempt_armed /\ job_count # 0 /\ \E i \in Active : SliceUsed(i, now) >= Quantum

\* Mutant: a slice one tick too long.
OnTimerLate(now) ==
    \/ quantum_expired
    \/ /\ preempt_armed /\ job_count # 0
       /\ running_slot >= 0
       /\ jobs[running_slot].active
       /\ SliceUsed(running_slot, now) > Quantum

sched_on_timer(now) ==
    \/ quantum_expired
    \/ /\ preempt_armed /\ job_count # 0
       /\ running_slot >= 0
       /\ jobs[running_slot].active
       /\ SliceUsed(running_slot, now) >= Quantum

\* sched_should_preempt, asked by isr_timer right after the tick.
sched_should_preempt(expired) == preempt_armed /\ job_count # 0 /\ expired

SchedTypeOK ==
    /\ jobs \in [JobSlots -> Job]
    /\ job_count \in 0 .. JobsMax
    /\ preempt_armed \in BOOLEAN
    /\ quantum_expired \in BOOLEAN
    /\ next_run \in JobSlots
    /\ running_slot \in JobSlots \cup {-1}
    /\ ticks \in 0 .. TickMod - 1

\* job_count, which launch, kill, detach and service each adjust by hand, is
\* the number of active entries, and preemption is on while there is one:
\* a drift would leave `wait' looping for ever or a job never preempted.
JobAccounting ==
    /\ job_count = Cardinality(Active)
    /\ job_count > 0 => preempt_armed

\* A program is in at most one job, although its id outlives it: an entry
\* whose program has ended stays until the next scan, and find_slot may give
\* the id to another program in the meantime.
JobsDistinct == \A i, j \in Active : jobs[i].program_id = jobs[j].program_id => i = j

\* With as many job entries as program slots, as in the code, a program just
\* loaded always finds an entry, left-over entries of ended programs included.
\* program_run_background relies on it: when sched_launch fails it drops the
\* slot and keeps its pages.
RoomForEveryProgram == \A id \in Ids : ~LaunchFails(id)
==============================================================================
