-------------------------- MODULE GridKernelProofs ---------------------------
(***************************************************************************)
(* Jobs and programs, for every number of entries, programs, pages and     *)
(* images: the job table keeps its accounts, the inductive invariant of    *)
(* GridKernel and the theorems that follow from it, and, over time, what a *)
(* job gets from the scheduler: sched_service goes round the table, as     *)
(* BoundedBypass has it, and no slice is cut short.                        *)
(***************************************************************************)
EXTENDS SchedAudit, FiniteSetTheorems, WellFoundedInduction, TLAPS

job_vars == <<jobs, job_count, preempt_armed>>

------------------------------------------------------------------------------
\* The job slots are finitely many, and so are the active ones.
LEMMA SlotsFinite ==
    /\ IsFiniteSet(JobSlots) /\ Cardinality(JobSlots) = JobsMax
    /\ \A S \in SUBSET JobSlots : IsFiniteSet(S) /\ Cardinality(S) \in 0 .. JobsMax
<1>1. JobsMax \in Nat \ {0}
  BY SchedAssumption
<1>2. IsFiniteSet(JobSlots) /\ Cardinality(JobSlots) = JobsMax
  BY <1>1, FS_Interval DEF JobSlots
<1>3. ASSUME NEW S \in SUBSET JobSlots
      PROVE  IsFiniteSet(S) /\ Cardinality(S) \in 0 .. JobsMax
  <2>1. IsFiniteSet(S) /\ Cardinality(S) <= JobsMax
    BY <1>2, FS_Subset
  <2>2. Cardinality(S) \in Nat
    BY <2>1, FS_CardinalityType
  <2> QED
    BY <2>1, <2>2, <1>1
<1> QED
  BY <1>2, <1>3

\* Taking entries out of the table takes them out of the active set, and
\* lowers its cardinality by as many.
LEMMA WithoutActive ==
    ASSUME jobs \in [JobSlots -> Job],
           NEW R \in SUBSET Active,
           jobs' = Without(R)
    PROVE  /\ jobs' \in [JobSlots -> Job]
           /\ Active' = Active \ R
           /\ \A i \in Active \ R : jobs'[i] = jobs[i]
           /\ Cardinality(Active') = Cardinality(Active) - Cardinality(R)
           /\ Cardinality(R) \in Nat
<1>0. NoJob \in Job /\ NoJob.active = FALSE
  BY SchedAssumption DEF NoJob, Job
<1>1. jobs' \in [JobSlots -> Job]
  BY <1>0 DEF Without
<1>2. Active' = Active \ R
  BY <1>0 DEF Active, Without
<1>3. \A i \in Active \ R : jobs'[i] = jobs[i]
  BY DEF Active, Without
<1>4. IsFiniteSet(Active) /\ IsFiniteSet(R) /\ Active \cap R = R
  BY SlotsFinite DEF Active
<1>5. Cardinality(R) \in Nat
  BY <1>4, FS_CardinalityType
<1>6. Cardinality(Active \ R) = Cardinality(Active) - Cardinality(R)
  BY <1>4, FS_Difference
<1> QED
  BY <1>1, <1>2, <1>3, <1>5, <1>6

\* What the scheduler's functions rely on and preserve of the job table.
JobTableInv ==
    /\ jobs \in [JobSlots -> Job]
    /\ job_count \in 0 .. JobsMax
    /\ preempt_armed \in BOOLEAN
    /\ \A i \in Active : jobs[i].program_id \in Ids
    /\ JobsDistinct
    /\ JobAccounting

\* JobTableInv only looks at the job table.
LEMMA JobTableInvUnchanged ==
    ASSUME JobTableInv, UNCHANGED job_vars
    PROVE  /\ JobTableInv' /\ Active' = Active
           /\ \A id : JobsOf(id)' = JobsOf(id)
BY DEF JobTableInv, job_vars, JobsDistinct, JobAccounting, Active, JobsOf

\* sched_launch queues the program and leaves the other jobs alone.
LEMMA LaunchKeepsTable ==
    ASSUME JobTableInv, ticks \in 0 .. TickMod - 1, NEW id \in Ids, sched_launch(id)
    PROVE  /\ JobTableInv'
           /\ JobsOf(id)' # {}
           /\ \A other \in Ids : JobsOf(other) # {} => JobsOf(other)' # {}
<1>1. CASE JobsOf(id) # {} /\ UNCHANGED <<jobs, job_count, preempt_armed>>
  BY <1>1, JobTableInvUnchanged DEF job_vars
<1>2. ASSUME NEW i \in JobSlots \ Active, JobsOf(id) = {},
             jobs' = [jobs EXCEPT ![i] = [program_id |-> id, active |-> TRUE,
                                          slice_start |-> ticks]],
             job_count' = job_count + 1,
             preempt_armed' = TRUE
      PROVE  /\ JobTableInv'
             /\ JobsOf(id)' # {}
             /\ \A other \in Ids : JobsOf(other) # {} => JobsOf(other)' # {}
  <2>1. [program_id |-> id, active |-> TRUE, slice_start |-> ticks] \in Job
    BY SchedAssumption DEF Job, Ids
  <2>2. jobs \in [JobSlots -> Job] /\ jobs' \in [JobSlots -> Job]
    BY <1>2, <2>1 DEF JobTableInv
  <2>3. /\ Active' = Active \cup {i}
        /\ jobs'[i].program_id = id
        /\ \A j \in Active : jobs'[j] = jobs[j] /\ j # i
    BY <1>2, <2>2 DEF Active
  <2>4. Cardinality(Active') = Cardinality(Active) + 1
    <3>1. IsFiniteSet(Active) /\ i \notin Active
      BY SlotsFinite DEF Active
    <3> QED
      BY <2>3, <3>1, FS_AddElement
  <2>5. Cardinality(Active') \in 0 .. JobsMax
    BY SlotsFinite, <2>3 DEF Active
  <2>6. JobsDistinct'
    BY <1>2, <2>3 DEF JobTableInv, JobsDistinct, JobsOf
  <2>7. job_count' \in 0 .. JobsMax /\ JobAccounting'
    BY <1>2, <2>4, <2>5 DEF JobTableInv, JobAccounting
  <2>8. \A j \in Active' : jobs'[j].program_id \in Ids
    BY <2>3 DEF JobTableInv
  <2>9. JobTableInv'
    BY <1>2, <2>2, <2>6, <2>7, <2>8 DEF JobTableInv
  <2>10. \A other \in Ids : JobsOf(other) # {} => JobsOf(other)' # {}
    BY <2>3 DEF JobsOf
  <2> QED
    BY <2>3, <2>9, <2>10 DEF JobsOf
<1> QED
  BY <1>1, <1>2 DEF sched_launch

\* Any set of entries may be taken out, if they are counted off.
LEMMA RemovalKeepsTable ==
    ASSUME JobTableInv, NEW R \in SUBSET Active,
           jobs' = Without(R),
           job_count' = job_count - Cardinality(R),
           preempt_armed' \in BOOLEAN,
           job_count' > 0 => preempt_armed' = preempt_armed
    PROVE  /\ JobTableInv' /\ Active' = Active \ R
           /\ \A i \in Active' : jobs'[i] = jobs[i]
<1>1. /\ jobs' \in [JobSlots -> Job]
      /\ Active' = Active \ R
      /\ \A i \in Active \ R : jobs'[i] = jobs[i]
      /\ Cardinality(Active') = Cardinality(Active) - Cardinality(R)
      /\ Cardinality(R) \in Nat
  BY WithoutActive DEF JobTableInv
<1>2. job_count' = Cardinality(Active')
  BY <1>1 DEF JobTableInv, JobAccounting
<1>3. job_count' \in 0 .. JobsMax
  BY <1>1, <1>2, SlotsFinite DEF Active
<1>4. JobsDistinct'
  BY <1>1 DEF JobTableInv, JobsDistinct
<1>5. job_count' > 0 => job_count > 0
  BY <1>1, <1>3, SchedAssumption DEF JobTableInv
<1>6. JobAccounting'
  BY <1>2, <1>5 DEF JobTableInv, JobAccounting
<1> QED
  BY <1>1, <1>3, <1>4, <1>6 DEF JobTableInv

\* sched_kill and sched_detach remove exactly the jobs of one program.
LEMMA RemoveJobsKeepsTable ==
    ASSUME JobTableInv, NEW id \in Ids, RemoveJobs(id)
    PROVE  /\ JobTableInv'
           /\ JobsOf(id)' = {}
           /\ \A other \in Ids \ {id} : JobsOf(other)' = JobsOf(other)
<1>1. JobsOf(id) \in SUBSET Active
  BY DEF JobsOf
<1>2. jobs' = Without(JobsOf(id))
  BY DEF RemoveJobs
<1>3. job_count - Cardinality(JobsOf(id)) \in Nat
  <2>1. /\ IsFiniteSet(Active) /\ Cardinality(JobsOf(id)) \in Nat /\ Cardinality(Active) \in Nat
    BY SlotsFinite, <1>1 DEF Active
  <2>2. Cardinality(JobsOf(id)) <= Cardinality(Active)
    BY <1>1, <2>1, FS_Subset
  <2> QED
    BY <2>1, <2>2 DEF JobTableInv, JobAccounting
<1>4. job_count' = job_count - Cardinality(JobsOf(id))
  BY <1>3 DEF RemoveJobs
<1>5. /\ preempt_armed' \in BOOLEAN
      /\ job_count' > 0 => preempt_armed' = preempt_armed
  BY <1>3, <1>4 DEF RemoveJobs, JobTableInv
<1>6. /\ JobTableInv' /\ Active' = Active \ JobsOf(id)
      /\ \A i \in Active' : jobs'[i] = jobs[i]
  BY <1>1, <1>2, <1>4, <1>5, RemovalKeepsTable
<1> QED
  BY <1>6 DEF JobsOf

\* sched_kill_all empties the table.
LEMMA KillAllKeepsTable ==
    ASSUME JobTableInv, sched_kill_all
    PROVE  JobTableInv' /\ Active' = {}
<1>1. Active' = {} /\ jobs' \in [JobSlots -> Job]
  BY WithoutActive DEF sched_kill_all, JobTableInv
<1>2. Cardinality(Active') = 0
  BY <1>1, FS_EmptySet
<1>3. job_count' = 0 /\ preempt_armed' = FALSE
  BY DEF sched_kill_all
<1>4. JobsDistinct' /\ \A i \in Active' : jobs'[i].program_id \in Ids
  BY <1>1 DEF JobsDistinct
<1>5. JobAccounting' /\ job_count' \in 0 .. JobsMax
  BY <1>2, <1>3, SchedAssumption DEF JobAccounting
<1> QED
  BY <1>1, <1>3, <1>4, <1>5 DEF JobTableInv

\* The scan drops only entries whose program is not live, and keeps all live ones.
LEMMA PickKeepsTable ==
    ASSUME JobTableInv, ticks \in 0 .. TickMod - 1, NEW live, NEW i \in JobSlots,
           ServicePicks(live, i)
    PROVE  /\ JobTableInv'
           /\ i \in Active /\ i \in Active'
           /\ jobs[i].program_id \in live \cap Ids
           /\ jobs'[i].program_id = jobs[i].program_id
           /\ jobs'[i].slice_start = ticks
           /\ \A id \in live \cap Ids : JobsOf(id) # {} => JobsOf(id)' # {}
<1> DEFINE R == ReapedBefore(live, i)
           thinned == Without(R)
<1>1. R \in SUBSET Active /\ i \in Active /\ i \notin R /\ jobs[i].program_id \in live
  BY DEF ReapedBefore, ServicePicks, Picked, Ready
<1>0. NoJob \in Job /\ NoJob.active = FALSE
  BY SchedAssumption DEF NoJob, Job
<1>2. thinned \in [JobSlots -> Job] /\ \A j \in JobSlots : j \notin R => thinned[j] = jobs[j]
  BY <1>0 DEF Without, JobTableInv
<1>3. /\ jobs' \in [JobSlots -> Job]
      /\ jobs'[i] = [jobs[i] EXCEPT !.slice_start = ticks]
      /\ \A j \in JobSlots \ {i} : jobs'[j] = thinned[j]
  <2>1. jobs' = [thinned EXCEPT ![i].slice_start = ticks]
    BY DEF ServicePicks
  <2>2. [thinned[i] EXCEPT !.slice_start = ticks] \in Job
    BY <1>2 DEF Job
  <2> QED
    BY <1>1, <1>2, <2>1, <2>2
<1>4. /\ jobs'[i].program_id = jobs[i].program_id /\ jobs'[i].active = jobs[i].active
      /\ jobs'[i].slice_start = ticks
  BY <1>3 DEF Job, JobTableInv
<1>5. Active' = Active \ R
  <2>1. \A j \in R : thinned[j] = NoJob
    BY <1>1 DEF Without, Active
  <2> QED
    BY <1>0, <1>1, <1>2, <1>3, <1>4, <2>1 DEF Active
<1>6. \A j \in Active' : jobs'[j].program_id = jobs[j].program_id
  BY <1>2, <1>3, <1>4, <1>5 DEF Active
<1>7. /\ Cardinality(Active') = Cardinality(Active) - Cardinality(R)
      /\ Cardinality(R) \in Nat
  <2>1. IsFiniteSet(Active) /\ IsFiniteSet(R) /\ Active \cap R = R
    BY <1>1, SlotsFinite DEF Active
  <2> QED
    BY <1>5, <2>1, FS_Difference, FS_CardinalityType
<1>8. job_count' = Cardinality(Active') /\ job_count' \in 0 .. JobsMax
  <2>1. job_count' = job_count - Cardinality(R)
    BY DEF ServicePicks
  <2> QED
    BY <1>7, <2>1, SlotsFinite DEF JobTableInv, JobAccounting, Active
<1>9. preempt_armed' = preempt_armed /\ (job_count' > 0 => job_count > 0)
  BY <1>7, <1>8, SchedAssumption DEF ServicePicks, JobTableInv, JobAccounting
<1>10. JobAccounting'
  BY <1>8, <1>9 DEF JobTableInv, JobAccounting
<1>11. JobsDistinct'
  BY <1>5, <1>6 DEF JobTableInv, JobsDistinct
<1>12. JobTableInv'
  BY <1>3, <1>5, <1>6, <1>8, <1>9, <1>10, <1>11 DEF JobTableInv
<1>13. \A id \in live \cap Ids : JobsOf(id) # {} => JobsOf(id)' # {}
  BY <1>5, <1>6 DEF JobsOf, ReapedBefore, Ready
<1> QED
  BY <1>1, <1>4, <1>5, <1>12, <1>13 DEF JobTableInv

\* A scan that finds nothing to run leaves no entry, and there was no live one.
LEMMA IdleKeepsTable ==
    ASSUME JobTableInv, NEW live, ServiceIdles(live)
    PROVE  /\ JobTableInv'
           /\ \A id \in live : JobsOf(id) = {}
<1>1. job_count' = job_count - Cardinality(Active) /\ jobs' = Without(Active)
  BY DEF ServiceIdles
<1>2. preempt_armed' \in BOOLEAN /\ (job_count' > 0 => preempt_armed' = preempt_armed)
  <2>1. preempt_armed' = (preempt_armed /\ job_count' # 0)
    BY DEF ServiceIdles
  <2> QED
    BY <2>1 DEF JobTableInv
<1>3. JobTableInv'
  BY <1>1, <1>2, RemovalKeepsTable
<1> QED
  BY <1>3 DEF ServiceIdles, JobsOf, Ready

------------------------------------------------------------------------------
\* With at least as many job entries as program slots, sched_launch never
\* fails: the ids in the table are distinct, so a full table holds them all.
LEMMA TableHasRoom ==
    ASSUME JobTableInv, JobsMax >= ProgramSlots
    PROVE  RoomForEveryProgram
<1> SUFFICES ASSUME NEW id \in Ids, JobsOf(id) = {}, Active = JobSlots
             PROVE  FALSE
  BY DEF RoomForEveryProgram, LaunchFails
<1> DEFINE f == [i \in JobSlots |-> jobs[i].program_id]
           T == Ids \ {id}
<1>1. f \in [JobSlots -> T]
  BY DEF JobTableInv, JobsOf
<1>2. \A i, j \in JobSlots : f[i] = f[j] => i = j
  BY DEF JobTableInv, JobsDistinct
<1>3. IsFiniteSet(Ids) /\ Cardinality(Ids) = ProgramSlots
  BY SchedAssumption, FS_Interval DEF Ids
<1>4. IsFiniteSet(T) /\ Cardinality(T) = ProgramSlots - 1
  BY <1>3, FS_RemoveElement
<1>5. IsFiniteSet(JobSlots) /\ Cardinality(T) < Cardinality(JobSlots)
  BY <1>4, SlotsFinite, SchedAssumption
<1> HIDE DEF f, T
<1>6. \E i, j \in JobSlots : i # j /\ f[i] = f[j]
  BY <1>1, <1>4, <1>5, FS_PigeonHole
<1> QED
  BY <1>2, <1>6

------------------------------------------------------------------------------
(***************************************************************************)
(* Page pools                                                              *)
(***************************************************************************)
Pool(N) == [0 .. N - 1 -> 0 .. ProgramSlots]

\* Releasing the pages of one owner frees no page of another.
LEMMA ReleaseFacts ==
    ASSUME NEW N \in Nat, NEW pool \in Pool(N), NEW id \in Ids
    PROVE  /\ Release(pool, id) \in Pool(N)
           /\ \A other \in Ids \ {id} : Owned(Release(pool, id), other) = Owned(pool, other)
BY SchedAssumption DEF Pool, Ids, Release, Owned

\* Allocation takes free pages only, tags them, and takes one when it fits.
LEMMA TakeFacts ==
    ASSUME NEW N \in Nat, NEW pool \in Pool(N), NEW id \in Ids, NEW n \in Nat \ {0}
    PROVE  /\ Take(pool, n, id) \in Pool(N)
           /\ FirstFree(pool, n) \in SUBSET (0 .. N - 1)
           /\ FirstFree(pool, n) \subseteq Owned(Take(pool, n, id), id)
           /\ \A other \in Ids : Owned(pool, other) \subseteq Owned(Take(pool, n, id), other)
           /\ Enough(pool, n) => FirstFree(pool, n) # {}
<1>0. DOMAIN pool = 0 .. N - 1 /\ ProgramSlots \in Nat
  BY SchedAssumption DEF Pool
<1>1. /\ Take(pool, n, id) \in Pool(N)
      /\ FirstFree(pool, n) \in SUBSET (0 .. N - 1)
  BY <1>0 DEF Take, FirstFree, Free, Pool, Ids
<1>2. FirstFree(pool, n) \subseteq Owned(Take(pool, n, id), id)
  BY <1>0 DEF Take, FirstFree, Free, Owned
<1>3. \A other \in Ids : Owned(pool, other) \subseteq Owned(Take(pool, n, id), other)
  BY <1>0 DEF Take, FirstFree, Free, Owned, Ids
<1>4. ASSUME Enough(pool, n) PROVE FirstFree(pool, n) # {}
  <2>1. Free(pool) # {}
    <3>1. n > 0 /\ Cardinality({}) = 0
      BY FS_EmptySet
    <3> QED
      BY <1>4, <3>1 DEF Enough
  <2>2. Free(pool) \subseteq Nat
    BY <1>0 DEF Free
  <2>3. PICK p \in Free(pool) : \A q \in Free(pool) : ~(<<q, p>> \in OpToRel(<, Nat))
    BY <2>1, <2>2, NatLessThanWellFounded, WFMin
  <2>4. {q \in Free(pool) : q < p} = {}
    BY <2>2, <2>3 DEF OpToRel
  <2>5. Cardinality({q \in Free(pool) : q < p}) < n
    BY <2>4, FS_EmptySet
  <2> QED
    BY <2>5 DEF FirstFree
<1> QED
  BY <1>1, <1>2, <1>3, <1>4

------------------------------------------------------------------------------
(***************************************************************************)
(* Programs and their pages                                                *)
(***************************************************************************)
MemoryInv ==
    /\ programs \in [Ids -> Program]
    /\ user_pt_owner \in Pool(PtPages)
    /\ user_data_owner \in Pool(DataPages)
    /\ AddressSpacesOwned
    /\ ContextIsLive

\* program id has an address space made of its own pages.
SpaceOwned(id) ==
    /\ programs[id].tables # {} /\ programs[id].tables \subseteq Owned(user_pt_owner, id)
    /\ programs[id].frames # {} /\ programs[id].frames \subseteq Owned(user_data_owner, id)

\* A step that touches one slot keeps MemoryInv if it frees no page of the
\* others and leaves the slot ended, or running in pages of its own.
LEMMA OneSlotStep ==
    ASSUME MemoryInv, NEW id \in Ids, NEW r \in Program,
           programs' = [programs EXCEPT ![id] = r],
           user_pt_owner' \in Pool(PtPages),
           user_data_owner' \in Pool(DataPages),
           \A other \in Ids \ {id} :
               /\ Owned(user_pt_owner, other) \subseteq Owned(user_pt_owner', other)
               /\ Owned(user_data_owner, other) \subseteq Owned(user_data_owner', other),
           r.used /\ r.state \notin Ended =>
               /\ r.tables # {} /\ r.tables \subseteq Owned(user_pt_owner', id)
               /\ r.frames # {} /\ r.frames \subseteq Owned(user_data_owner', id),
           r.has_ctx => r.used /\ r.state \notin Ended
    PROVE  /\ MemoryInv'
           /\ Live' = IF r.used /\ r.state \notin Ended THEN Live \cup {id} ELSE Live \ {id}
<1>1. /\ programs' \in [Ids -> Program]
      /\ programs'[id] = r
      /\ \A other \in Ids \ {id} : programs'[other] = programs[other]
  BY DEF MemoryInv
<1>2. Live' = IF r.used /\ r.state \notin Ended THEN Live \cup {id} ELSE Live \ {id}
  BY <1>1 DEF Live
<1>3. AddressSpacesOwned'
  <2> SUFFICES ASSUME NEW p \in Live' PROVE SpaceOwned(p)'
    BY DEF AddressSpacesOwned, SpaceOwned
  <2>1. CASE p = id
    BY <1>1, <1>2, <2>1 DEF SpaceOwned, Live
  <2>2. CASE p # id
    <3>1. p \in Live /\ p \in Ids \ {id}
      BY <1>2, <2>2 DEF Live
    <3> QED
      BY <1>1, <3>1 DEF MemoryInv, AddressSpacesOwned, SpaceOwned
  <2> QED
    BY <2>1, <2>2
<1>4. ContextIsLive'
  BY <1>1, <1>2 DEF MemoryInv, ContextIsLive
<1> QED
  BY <1>1, <1>2, <1>3, <1>4 DEF MemoryInv

LEMMA BlankIsProgram == Blank \in Program /\ ~Blank.used /\ ~Blank.has_ctx
BY DEF Blank, Program, States

\* find_slot finds a slot whose program cannot run.
LEMMA FoundSlotNotLive ==
    ASSUME NEW id \in Ids, FoundSlot(id)
    PROVE  id \notin Live
BY DEF FoundSlot, Unused, Reclaimable, Live

\* What find_slot leaves behind is as good as what it found.
LEMMA VacatedFacts ==
    ASSUME MemoryInv, NEW id \in Ids, FoundSlot(id)
    PROVE  /\ VacatedPrograms(id) \in [Ids -> Program]
           /\ ~VacatedPrograms(id)[id].has_ctx
           /\ \A other \in Ids \ {id} : VacatedPrograms(id)[other] = programs[other]
           /\ ~VacatedPrograms(id)[id].used
           /\ VacatedPt(id) \in Pool(PtPages) /\ VacatedData(id) \in Pool(DataPages)
           /\ \A other \in Ids \ {id} :
                 /\ Owned(VacatedPt(id), other) = Owned(user_pt_owner, other)
                 /\ Owned(VacatedData(id), other) = Owned(user_data_owner, other)
<1>1. id \notin Live
  BY FoundSlotNotLive
<1>2. ~programs[id].has_ctx
  BY <1>1 DEF MemoryInv, ContextIsLive
<1>3. PtPages \in Nat /\ DataPages \in Nat
  BY KernelAssumption
<1>4. CASE programs[id].used
  BY <1>3, <1>4, ReleaseFacts, BlankIsProgram
  DEF MemoryInv, VacatedPrograms, VacatedPt, VacatedData, VacatedPool
<1>5. CASE ~programs[id].used
  BY <1>2, <1>5 DEF MemoryInv, VacatedPrograms, VacatedPt, VacatedData, VacatedPool
<1> QED
  BY <1>4, <1>5

\* The record Placed puts into the slot.
PlacedRecord(id, img, state) ==
    [VacatedPrograms(id)[id] EXCEPT
        !.used = TRUE, !.state = state, !.image = img,
        !.tables = FirstFree(VacatedPt(id), PtNeed),
        !.frames = FirstFree(VacatedData(id), DataNeed[img])]

\* What TakePages does to the pools.
LEMMA TakePagesFacts ==
    ASSUME MemoryInv, NEW id \in Ids, FoundSlot(id), NEW img \in Images, TakePages(id, img)
    PROVE  /\ user_pt_owner' \in Pool(PtPages) /\ user_data_owner' \in Pool(DataPages)
           /\ \A other \in Ids \ {id} :
                 /\ Owned(user_pt_owner, other) \subseteq Owned(user_pt_owner', other)
                 /\ Owned(user_data_owner, other) \subseteq Owned(user_data_owner', other)
           /\ FirstFree(VacatedPt(id), PtNeed) \in SUBSET (0 .. PtPages - 1)
           /\ FirstFree(VacatedPt(id), PtNeed) \subseteq Owned(user_pt_owner', id)
           /\ FirstFree(VacatedData(id), DataNeed[img]) \in SUBSET (0 .. DataPages - 1)
           /\ FirstFree(VacatedData(id), DataNeed[img]) \subseteq Owned(user_data_owner', id)
           /\ Fits(id, img) => /\ FirstFree(VacatedPt(id), PtNeed) # {}
                               /\ FirstFree(VacatedData(id), DataNeed[img]) # {}
<1>1. /\ PtPages \in Nat /\ DataPages \in Nat
      /\ PtNeed \in Nat \ {0} /\ DataNeed[img] \in Nat \ {0}
  BY KernelAssumption
<1>2. /\ VacatedPt(id) \in Pool(PtPages) /\ VacatedData(id) \in Pool(DataPages)
      /\ \A other \in Ids \ {id} :
            /\ Owned(VacatedPt(id), other) = Owned(user_pt_owner, other)
            /\ Owned(VacatedData(id), other) = Owned(user_data_owner, other)
  BY VacatedFacts
<1>3. /\ user_pt_owner' = Take(VacatedPt(id), PtNeed, id)
      /\ user_data_owner' = Take(VacatedData(id), DataNeed[img], id)
  BY DEF TakePages
<1>4. /\ Take(VacatedPt(id), PtNeed, id) \in Pool(PtPages)
      /\ FirstFree(VacatedPt(id), PtNeed) \in SUBSET (0 .. PtPages - 1)
      /\ FirstFree(VacatedPt(id), PtNeed) \subseteq Owned(Take(VacatedPt(id), PtNeed, id), id)
      /\ \A other \in Ids : Owned(VacatedPt(id), other)
                              \subseteq Owned(Take(VacatedPt(id), PtNeed, id), other)
      /\ Enough(VacatedPt(id), PtNeed) => FirstFree(VacatedPt(id), PtNeed) # {}
  BY <1>1, <1>2, TakeFacts
<1>5. /\ Take(VacatedData(id), DataNeed[img], id) \in Pool(DataPages)
      /\ FirstFree(VacatedData(id), DataNeed[img]) \in SUBSET (0 .. DataPages - 1)
      /\ FirstFree(VacatedData(id), DataNeed[img])
            \subseteq Owned(Take(VacatedData(id), DataNeed[img], id), id)
      /\ \A other \in Ids : Owned(VacatedData(id), other)
                              \subseteq Owned(Take(VacatedData(id), DataNeed[img], id), other)
      /\ Enough(VacatedData(id), DataNeed[img]) => FirstFree(VacatedData(id), DataNeed[img]) # {}
  BY <1>1, <1>2, TakeFacts
<1> QED
  BY <1>2, <1>3, <1>4, <1>5 DEF Fits

LEMMA PlacedRecordType ==
    ASSUME MemoryInv, NEW id \in Ids, FoundSlot(id), NEW img \in Images, TakePages(id, img),
           NEW state \in States
    PROVE  LET r == PlacedRecord(id, img, state)
           IN  /\ r \in Program
               /\ r.used /\ ~r.has_ctx /\ r.state = state
               /\ r.tables = FirstFree(VacatedPt(id), PtNeed)
               /\ r.frames = FirstFree(VacatedData(id), DataNeed[img])
<1>1. VacatedPrograms(id)[id] \in Program /\ ~VacatedPrograms(id)[id].has_ctx
  BY VacatedFacts
<1>2. /\ FirstFree(VacatedPt(id), PtNeed) \in SUBSET (0 .. PtPages - 1)
      /\ FirstFree(VacatedData(id), DataNeed[img]) \in SUBSET (0 .. DataPages - 1)
  BY TakePagesFacts
<1> QED
  BY <1>1, <1>2 DEF PlacedRecord, Program

LEMMA PlacedIsOneSlot ==
    ASSUME MemoryInv, NEW id \in Ids, FoundSlot(id), NEW img \in Images, TakePages(id, img),
           NEW state \in States
    PROVE  /\ Placed(id, img, state) = [programs EXCEPT ![id] = PlacedRecord(id, img, state)]
           /\ [Placed(id, img, state) EXCEPT ![id].has_ctx = FALSE]
                 = [programs EXCEPT ![id] = PlacedRecord(id, img, state)]
<1> DEFINE r == PlacedRecord(id, img, state)
<1>1. VacatedPrograms(id) \in [Ids -> Program]
      /\ \A other \in Ids \ {id} : VacatedPrograms(id)[other] = programs[other]
  BY VacatedFacts
<1>2. r \in Program /\ ~r.has_ctx
  BY PlacedRecordType
<1>3. Placed(id, img, state) = [VacatedPrograms(id) EXCEPT ![id] = r]
  BY DEF Placed, PlacedRecord
<1> HIDE DEF r
<1>4. Placed(id, img, state) = [programs EXCEPT ![id] = r]
  BY <1>1, <1>3 DEF MemoryInv
<1>5. [r EXCEPT !.has_ctx = FALSE] = r
  BY <1>2 DEF Program
<1>6. [programs EXCEPT ![id] = r][id] = r
  BY DEF MemoryInv
<1>7. [Placed(id, img, state) EXCEPT ![id].has_ctx = FALSE]
         = [Placed(id, img, state) EXCEPT ![id] = [r EXCEPT !.has_ctx = FALSE]]
  BY <1>4, <1>6
<1> QED
  BY <1>4, <1>5, <1>6, <1>7 DEF MemoryInv, r

\* A program is loaded into a slot just found.
LEMMA LoadStep ==
    ASSUME MemoryInv, NEW id \in Ids, FoundSlot(id), NEW img \in Images,
           Fits(id, img), TakePages(id, img), NEW state \in {"IDLE", "RUNNING"},
           \/ programs' = Placed(id, img, state)
           \/ programs' = [Placed(id, img, state) EXCEPT ![id].has_ctx = FALSE]
    PROVE  MemoryInv' /\ Live' = Live \cup {id}
<1> DEFINE r == PlacedRecord(id, img, state)
<1>0. state \in States /\ state \notin Ended
  BY DEF States, Ended
<1>1. programs' = [programs EXCEPT ![id] = r]
  <2>1. /\ Placed(id, img, state) = [programs EXCEPT ![id] = r]
        /\ [Placed(id, img, state) EXCEPT ![id].has_ctx = FALSE]
              = [programs EXCEPT ![id] = r]
    BY <1>0, PlacedIsOneSlot
  <2> HIDE DEF r
  <2> QED
    BY <2>1, Zenon
<1>2. /\ r \in Program
      /\ r.used /\ ~r.has_ctx /\ r.state = state
      /\ r.tables = FirstFree(VacatedPt(id), PtNeed)
      /\ r.frames = FirstFree(VacatedData(id), DataNeed[img])
  BY <1>0, PlacedRecordType
<1> HIDE DEF r
<1>3. /\ user_pt_owner' \in Pool(PtPages) /\ user_data_owner' \in Pool(DataPages)
      /\ \A other \in Ids \ {id} :
            /\ Owned(user_pt_owner, other) \subseteq Owned(user_pt_owner', other)
            /\ Owned(user_data_owner, other) \subseteq Owned(user_data_owner', other)
  BY TakePagesFacts
<1>4. /\ r.tables # {} /\ r.tables \subseteq Owned(user_pt_owner', id)
      /\ r.frames # {} /\ r.frames \subseteq Owned(user_data_owner', id)
  BY <1>2, TakePagesFacts
<1>5. /\ MemoryInv'
      /\ Live' = IF r.used /\ r.state \notin Ended THEN Live \cup {id} ELSE Live \ {id}
  BY <1>1, <1>2, <1>3, <1>4, OneSlotStep
<1> QED
  BY <1>0, <1>2, <1>5

\* The program in a slot ends, or its slot is emptied: its pages go back.
LEMMA ReleaseStep ==
    ASSUME MemoryInv, NEW id \in Ids, NEW r \in Program,
           ~r.used \/ r.state \in Ended,
           ~r.has_ctx,
           programs' = [programs EXCEPT ![id] = r],
           user_pt_owner' = Release(user_pt_owner, id),
           user_data_owner' = Release(user_data_owner, id)
    PROVE  MemoryInv' /\ Live' = Live \ {id}
<1>1. PtPages \in Nat /\ DataPages \in Nat
  BY KernelAssumption
<1>2. /\ user_pt_owner' \in Pool(PtPages) /\ user_data_owner' \in Pool(DataPages)
      /\ \A other \in Ids \ {id} :
            /\ Owned(user_pt_owner, other) \subseteq Owned(user_pt_owner', other)
            /\ Owned(user_data_owner, other) \subseteq Owned(user_data_owner', other)
  BY <1>1, ReleaseFacts DEF MemoryInv
<1>3. /\ MemoryInv'
      /\ Live' = IF r.used /\ r.state \notin Ended THEN Live \cup {id} ELSE Live \ {id}
  BY <1>2, OneSlotStep
<1> QED
  BY <1>3

\* A slot that holds no live program is left empty or ended, whatever
\* happens to the pages with its tag.
LEMMA EmptySlotStep ==
    ASSUME MemoryInv, NEW id \in Ids, id \notin Live, NEW r \in Program,
           ~r.used, ~r.has_ctx,
           programs' = [programs EXCEPT ![id] = r],
           user_pt_owner' \in Pool(PtPages),
           user_data_owner' \in Pool(DataPages),
           \A other \in Ids \ {id} :
               /\ Owned(user_pt_owner, other) \subseteq Owned(user_pt_owner', other)
               /\ Owned(user_data_owner, other) \subseteq Owned(user_data_owner', other)
    PROVE  MemoryInv' /\ Live' = Live
<1>1. /\ MemoryInv'
      /\ Live' = IF r.used /\ r.state \notin Ended THEN Live \cup {id} ELSE Live \ {id}
  BY OneSlotStep
<1> QED
  BY <1>1

\* VacatedPrograms changes one slot.
LEMMA VacatedIsOneSlot ==
    ASSUME MemoryInv, NEW id \in Ids, FoundSlot(id)
    PROVE  VacatedPrograms(id) = [programs EXCEPT ![id] = VacatedPrograms(id)[id]]
BY VacatedFacts DEF MemoryInv

\* A spawn that is given up after find_slot, with its pages released, left
\* in the slot, or only partly taken.
LEMMA GiveUpStep ==
    ASSUME MemoryInv, NEW id \in Ids, FoundSlot(id),
           programs' = VacatedPrograms(id),
           \/ /\ user_pt_owner' = Release(user_pt_owner, id)
              /\ user_data_owner' = Release(user_data_owner, id)
           \/ user_pt_owner' = VacatedPt(id) /\ user_data_owner' = VacatedData(id)
           \/ \E img \in Images : KeepPages(id, img)
    PROVE  MemoryInv' /\ Live' = Live
<1> DEFINE r == VacatedPrograms(id)[id]
<1>1. r \in Program /\ ~r.used /\ ~r.has_ctx /\ programs' = [programs EXCEPT ![id] = r]
  BY VacatedFacts, VacatedIsOneSlot
<1>2. id \notin Live
  BY FoundSlotNotLive
<1>3. /\ user_pt_owner' \in Pool(PtPages)
      /\ user_data_owner' \in Pool(DataPages)
      /\ \A other \in Ids \ {id} :
            /\ Owned(user_pt_owner, other) \subseteq Owned(user_pt_owner', other)
            /\ Owned(user_data_owner, other) \subseteq Owned(user_data_owner', other)
  <2>1. CASE /\ user_pt_owner' = Release(user_pt_owner, id)
             /\ user_data_owner' = Release(user_data_owner, id)
    BY <2>1, ReleaseFacts, KernelAssumption DEF MemoryInv
  <2>2. CASE user_pt_owner' = VacatedPt(id) /\ user_data_owner' = VacatedData(id)
    BY <2>2, VacatedFacts
  <2>3. ASSUME NEW img \in Images, NEW n \in RootTables .. PtNeed,
               user_pt_owner' = Take(VacatedPt(id), n, id),
               user_data_owner' = Take(VacatedData(id), DataNeed[img], id)
        PROVE  /\ user_pt_owner' \in Pool(PtPages)
               /\ user_data_owner' \in Pool(DataPages)
               /\ \A other \in Ids \ {id} :
                     /\ Owned(user_pt_owner, other) \subseteq Owned(user_pt_owner', other)
                     /\ Owned(user_data_owner, other) \subseteq Owned(user_data_owner', other)
    <3>1. n \in Nat \ {0} /\ DataNeed[img] \in Nat \ {0} /\ PtPages \in Nat /\ DataPages \in Nat
      BY KernelAssumption
    <3>2. VacatedPt(id) \in Pool(PtPages) /\ VacatedData(id) \in Pool(DataPages)
      BY VacatedFacts
    <3>3. /\ Take(VacatedPt(id), n, id) \in Pool(PtPages)
          /\ \A other \in Ids : Owned(VacatedPt(id), other)
                                  \subseteq Owned(Take(VacatedPt(id), n, id), other)
      BY <3>1, <3>2, TakeFacts
    <3>4. /\ Take(VacatedData(id), DataNeed[img], id) \in Pool(DataPages)
          /\ \A other \in Ids : Owned(VacatedData(id), other)
                                  \subseteq Owned(Take(VacatedData(id), DataNeed[img], id), other)
      BY <3>1, <3>2, TakeFacts
    <3> QED
      BY <2>3, <3>3, <3>4, VacatedFacts
  <2> QED
    BY <2>1, <2>2, <2>3 DEF KeepPages
<1> HIDE DEF r
<1> QED
  BY <1>1, <1>2, <1>3, EmptySlotStep

\* program_run_background drops a program it could not queue.
LEMMA UnlaunchedStep ==
    ASSUME MemoryInv, NEW id \in Ids, FoundSlot(id), NEW img \in Images,
           TakePages(id, img), programs' = Unlaunched(id, img)
    PROVE  MemoryInv' /\ Live' = Live
<1> DEFINE q == PlacedRecord(id, img, "IDLE")
           r == [q EXCEPT !.used = FALSE]
<1>0. "IDLE" \in States
  BY DEF States
<1>1. q \in Program /\ ~q.has_ctx
  BY <1>0, PlacedRecordType
<1>2. [Placed(id, img, "IDLE") EXCEPT ![id].has_ctx = FALSE] = [programs EXCEPT ![id] = q]
  BY <1>0, PlacedIsOneSlot
<1> HIDE DEF q
<1>3. r \in Program /\ ~r.used /\ ~r.has_ctx
  BY <1>1 DEF Program
<1>4. programs' = [programs EXCEPT ![id] = r]
  <2>1. programs' = [[Placed(id, img, "IDLE") EXCEPT ![id].has_ctx = FALSE]
                        EXCEPT ![id].used = FALSE]
    BY DEF Unlaunched
  <2>2. [programs EXCEPT ![id] = q][id] = q
    BY DEF MemoryInv
  <2>3. programs' = [[programs EXCEPT ![id] = q] EXCEPT ![id] = r]
    BY <1>2, <2>1, <2>2
  <2> HIDE DEF r
  <2> QED
    BY <2>3 DEF MemoryInv
<1> HIDE DEF r
<1> QED
  BY <1>3, <1>4, TakePagesFacts, FoundSlotNotLive, EmptySlotStep

\* A live program changes its state or its context and stays live.
LEMMA StayLiveStep ==
    ASSUME MemoryInv, NEW id \in Live, NEW r \in Program,
           r.used, r.state \notin Ended,
           r.tables = programs[id].tables, r.frames = programs[id].frames,
           programs' = [programs EXCEPT ![id] = r],
           UNCHANGED pool_vars
    PROVE  MemoryInv' /\ Live' = Live
<1>1. id \in Ids /\ SpaceOwned(id)
  BY DEF MemoryInv, AddressSpacesOwned, SpaceOwned, Live
<1>2. /\ MemoryInv'
      /\ Live' = IF r.used /\ r.state \notin Ended THEN Live \cup {id} ELSE Live \ {id}
  BY <1>1, OneSlotStep DEF pool_vars, SpaceOwned, MemoryInv
<1> QED
  BY <1>2

LEMMA MemoryUnchanged ==
    ASSUME MemoryInv, UNCHANGED <<programs, pool_vars>>
    PROVE  MemoryInv' /\ Live' = Live
BY DEF MemoryInv, pool_vars, AddressSpacesOwned, ContextIsLive, Live

\* `kill all' empties the slots of a set of programs and frees their pages.
LEMMA KillAllStep ==
    ASSUME MemoryInv, NEW freed \in SUBSET Ids,
           programs' = [id \in Ids |-> IF id \in freed THEN Blank ELSE programs[id]],
           user_pt_owner' = [p \in DOMAIN user_pt_owner |->
               IF user_pt_owner[p] \in freed THEN 0 ELSE user_pt_owner[p]],
           user_data_owner' = [p \in DOMAIN user_data_owner |->
               IF user_data_owner[p] \in freed THEN 0 ELSE user_data_owner[p]]
    PROVE  MemoryInv' /\ Live' = Live \ freed
<1>1. programs' \in [Ids -> Program]
  BY BlankIsProgram DEF MemoryInv
<1>2. user_pt_owner' \in Pool(PtPages) /\ user_data_owner' \in Pool(DataPages)
  BY SchedAssumption DEF MemoryInv, Pool
<1>3. Live' = Live \ freed
  BY BlankIsProgram DEF Live
<1>4. \A id \in Ids \ freed :
         /\ Owned(user_pt_owner', id) = Owned(user_pt_owner, id)
         /\ Owned(user_data_owner', id) = Owned(user_data_owner, id)
         /\ programs'[id] = programs[id]
  BY SchedAssumption DEF Owned, Ids
<1>5. AddressSpacesOwned'
  BY <1>3, <1>4 DEF AddressSpacesOwned, MemoryInv, Live
<1>6. ContextIsLive'
  BY <1>3, <1>4, BlankIsProgram DEF ContextIsLive, MemoryInv
<1> QED
  BY <1>1, <1>2, <1>5, <1>6, <1>3 DEF MemoryInv

------------------------------------------------------------------------------
(***************************************************************************)
(* The inductive invariant                                                 *)
(***************************************************************************)
\* The types of the variables that JobTableInv and MemoryInv do not mention.
RestTypeOK ==
    /\ next_run \in JobSlots
    /\ running_slot \in JobSlots \cup {-1}
    /\ ticks \in 0 .. TickMod - 1
    /\ active_program \in 0 .. ProgramSlots
    /\ suspended \in 0 .. ProgramSlots
    /\ kernel_if \in BOOLEAN
    /\ spawn_name \in Images \cup {NoImage}
    /\ waiting \in BOOLEAN
    /\ spin \in 0 .. SpinMax

\* A program is active exactly from program_enter to its return, it is live,
\* and no used-up quantum is left over from one tick to the next.
Control ==
    /\ \/ cpu \in {"kernel", "fallback", "spin"} /\ active_program = 0 /\ caller = "none"
       \/ /\ cpu \in {"ring3", "read", "wild"} /\ active_program \in Live
          /\ caller \in {"program_spawn", "program_spawn_elf", "cmd_fg", "sched_service"}
    /\ suspended # 0 => cpu \in {"ring3", "wild"}
    /\ quantum_expired = FALSE

\* QuantumKept, also while the job waits for input.
JobWithinQuantum == caller = "sched_service" => SliceUsed(running_slot, ticks) < Quantum

Inv ==
    /\ RestTypeOK
    /\ JobTableInv
    /\ MemoryInv
    /\ Control
    /\ RunningSlotIsTheJob
    /\ NoOrphan
    /\ JobWithinQuantum

------------------------------------------------------------------------------
(***************************************************************************)
(* The initial state                                                       *)
(***************************************************************************)
LEMMA InitInv == Init => Inv
<1> SUFFICES ASSUME Init PROVE Inv
  OBVIOUS
<1> USE DEF Init, SchedInit
<1>1. /\ JobsMax \in Nat \ {0} /\ TickMod \in Nat \ {0} /\ ProgramSlots \in Nat \ {0}
      /\ SpinMax \in Nat
  BY SchedAssumption, KernelAssumption
<1>2. RestTypeOK
  <2>1. 0 \in JobSlots /\ 0 \in 0 .. TickMod - 1 /\ 0 \in 0 .. SpinMax /\ 0 \in 0 .. ProgramSlots
    BY <1>1 DEF JobSlots
  <2> QED
    BY <2>1 DEF RestTypeOK
<1>3. Active = {} /\ Live = {}
  BY BlankIsProgram DEF Active, Live, NoJob
<1>4. JobTableInv
  <2>1. jobs \in [JobSlots -> Job]
    BY <1>1 DEF NoJob, Job
  <2>2. Cardinality(Active) = 0
    BY <1>3, FS_EmptySet
  <2>3. job_count \in 0 .. JobsMax
    BY <1>1, SMT
  <2>6. preempt_armed \in BOOLEAN
    BY Zenon
  <2>4. JobAccounting
    BY <2>2 DEF JobAccounting
  <2>5. JobsDistinct /\ \A i \in Active : jobs[i].program_id \in Ids
    BY <1>3 DEF JobsDistinct
  <2> QED
    BY <2>1, <2>3, <2>4, <2>5, <2>6 DEF JobTableInv
<1>5. MemoryInv
  <2>1. user_pt_owner \in Pool(PtPages) /\ user_data_owner \in Pool(DataPages)
    BY <1>1 DEF Pool
  <2> QED
    BY <1>3, <2>1, BlankIsProgram DEF MemoryInv, AddressSpacesOwned, ContextIsLive
<1>6. Control /\ RunningSlotIsTheJob /\ NoOrphan /\ JobWithinQuantum
  BY <1>3 DEF Control, RunningSlotIsTheJob, NoOrphan, JobWithinQuantum
<1> QED
  BY <1>2, <1>4, <1>5, <1>6 DEF Inv

------------------------------------------------------------------------------
(***************************************************************************)
(* Steps that touch neither the programs nor the job table                 *)
(***************************************************************************)
\* The parts of Inv that such a step cannot disturb.
LEMMA QuietStep ==
    ASSUME Inv, UNCHANGED <<jobs, job_count, preempt_armed, programs, pool_vars>>
    PROVE  /\ JobTableInv' /\ MemoryInv'
           /\ Live' = Live /\ Active' = Active /\ \A id : JobsOf(id)' = JobsOf(id)
BY JobTableInvUnchanged, MemoryUnchanged DEF Inv, job_vars

\* ... and neither the running job nor the cursor or the clock: only what
\* the processor does between two entries into the scheduler changes.
IdleMove ==
    /\ UNCHANGED <<sched_vars, programs, pool_vars, active_program, caller, suspended>>
    /\ \/ cpu' = cpu
       \/ cpu \in {"kernel", "fallback", "spin"} /\ cpu' \in {"kernel", "fallback", "spin"}
       \/ cpu \in {"ring3", "read"} /\ cpu' \in {"ring3", "read"} /\ suspended = 0
       \/ cpu = "ring3" /\ cpu' = "wild"
    /\ kernel_if' \in BOOLEAN
    /\ spawn_name' \in Images \cup {NoImage}
    /\ waiting' \in BOOLEAN
    /\ spin' \in 0 .. SpinMax

LEMMA IdleMoveStep == Inv /\ IdleMove => Inv'
<1> SUFFICES ASSUME Inv, IdleMove PROVE Inv'
  OBVIOUS
<1>1. /\ JobTableInv' /\ MemoryInv'
      /\ Live' = Live /\ Active' = Active /\ \A id : JobsOf(id)' = JobsOf(id)
  BY QuietStep DEF IdleMove, sched_vars
<1>2. RestTypeOK'
  BY DEF Inv, RestTypeOK, IdleMove, sched_vars
<1>3. Control'
  BY <1>1 DEF Inv, Control, IdleMove, sched_vars
<1>4. RunningSlotIsTheJob'
  BY <1>1 DEF Inv, RunningSlotIsTheJob, IdleMove, sched_vars
<1>5. NoOrphan'
  BY <1>1 DEF Inv, NoOrphan, IdleMove
<1>6. JobWithinQuantum'
  BY DEF Inv, JobWithinQuantum, SliceUsed, IdleMove, sched_vars
<1> QED
  BY <1>1, <1>2, <1>3, <1>4, <1>5, <1>6 DEF Inv

LEMMA WaitStep == Inv /\ Wait => Inv'
BY IdleMoveStep DEF IdleMove, Wait, cpu_vars, Inv, RestTypeOK

LEMMA WaitReturnsStep == Inv /\ WaitReturns => Inv'
BY IdleMoveStep DEF IdleMove, WaitReturns, cpu_vars, Inv, RestTypeOK

LEMMA SpinWaitStep ==
    ASSUME Inv, NEW n \in 1 .. SpinMax, SpinWait(n)
    PROVE  Inv'
BY IdleMoveStep, KernelAssumption DEF IdleMove, SpinWait, AtPrompt, Inv, RestTypeOK

LEMMA SpinReturnsStep == Inv /\ SpinReturns => Inv'
BY IdleMoveStep DEF IdleMove, SpinReturns, shell_vars, Inv, RestTypeOK

LEMMA SysReadStep == Inv /\ SysRead => Inv'
BY IdleMoveStep DEF IdleMove, SysRead, InRing3, shell_vars, Inv, RestTypeOK

LEMMA InputArrivesStep == Inv /\ InputArrives => Inv'
BY IdleMoveStep DEF IdleMove, InputArrives, shell_vars, Inv, RestTypeOK, Control

LEMMA TrapOverFramesStep == Inv /\ TrapOverFrames => Inv'
BY IdleMoveStep DEF IdleMove, TrapOverFrames, shell_vars, Inv, RestTypeOK

LEMMA StutterStep == Inv /\ UNCHANGED vars => Inv'
BY IdleMoveStep DEF IdleMove, vars, cpu_vars, shell_vars, Inv, RestTypeOK

\* The tick counter stays in its range.
LEMMA NextTickRange ==
    ASSUME ticks \in 0 .. TickMod - 1
    PROVE  NextTick \in 0 .. TickMod - 1
BY SchedAssumption DEF NextTick

\* A tick in the kernel: no job is running, so no quantum is used up.
LEMMA KernelTickStep == Inv /\ KernelTick => Inv'
<1> SUFFICES ASSUME Inv, KernelTick PROVE Inv'
  OBVIOUS
<1>1. /\ JobTableInv' /\ MemoryInv'
      /\ Live' = Live /\ Active' = Active /\ \A id : JobsOf(id)' = JobsOf(id)
  BY QuietStep DEF KernelTick
<1>2. caller = "none" /\ running_slot = -1
  BY DEF Inv, Control, RunningSlotIsTheJob, KernelTick
<1>3. quantum_expired' = FALSE
  BY <1>2 DEF Inv, Control, KernelTick, sched_on_timer
<1>4. RestTypeOK'
  <2>1. ticks' \in 0 .. TickMod - 1
    BY NextTickRange DEF Inv, RestTypeOK, KernelTick
  <2>2. spin' \in 0 .. SpinMax
    BY KernelAssumption DEF Inv, RestTypeOK, KernelTick
  <2> QED
    BY <2>1, <2>2 DEF Inv, RestTypeOK, KernelTick, cpu_vars
<1>5. Control' /\ RunningSlotIsTheJob'
  BY <1>1, <1>2, <1>3 DEF Inv, Control, RunningSlotIsTheJob, KernelTick, cpu_vars
<1>6. NoOrphan'
  BY <1>1 DEF Inv, NoOrphan, KernelTick, cpu_vars
<1>7. JobWithinQuantum'
  BY <1>2 DEF JobWithinQuantum, KernelTick, cpu_vars
<1> QED
  BY <1>1, <1>4, <1>5, <1>6, <1>7 DEF Inv

------------------------------------------------------------------------------
(***************************************************************************)
(* Commands at the prompt                                                  *)
(***************************************************************************)
\* While the kernel runs no program is active and no job slot is running.
LEMMA InKernel ==
    ASSUME Inv, cpu \in {"kernel", "fallback", "spin"}
    PROVE  /\ active_program = 0 /\ suspended = 0
           /\ caller = "none" /\ running_slot = -1
           /\ \A id \in Live : JobsOf(id) # {}
<1>1. active_program = 0 /\ suspended = 0 /\ caller = "none"
  BY DEF Inv, Control
<1>2. running_slot = -1
  BY <1>1 DEF Inv, RunningSlotIsTheJob
<1>3. 0 \notin Ids
  BY DEF Ids
<1> QED
  BY <1>1, <1>2, <1>3 DEF Inv, NoOrphan, Live

\* A step of the kernel that stays in the kernel keeps Inv if it keeps the
\* job table, the memory and a job for every live program.
LEMMA KernelStep ==
    ASSUME Inv, RestTypeOK', JobTableInv', MemoryInv',
           cpu \in {"kernel", "fallback", "spin"}, cpu' \in {"kernel", "fallback", "spin"},
           UNCHANGED <<active_program, caller, suspended, running_slot>>,
           quantum_expired' = FALSE,
           \A id \in Live' : JobsOf(id)' # {}
    PROVE  Inv'
<1>1. /\ active_program' = 0 /\ suspended' = 0
      /\ caller' = "none" /\ running_slot' = -1
  BY InKernel
<1>2. Control' /\ RunningSlotIsTheJob' /\ JobWithinQuantum'
  BY <1>1 DEF Control, RunningSlotIsTheJob, JobWithinQuantum
<1>3. NoOrphan'
  BY DEF NoOrphan
<1> QED
  BY <1>2, <1>3 DEF Inv

\* A step of the kernel that enters ring 3 with a foreground program.
LEMMA ForegroundStep ==
    ASSUME Inv, RestTypeOK', JobTableInv', MemoryInv',
           cpu \in {"kernel", "fallback", "spin"},
           NEW id \in Live', NEW who \in {"program_spawn", "program_spawn_elf", "cmd_fg"},
           EnterRing3(id, who),
           UNCHANGED <<suspended, running_slot>>,
           quantum_expired' = FALSE,
           \A other \in Live' \ {id} : JobsOf(other)' # {}
    PROVE  Inv'
<1>1. suspended' = 0 /\ running_slot' = -1
  BY InKernel
<1>2. Control' /\ RunningSlotIsTheJob' /\ JobWithinQuantum'
  BY <1>1 DEF Control, RunningSlotIsTheJob, JobWithinQuantum, EnterRing3
<1>3. NoOrphan'
  BY DEF NoOrphan, EnterRing3
<1> QED
  BY <1>2, <1>3 DEF Inv

LEMMA SpawnBackgroundStep ==
    ASSUME Inv, NEW img \in Images, NEW readable \in BOOLEAN, SpawnBackground(img, readable)
    PROVE  Inv'
<1>1. PICK id \in Ids :
          /\ FoundSlot(id)
          /\ Loads(id, img, readable)
          /\ \/ /\ ~LaunchFails(id)
                /\ program_load_image(id, img, "IDLE")
                /\ sched_launch(id)
             \/ /\ LaunchFails(id)
                /\ TakePages(id, img)
                /\ programs' = Unlaunched(id, img)
                /\ UNCHANGED <<jobs, job_count, preempt_armed>>
  BY DEF SpawnBackground
<1>2. /\ cpu = "kernel"
      /\ UNCHANGED <<quantum_expired, next_run, running_slot, ticks, cpu_vars, shell_vars>>
  BY DEF SpawnBackground, AtPrompt
<1>3. RestTypeOK'
  BY <1>2 DEF Inv, RestTypeOK, cpu_vars, shell_vars
<1>4. \A other \in Live : JobsOf(other) # {}
  BY <1>2, InKernel
<1>5. JobTableInv' /\ MemoryInv' /\ \A other \in Live' : JobsOf(other)' # {}
  <2>1. CASE program_load_image(id, img, "IDLE") /\ sched_launch(id)
    <3>1. /\ Fits(id, img) /\ TakePages(id, img)
          /\ programs' = [Placed(id, img, "IDLE") EXCEPT ![id].has_ctx = FALSE]
      BY <2>1 DEF program_load_image
    <3>2. MemoryInv' /\ Live' = Live \cup {id}
      BY <1>1, <3>1, LoadStep DEF Inv
    <3>3. /\ JobTableInv'
          /\ JobsOf(id)' # {}
          /\ \A other \in Ids : JobsOf(other) # {} => JobsOf(other)' # {}
      BY <2>1, LaunchKeepsTable DEF Inv, RestTypeOK
    <3> QED
      BY <1>4, <3>2, <3>3 DEF Live
  <2>2. CASE /\ TakePages(id, img)
             /\ programs' = Unlaunched(id, img)
             /\ UNCHANGED <<jobs, job_count, preempt_armed>>
    <3>1. MemoryInv' /\ Live' = Live
      BY <1>1, <2>2, UnlaunchedStep DEF Inv
    <3>2. JobTableInv' /\ \A other : JobsOf(other)' = JobsOf(other)
      BY <2>2, JobTableInvUnchanged DEF Inv, job_vars
    <3> QED
      BY <1>4, <3>1, <3>2
  <2> QED
    BY <1>1, <2>1, <2>2
<1>6. cpu' = cpu /\ UNCHANGED <<active_program, caller, suspended>> /\ quantum_expired' = FALSE
  BY <1>2 DEF cpu_vars, Inv, Control
<1> QED
  BY <1>2, <1>3, <1>5, <1>6, KernelStep

LEMMA SpawnBackgroundFailsStep ==
    ASSUME Inv, NEW img \in Images, NEW readable \in BOOLEAN,
           SpawnBackgroundFails(img, readable)
    PROVE  Inv'
<1>1. PICK id \in Ids :
          /\ FoundSlot(id)
          /\ \/ /\ programs' = VacatedPrograms(id)
                /\ user_pt_owner' = VacatedPt(id)
                /\ user_data_owner' = VacatedData(id)
             \/ AbandonSlot(id)
  BY DEF SpawnBackgroundFails
<1>2. cpu = "kernel" /\ UNCHANGED <<sched_vars, cpu_vars, shell_vars>>
  BY DEF SpawnBackgroundFails, AtPrompt
<1>3. MemoryInv' /\ Live' = Live
  BY <1>1, GiveUpStep DEF AbandonSlot, Inv
<1>4. JobTableInv' /\ \A other : JobsOf(other)' = JobsOf(other)
  BY <1>2, JobTableInvUnchanged DEF Inv, job_vars, sched_vars
<1>5. RestTypeOK'
  BY <1>2 DEF Inv, RestTypeOK, cpu_vars, shell_vars, sched_vars
<1>6. /\ cpu' = cpu /\ UNCHANGED <<active_program, caller, suspended, running_slot>>
      /\ quantum_expired' = FALSE
  BY <1>2 DEF cpu_vars, sched_vars, Inv, Control
<1>7. \A other \in Live' : JobsOf(other)' # {}
  BY <1>2, <1>3, <1>4, InKernel
<1> QED
  BY <1>2, <1>3, <1>4, <1>5, <1>6, <1>7, KernelStep

LEMMA SpawnFromDiskStep ==
    ASSUME Inv, NEW img \in Images, NEW readable \in BOOLEAN, SpawnFromDisk(img, readable)
    PROVE  Inv'
<1>1. PICK id \in Ids :
          /\ FoundSlot(id)
          /\ Loads(id, img, readable)
          /\ program_load_image(id, img, "RUNNING")
          /\ EnterRing3(id, "program_spawn_elf")
  BY DEF SpawnFromDisk
<1>2. /\ cpu = "kernel"
      /\ spawn_name' = img
      /\ UNCHANGED <<sched_vars, suspended, kernel_if, waiting, spin>>
  BY DEF SpawnFromDisk, AtPrompt
<1>3. /\ Fits(id, img) /\ TakePages(id, img)
      /\ programs' = [Placed(id, img, "RUNNING") EXCEPT ![id].has_ctx = FALSE]
  BY <1>1 DEF program_load_image
<1>4. MemoryInv' /\ Live' = Live \cup {id}
  BY <1>1, <1>3, LoadStep DEF Inv
<1>5. JobTableInv' /\ \A other : JobsOf(other)' = JobsOf(other)
  BY <1>2, JobTableInvUnchanged DEF Inv, job_vars, sched_vars
<1>6. RestTypeOK'
  BY <1>1, <1>2 DEF Inv, RestTypeOK, sched_vars, EnterRing3, Ids
<1>7. \A other \in Live' \ {id} : JobsOf(other)' # {}
  BY <1>2, <1>4, <1>5, InKernel
<1>8. UNCHANGED <<suspended, running_slot>> /\ quantum_expired' = FALSE
  BY <1>2 DEF sched_vars, Inv, Control
<1> QED
  BY <1>1, <1>2, <1>4, <1>5, <1>6, <1>7, <1>8, ForegroundStep

LEMMA SpawnFromDiskFailsStep ==
    ASSUME Inv, NEW img \in Images, NEW readable \in BOOLEAN,
           SpawnFromDiskFails(img, readable)
    PROVE  Inv'
<1>1. /\ cpu = "kernel" /\ cpu' = "fallback" /\ spawn_name' = img
      /\ UNCHANGED <<sched_vars, active_program, caller, suspended, kernel_if, waiting, spin>>
  BY DEF SpawnFromDiskFails, AtPrompt
<1>2. MemoryInv' /\ Live' = Live
  <2>1. CASE UNCHANGED <<programs, pool_vars>>
    BY <2>1, MemoryUnchanged DEF Inv
  <2>2. CASE \E id \in Ids : FoundSlot(id) /\ AbandonSlot(id)
    BY <2>2, GiveUpStep DEF AbandonSlot, Inv
  <2> QED
    BY <2>1, <2>2 DEF SpawnFromDiskFails
<1>3. JobTableInv' /\ \A other : JobsOf(other)' = JobsOf(other)
  BY <1>1, JobTableInvUnchanged DEF Inv, job_vars, sched_vars
<1>4. RestTypeOK'
  BY <1>1 DEF Inv, RestTypeOK, sched_vars
<1>5. \A id \in Live' : JobsOf(id)' # {}
  BY <1>1, <1>2, <1>3, InKernel
<1>6. UNCHANGED running_slot /\ quantum_expired' = FALSE
  BY <1>1 DEF sched_vars, Inv, Control
<1> QED
  BY <1>1, <1>2, <1>3, <1>4, <1>5, <1>6, KernelStep

LEMMA SpawnBuiltInStep == Inv /\ SpawnBuiltIn => Inv'
<1> SUFFICES ASSUME Inv, SpawnBuiltIn PROVE Inv'
  OBVIOUS
<1>1. PICK id \in Ids :
          /\ FoundSlot(id)
          /\ Fits(id, spawn_name)
          /\ TakePages(id, spawn_name)
          /\ programs' = Placed(id, spawn_name, "RUNNING")
          /\ EnterRing3(id, "program_spawn")
  BY DEF SpawnBuiltIn
<1>2. /\ cpu = "fallback" /\ spawn_name \in Images
      /\ UNCHANGED <<sched_vars, suspended, kernel_if, shell_vars>>
  BY KernelAssumption DEF SpawnBuiltIn
<1>3. MemoryInv' /\ Live' = Live \cup {id}
  BY <1>1, <1>2, LoadStep DEF Inv
<1>4. JobTableInv' /\ \A other : JobsOf(other)' = JobsOf(other)
  BY <1>2, JobTableInvUnchanged DEF Inv, job_vars, sched_vars
<1>5. RestTypeOK'
  BY <1>1, <1>2 DEF Inv, RestTypeOK, sched_vars, shell_vars, EnterRing3, Ids
<1>6. \A other \in Live' \ {id} : JobsOf(other)' # {}
  BY <1>2, <1>3, <1>4, InKernel
<1>7. UNCHANGED <<suspended, running_slot>> /\ quantum_expired' = FALSE
  BY <1>2 DEF sched_vars, Inv, Control
<1> QED
  BY <1>1, <1>2, <1>3, <1>4, <1>5, <1>6, <1>7, ForegroundStep

LEMMA SpawnBuiltInFailsStep == Inv /\ SpawnBuiltInFails => Inv'
<1> SUFFICES ASSUME Inv, SpawnBuiltInFails PROVE Inv'
  OBVIOUS
<1>1. /\ cpu = "fallback" /\ cpu' = "kernel" /\ spawn_name' = NoImage
      /\ UNCHANGED <<sched_vars, active_program, caller, suspended, kernel_if, waiting, spin>>
  BY DEF SpawnBuiltInFails
<1>2. MemoryInv' /\ Live' = Live
  <2>1. CASE UNCHANGED <<programs, pool_vars>>
    BY <2>1, MemoryUnchanged DEF Inv
  <2>2. ASSUME NEW id \in Ids, FoundSlot(id), spawn_name \in BuiltIn,
               \/ AbandonSlot(id)
               \/ KeepPages(id, spawn_name) /\ programs' = VacatedPrograms(id)
        PROVE  MemoryInv' /\ Live' = Live
    <3>1. spawn_name \in Images
      BY <2>2, KernelAssumption
    <3> QED
      BY <2>2, <3>1, GiveUpStep DEF AbandonSlot, Inv
  <2> QED
    BY <2>1, <2>2 DEF SpawnBuiltInFails
<1>3. JobTableInv' /\ \A other : JobsOf(other)' = JobsOf(other)
  BY <1>1, JobTableInvUnchanged DEF Inv, job_vars, sched_vars
<1>4. RestTypeOK'
  BY <1>1 DEF Inv, RestTypeOK, sched_vars
<1>5. \A id \in Live' : JobsOf(id)' # {}
  BY <1>1, <1>2, <1>3, InKernel
<1>6. UNCHANGED running_slot /\ quantum_expired' = FALSE
  BY <1>1 DEF sched_vars, Inv, Control
<1> QED
  BY <1>1, <1>2, <1>3, <1>4, <1>5, <1>6, KernelStep

LEMMA KillStep ==
    ASSUME Inv, NEW id \in Ids, Kill(id)
    PROVE  Inv'
<1>1. /\ cpu = "kernel"
      /\ RemoveJobs(id) /\ program_release(id)
      /\ UNCHANGED <<next_run, running_slot, ticks, cpu_vars, shell_vars>>
  BY DEF Kill, AtPrompt
<1>2. MemoryInv' /\ Live' = Live \ {id}
  <2>1. CASE programs[id].used
    BY <1>1, <2>1, BlankIsProgram, ReleaseStep DEF program_release, Inv
  <2>2. CASE ~programs[id].used
    <3>1. MemoryInv' /\ Live' = Live
      BY <1>1, <2>2, MemoryUnchanged DEF program_release, Inv
    <3> QED
      BY <2>2, <3>1 DEF Live
  <2> QED
    BY <2>1, <2>2
<1>3. /\ JobTableInv'
      /\ \A other \in Ids \ {id} : JobsOf(other)' = JobsOf(other)
  BY <1>1, RemoveJobsKeepsTable DEF Inv
<1>4. RestTypeOK'
  BY <1>1 DEF Inv, RestTypeOK, cpu_vars, shell_vars
<1>5. \A other \in Live' : JobsOf(other)' # {}
  BY <1>1, <1>2, <1>3, InKernel DEF Live
<1>6. cpu' = cpu /\ UNCHANGED <<active_program, caller, suspended, running_slot>>
  BY <1>1 DEF cpu_vars
<1>7. quantum_expired' = FALSE
  BY <1>1 DEF RemoveJobs, Inv, Control
<1> QED
  BY <1>1, <1>2, <1>3, <1>4, <1>5, <1>6, <1>7, KernelStep

LEMMA KillAllInv == Inv /\ KillAll => Inv'
<1> SUFFICES ASSUME Inv, KillAll PROVE Inv'
  OBVIOUS
<1> DEFINE killed == {jobs[i].program_id : i \in Active}
           freed == {id \in killed : programs[id].used}
<1>1. /\ cpu = "kernel"
      /\ sched_kill_all
      /\ programs' = [id \in Ids |-> IF id \in freed THEN Blank ELSE programs[id]]
      /\ user_pt_owner' = [p \in DOMAIN user_pt_owner |->
            IF user_pt_owner[p] \in freed THEN 0 ELSE user_pt_owner[p]]
      /\ user_data_owner' = [p \in DOMAIN user_data_owner |->
            IF user_data_owner[p] \in freed THEN 0 ELSE user_data_owner[p]]
      /\ UNCHANGED <<next_run, running_slot, ticks, cpu_vars, shell_vars>>
  BY DEF KillAll, AtPrompt
<1>2. freed \in SUBSET Ids
  BY DEF Inv, JobTableInv
<1>3. Live \subseteq freed
  BY <1>1, InKernel DEF JobsOf, Live
<1> HIDE DEF freed, killed
<1>4. MemoryInv' /\ Live' = Live \ freed
  BY <1>1, <1>2, KillAllStep DEF Inv
<1>5. JobTableInv'
  BY <1>1, KillAllKeepsTable DEF Inv
<1>6. RestTypeOK'
  BY <1>1 DEF Inv, RestTypeOK, cpu_vars, shell_vars
<1>7. cpu' = cpu /\ UNCHANGED <<active_program, caller, suspended, running_slot>>
  BY <1>1 DEF cpu_vars
<1>8. quantum_expired' = FALSE /\ Live' = {}
  BY <1>1, <1>3, <1>4 DEF sched_kill_all
<1> QED
  BY <1>1, <1>4, <1>5, <1>6, <1>7, <1>8, KernelStep

LEMMA ForegroundInv ==
    ASSUME Inv, NEW id \in Ids, Foreground(id)
    PROVE  Inv'
<1>1. /\ cpu = "kernel" /\ id \in Live
      /\ RemoveJobs(id)
      /\ programs' = [programs EXCEPT ![id].state = "RUNNING"]
      /\ EnterRing3(id, "cmd_fg")
      /\ UNCHANGED <<next_run, running_slot, ticks, pool_vars, suspended, kernel_if, shell_vars>>
  BY DEF Foreground, AtPrompt
<1> DEFINE r == [programs[id] EXCEPT !.state = "RUNNING"]
<1>2. /\ r \in Program /\ r.used /\ r.state \notin Ended
      /\ r.tables = programs[id].tables /\ r.frames = programs[id].frames
      /\ programs' = [programs EXCEPT ![id] = r]
  BY <1>1 DEF Inv, MemoryInv, Program, States, Ended, Live
<1> HIDE DEF r
<1>3. MemoryInv' /\ Live' = Live
  BY <1>1, <1>2, StayLiveStep DEF Inv
<1>4. /\ JobTableInv'
      /\ \A other \in Ids \ {id} : JobsOf(other)' = JobsOf(other)
  BY <1>1, RemoveJobsKeepsTable DEF Inv
<1>5. RestTypeOK'
  BY <1>1 DEF Inv, RestTypeOK, EnterRing3, shell_vars, Ids
<1>6. \A other \in Live' \ {id} : JobsOf(other)' # {}
  BY <1>1, <1>3, <1>4, InKernel DEF Live
<1>7. quantum_expired' = FALSE
  BY <1>1 DEF RemoveJobs, Inv, Control
<1> QED
  BY <1>1, <1>3, <1>4, <1>5, <1>6, <1>7, ForegroundStep

------------------------------------------------------------------------------
(***************************************************************************)
(* sched_service                                                           *)
(***************************************************************************)
\* A job is dispatched with a fresh slice.
LEMMA FreshSlice ==
    ASSUME NEW t \in 0 .. TickMod - 1
    PROVE  (t - t) % TickMod < Quantum
<1>1. t - t = 0
  OBVIOUS
<1>2. 0 % TickMod = 0
  BY SchedAssumption
<1> QED
  BY <1>1, <1>2, SchedAssumption

\* The scan picks a job; a program blocked in SYS_READ becomes suspended.
LEMMA RunJobStep ==
    ASSUME Inv, suspended = 0, suspended' = active_program,
           NEW i \in JobSlots, ServicePicks(Live, i), RunJob(i),
           UNCHANGED <<ticks, pool_vars, kernel_if, shell_vars>>
    PROVE  Inv'
<1> DEFINE id == jobs[i].program_id
           r == [programs[id] EXCEPT !.state = "RUNNING"]
<1>1. /\ JobTableInv'
      /\ i \in Active'
      /\ id \in Live \cap Ids
      /\ jobs'[i].program_id = id
      /\ jobs'[i].slice_start = ticks
      /\ \A other \in Live \cap Ids : JobsOf(other) # {} => JobsOf(other)' # {}
  BY PickKeepsTable DEF Inv, RestTypeOK
<1> HIDE DEF id
<1>2. /\ programs' = [programs EXCEPT ![id].state = "RUNNING"]
      /\ cpu' = "ring3" /\ active_program' = id /\ caller' = "sched_service"
  BY DEF RunJob, EnterRing3, id
<1>3. /\ quantum_expired' = FALSE /\ running_slot' = i /\ next_run' = NextCursor(i)
  BY DEF ServicePicks
<1>4. MemoryInv' /\ Live' = Live
  <2>1. /\ r \in Program /\ r.used /\ r.state \notin Ended
        /\ r.tables = programs[id].tables /\ r.frames = programs[id].frames
        /\ programs' = [programs EXCEPT ![id] = r]
    BY <1>1, <1>2 DEF Inv, MemoryInv, Program, States, Ended, Live
  <2> HIDE DEF r
  <2> QED
    BY <1>1, <2>1, StayLiveStep DEF Inv
<1>5. RestTypeOK'
  <2>1. NextCursor(i) \in JobSlots
    BY SchedAssumption DEF NextCursor, JobSlots
  <2> QED
    BY <1>1, <1>2, <1>3, <2>1 DEF Inv, RestTypeOK, shell_vars, Ids
<1>6. Control'
  BY <1>1, <1>2, <1>3, <1>4 DEF Control
<1>7. RunningSlotIsTheJob'
  BY <1>1, <1>2, <1>3 DEF RunningSlotIsTheJob
<1>8. NoOrphan'
  <2> SUFFICES ASSUME NEW other \in Live, other # active_program
               PROVE  JobsOf(other)' # {}
    BY <1>4 DEF NoOrphan
  <2>1. other \in Ids /\ other # suspended
    BY SchedAssumption DEF Live, Ids
  <2>2. JobsOf(other) # {}
    BY <2>1 DEF Inv, NoOrphan
  <2> QED
    BY <1>1, <2>1, <2>2
<1>9. JobWithinQuantum'
  <2>1. SliceUsed(running_slot, ticks)' = (ticks - ticks) % TickMod
    BY <1>1, <1>3 DEF SliceUsed
  <2>2. (ticks - ticks) % TickMod < Quantum
    BY FreshSlice DEF Inv, RestTypeOK
  <2> QED
    BY <2>1, <2>2 DEF JobWithinQuantum
<1> QED
  BY <1>1, <1>4, <1>5, <1>6, <1>7, <1>8, <1>9 DEF Inv

\* The scan finds nothing to run, so no job can be running around it.
LEMMA IdleScanStep ==
    ASSUME Inv, ServiceIdles(Live),
           UNCHANGED <<ticks, programs, pool_vars, cpu_vars, shell_vars>>
    PROVE  Inv'
<1>1. /\ JobTableInv'
      /\ \A id \in Live : JobsOf(id) = {}
  BY IdleKeepsTable DEF Inv
<1>2. MemoryInv' /\ Live' = Live
  BY MemoryUnchanged DEF Inv
<1>3. UNCHANGED <<quantum_expired, next_run, running_slot>>
  BY DEF ServiceIdles
<1>4. caller # "sched_service"
  <2> SUFFICES ASSUME caller = "sched_service" PROVE FALSE
    OBVIOUS
  <2>1. active_program \in Live
    BY DEF Inv, Control
  <2>2. running_slot \in JobsOf(active_program)
    BY DEF Inv, RunningSlotIsTheJob, JobsOf
  <2> QED
    BY <1>1, <2>1, <2>2
<1>5. RestTypeOK'
  BY <1>3 DEF Inv, RestTypeOK, cpu_vars, shell_vars
<1>6. Control'
  BY <1>2, <1>3 DEF Inv, Control, cpu_vars
<1>7. RunningSlotIsTheJob' /\ JobWithinQuantum'
  BY <1>3, <1>4 DEF Inv, RunningSlotIsTheJob, JobWithinQuantum, cpu_vars
<1>8. NoOrphan'
  BY <1>1, <1>2 DEF Inv, NoOrphan, cpu_vars
<1> QED
  BY <1>1, <1>2, <1>5, <1>6, <1>7, <1>8 DEF Inv

LEMMA ServiceStep == Inv /\ Service => Inv'
<1> SUFFICES ASSUME Inv, Service PROVE Inv'
  OBVIOUS
<1>1. active_program = 0 /\ suspended = 0
  BY InKernel DEF Service
<1>2. ASSUME NEW i \in JobSlots, ServicePicks(Live, i), RunJob(i),
             UNCHANGED <<ticks, pool_vars, suspended, kernel_if, shell_vars>>
      PROVE  Inv'
  BY <1>1, <1>2, RunJobStep
<1>3. CASE ServiceIdles(Live) /\ UNCHANGED <<ticks, programs, pool_vars, cpu_vars, shell_vars>>
  BY <1>3, IdleScanStep
<1> QED
  BY <1>2, <1>3 DEF Service

LEMMA ServiceInReadStep == Inv /\ ServiceInRead => Inv'
<1> SUFFICES ASSUME Inv, ServiceInRead PROVE Inv'
  OBVIOUS
<1>1. suspended = 0
  BY DEF ServiceInRead, Inv, Control
<1>2. ASSUME NEW i \in JobSlots, ServicePicks(Live, i), RunJob(i),
             suspended' = active_program,
             UNCHANGED <<ticks, pool_vars, kernel_if, shell_vars>>
      PROVE  Inv'
  BY <1>1, <1>2, RunJobStep
<1>3. CASE ServiceIdles(Live) /\ UNCHANGED <<ticks, programs, pool_vars, cpu_vars, shell_vars>>
  BY <1>3, IdleScanStep
<1> QED
  BY <1>2, <1>3 DEF ServiceInRead

------------------------------------------------------------------------------
(***************************************************************************)
(* Returns from ring 3                                                     *)
(***************************************************************************)
\* In ring 3 the active program is live, and in a job unless a spawn or `fg'
\* runs it.  Nothing is suspended.
LEMMA ActiveFacts ==
    ASSUME Inv, InRing3
    PROVE  /\ active_program \in Live /\ active_program \in Ids
           /\ caller = "sched_service" =>
                 running_slot \in Active /\ running_slot \in JobsOf(active_program)
           /\ caller # "sched_service" => running_slot = -1
           /\ suspended = 0 /\ 0 \notin Ids
BY DEF Inv, InRing3, Control, RunningSlotIsTheJob, JobsOf, Live, Ids

\* After LeaveRing3 the kernel is as InKernel describes it.
LEMMA LeaveStep ==
    ASSUME Inv, InRing3, NEW next \in {"kernel", "fallback"}, LeaveRing3(next),
           ticks' \in 0 .. TickMod - 1, quantum_expired' = FALSE,
           UNCHANGED <<next_run, waiting, spin>>,
           JobTableInv', MemoryInv', \A id \in Live' : JobsOf(id)' # {}
    PROVE  Inv'
<1>1. /\ cpu' = next /\ active_program' = 0 /\ caller' = "none"
      /\ kernel_if' = FALSE /\ suspended' = suspended
      /\ spawn_name' \in {spawn_name, NoImage}
  BY DEF LeaveRing3
<1>2. running_slot' = -1 /\ suspended' = 0
  BY <1>1, ActiveFacts DEF LeaveRing3
<1>3. RestTypeOK'
  BY <1>1, <1>2, SchedAssumption DEF Inv, RestTypeOK
<1>4. Control' /\ RunningSlotIsTheJob' /\ JobWithinQuantum'
  BY <1>1, <1>2 DEF Control, RunningSlotIsTheJob, JobWithinQuantum
<1>5. NoOrphan'
  BY DEF NoOrphan
<1> QED
  BY <1>3, <1>4, <1>5 DEF Inv

\* A live program other than the active one is in a job.
LEMMA OthersInJobs ==
    ASSUME Inv, InRing3
    PROVE  \A id \in Live \ {active_program} : JobsOf(id) # {}
<1>1. suspended = 0 /\ 0 \notin Ids
  BY ActiveFacts
<1> QED
  BY <1>1 DEF Inv, NoOrphan, Live

LEMMA SysExitStep == Inv /\ SysExit => Inv'
<1> SUFFICES ASSUME Inv, SysExit PROVE Inv'
  OBVIOUS
<1>1. /\ InRing3
      /\ programs' = [programs EXCEPT ![active_program] = EndedIn(@, "EXITED")]
      /\ ReturnPages(active_program)
      /\ LeaveRing3("kernel")
      /\ UNCHANGED <<jobs, job_count, preempt_armed, quantum_expired, next_run, ticks,
                     waiting, spin>>
  BY DEF SysExit
<1>2. active_program \in Ids
  BY <1>1, ActiveFacts
<1> DEFINE r == EndedIn(programs[active_program], "EXITED")
<1>3. /\ r \in Program /\ r.state \in Ended /\ ~r.has_ctx
      /\ programs' = [programs EXCEPT ![active_program] = r]
  BY <1>1, <1>2 DEF Inv, MemoryInv, Program, EndedIn, States, Ended
<1> HIDE DEF r
<1>4. MemoryInv' /\ Live' = Live \ {active_program}
  BY <1>1, <1>2, <1>3, ReleaseStep DEF ReturnPages, Inv
<1>5. JobTableInv' /\ \A id : JobsOf(id)' = JobsOf(id)
  BY <1>1, JobTableInvUnchanged DEF Inv, job_vars
<1>6. \A id \in Live' : JobsOf(id)' # {}
  BY <1>1, <1>4, <1>5, OthersInJobs
<1>7. ticks' \in 0 .. TickMod - 1 /\ quantum_expired' = FALSE
  BY <1>1 DEF Inv, RestTypeOK, Control
<1> QED
  BY <1>1, <1>4, <1>5, <1>6, <1>7, LeaveStep

LEMMA FaultStep == Inv /\ Fault => Inv'
<1> SUFFICES ASSUME Inv, Fault PROVE Inv'
  OBVIOUS
<1> DEFINE next == IF caller = "program_spawn_elf" THEN "fallback" ELSE "kernel"
           r == IF caller \in {"program_spawn", "program_spawn_elf"}
                THEN Blank ELSE EndedIn(programs[active_program], "FAULT")
<1>1. /\ InRing3
      /\ ReturnPages(active_program)
      /\ LeaveRing3(next)
      /\ UNCHANGED <<jobs, job_count, preempt_armed, quantum_expired, next_run, ticks,
                     waiting, spin>>
  BY DEF Fault
<1>2. active_program \in Ids
  BY <1>1, ActiveFacts
<1>3. programs' = [programs EXCEPT ![active_program] = r]
  BY DEF Fault
<1>4. r \in Program /\ (~r.used \/ r.state \in Ended) /\ ~r.has_ctx
  BY <1>2, BlankIsProgram DEF Inv, MemoryInv, Program, EndedIn, States, Ended
<1>5. next \in {"kernel", "fallback"}
  OBVIOUS
<1> HIDE DEF r, next
<1>6. MemoryInv' /\ Live' = Live \ {active_program}
  BY <1>1, <1>2, <1>3, <1>4, ReleaseStep DEF ReturnPages, Inv
<1>7. JobTableInv' /\ \A id : JobsOf(id)' = JobsOf(id)
  BY <1>1, JobTableInvUnchanged DEF Inv, job_vars
<1>8. \A id \in Live' : JobsOf(id)' # {}
  BY <1>1, <1>6, <1>7, OthersInJobs
<1>9. ticks' \in 0 .. TickMod - 1 /\ quantum_expired' = FALSE
  BY <1>1 DEF Inv, RestTypeOK, Control
<1> QED
  BY <1>1, <1>5, <1>6, <1>7, <1>8, <1>9, LeaveStep

\* The timer preempts only a job whose entry is still there.
LEMMA PreemptedIsJob ==
    ASSUME Inv, InRing3, sched_on_timer(NextTick)
    PROVE  caller = "sched_service"
<1>1. quantum_expired = FALSE
  BY DEF Inv, Control
<1>2. running_slot >= 0
  BY <1>1 DEF sched_on_timer
<1>3. running_slot # -1
  BY <1>2
<1> QED
  BY <1>3, ActiveFacts

LEMMA TimerTickStep == Inv /\ TimerTick => Inv'
<1> SUFFICES ASSUME Inv, TimerTick PROVE Inv'
  OBVIOUS
<1> DEFINE expired == sched_on_timer(NextTick)
<1>1. /\ InRing3 /\ ticks' = NextTick
      /\ UNCHANGED <<jobs, job_count, preempt_armed, next_run, pool_vars, waiting, spin>>
  BY DEF TimerTick
<1>2. NextTick \in 0 .. TickMod - 1
  BY NextTickRange DEF Inv, RestTypeOK
<1>3. JobTableInv' /\ Active' = Active /\ \A id : JobsOf(id)' = JobsOf(id)
  BY <1>1, JobTableInvUnchanged DEF Inv, job_vars
<1>4. active_program \in Live /\ active_program \in Ids
  BY <1>1, ActiveFacts
<1>5. CASE /\ sched_should_preempt(expired)
           /\ quantum_expired' = FALSE
           /\ programs' = [programs EXCEPT ![active_program].has_ctx = TRUE]
           /\ LeaveRing3("kernel")
  <2> DEFINE r == [programs[active_program] EXCEPT !.has_ctx = TRUE]
  <2>1. /\ r \in Program /\ r.used /\ r.state \notin Ended
        /\ r.tables = programs[active_program].tables
        /\ r.frames = programs[active_program].frames
        /\ programs' = [programs EXCEPT ![active_program] = r]
    BY <1>4, <1>5 DEF Inv, MemoryInv, Program, Live
  <2> HIDE DEF r
  <2>2. MemoryInv' /\ Live' = Live
    BY <1>1, <1>4, <2>1, StayLiveStep DEF Inv
  <2>3. JobsOf(active_program) # {}
    BY <1>1, <1>5, PreemptedIsJob, ActiveFacts DEF sched_should_preempt
  <2>4. \A id \in Live' : JobsOf(id)' # {}
    BY <1>1, <1>3, <2>2, <2>3, OthersInJobs
  <2> QED
    BY <1>1, <1>2, <1>3, <1>5, <2>2, <2>4, LeaveStep
<1>6. CASE /\ ~sched_should_preempt(expired)
           /\ quantum_expired' = expired
           /\ UNCHANGED <<programs, cpu_vars, running_slot, spawn_name>>
  <2>1. ~expired
    BY <1>6 DEF sched_should_preempt, sched_on_timer, Inv, Control
  <2>2. MemoryInv' /\ Live' = Live
    BY <1>1, <1>6, MemoryUnchanged DEF Inv
  <2>3. RestTypeOK'
    BY <1>1, <1>2, <1>6 DEF Inv, RestTypeOK, cpu_vars
  <2>4. Control'
    BY <1>6, <2>1, <2>2 DEF Inv, Control, cpu_vars
  <2>5. RunningSlotIsTheJob'
    BY <1>1, <1>3, <1>6 DEF Inv, RunningSlotIsTheJob, cpu_vars
  <2>6. NoOrphan'
    BY <1>3, <1>6, <2>2 DEF Inv, NoOrphan, cpu_vars
  <2>7. JobWithinQuantum'
    <3> SUFFICES ASSUME caller = "sched_service"
                 PROVE  SliceUsed(running_slot, NextTick) < Quantum
      BY <1>1, <1>6 DEF JobWithinQuantum, SliceUsed, cpu_vars
    <3>1. running_slot \in Active
      BY <1>1, ActiveFacts
    <3>2. running_slot >= 0 /\ jobs[running_slot].active
      BY <3>1, SchedAssumption DEF Active, JobSlots
    <3>3. preempt_armed /\ job_count # 0
      <4>1. IsFiniteSet(Active)
        BY SlotsFinite DEF Active
      <4>2. Cardinality(Active) # 0
        BY <3>1, <4>1, FS_EmptySet
      <4> QED
        BY <4>2 DEF Inv, JobTableInv, JobAccounting
    <3>4. ~(SliceUsed(running_slot, NextTick) >= Quantum)
      BY <2>1, <3>2, <3>3 DEF sched_on_timer
    <3>5. SliceUsed(running_slot, NextTick) \in Int
      <4>1. jobs[running_slot].slice_start \in 0 .. TickMod - 1
        BY <3>1 DEF Inv, JobTableInv, Active, Job
      <4> QED
        BY <1>2, <4>1, SchedAssumption DEF SliceUsed
    <3> QED
      BY <3>4, <3>5, SchedAssumption
  <2> QED
    BY <1>3, <2>2, <2>3, <2>4, <2>5, <2>6, <2>7 DEF Inv
<1> QED
  BY <1>5, <1>6 DEF TimerTick

------------------------------------------------------------------------------
(***************************************************************************)
(* The theorems                                                            *)
(***************************************************************************)
\* Every step keeps the invariant.
LEMMA NextInv == Inv /\ [Next]_vars => Inv'
<1> SUFFICES ASSUME Inv, [Next]_vars PROVE Inv'
  OBVIOUS
<1>1. CASE Commands
  <2>1. ASSUME NEW img \in Images, NEW readable \in BOOLEAN,
               \/ SpawnBackground(img, readable) \/ SpawnBackgroundFails(img, readable)
               \/ SpawnFromDisk(img, readable) \/ SpawnFromDiskFails(img, readable)
        PROVE  Inv'
    BY <2>1, SpawnBackgroundStep, SpawnBackgroundFailsStep, SpawnFromDiskStep,
       SpawnFromDiskFailsStep
  <2>2. ASSUME NEW id \in Ids, Kill(id) \/ Foreground(id)
        PROVE  Inv'
    BY <2>2, KillStep, ForegroundInv
  <2>3. CASE KillAll
    BY <2>3, KillAllInv
  <2>4. CASE Wait
    BY <2>4, WaitStep
  <2>5. ASSUME NEW n \in 1 .. SpinMax, SpinWait(n)
        PROVE  Inv'
    BY <2>5, SpinWaitStep
  <2> QED
    BY <1>1, <2>1, <2>2, <2>3, <2>4, <2>5 DEF Commands
<1>2. CASE Kernel
  BY <1>2, SpawnBuiltInStep, SpawnBuiltInFailsStep, WaitReturnsStep, SpinReturnsStep,
     ServiceStep DEF Kernel
<1>3. CASE Ring3
  BY <1>3, TimerTickStep, SysExitStep, FaultStep, SysReadStep, InputArrivesStep,
     ServiceInReadStep, TrapOverFramesStep DEF Ring3
<1>4. CASE KernelTick
  BY <1>4, KernelTickStep
<1>5. CASE UNCHANGED vars
  BY <1>5, StutterStep
<1> QED
  BY <1>1, <1>2, <1>3, <1>4, <1>5 DEF Next

\* Inv is an invariant of the kernel.
THEOREM Invariance == Spec => []Inv
<1>1. Init => Inv
  BY InitInv
<1>2. Inv /\ [Next]_vars => Inv'
  BY NextInv
<1> QED
  BY <1>1, <1>2, PTL DEF Spec

\* Every variable keeps its type: no table index, tick or owner tag leaves its range.
THEOREM TypeCorrect == Spec => []TypeOK
<1>1. Inv => TypeOK
  <2> SUFFICES ASSUME Inv PROVE TypeOK
    OBVIOUS
  <2>1. SchedTypeOK
    BY DEF Inv, RestTypeOK, JobTableInv, Control, SchedTypeOK
  <2>2. /\ programs \in [Ids -> Program]
        /\ user_pt_owner \in [0 .. PtPages - 1 -> 0 .. ProgramSlots]
        /\ user_data_owner \in [0 .. DataPages - 1 -> 0 .. ProgramSlots]
    BY DEF Inv, MemoryInv, Pool
  <2>3. /\ cpu \in {"kernel", "fallback", "spin", "ring3", "read", "wild"}
        /\ caller \in {"none", "program_spawn", "program_spawn_elf", "cmd_fg", "sched_service"}
    BY DEF Inv, Control
  <2> QED
    BY <2>1, <2>2, <2>3 DEF Inv, RestTypeOK, TypeOK
<1> QED
  BY <1>1, Invariance, PTL

\* The job count kept by hand never drifts from the table, and the timer
\* preempts as long as there is a job.
THEOREM JobAccountingHolds == Spec => []JobAccounting
<1>1. Inv => JobAccounting
  BY DEF Inv, JobTableInv
<1> QED
  BY <1>1, Invariance, PTL

\* No program is queued twice, whatever ids are reused for.
THEOREM JobsDistinctHolds == Spec => []JobsDistinct
<1>1. Inv => JobsDistinct
  BY DEF Inv, JobTableInv
<1> QED
  BY <1>1, Invariance, PTL

\* No program is left that neither runs nor will ever be run again.
THEOREM NoOrphanHolds == Spec => []NoOrphan
<1>1. Inv => NoOrphan
  BY DEF Inv
<1> QED
  BY <1>1, Invariance, PTL

\* Every program that can be run owns the pages of its address space.
THEOREM AddressSpacesOwnedHolds == Spec => []AddressSpacesOwned
<1>1. Inv => AddressSpacesOwned
  BY DEF Inv, MemoryInv
<1> QED
  BY <1>1, Invariance, PTL

\* A saved context belongs to a program that can still run, so that a new
\* tenant of a slot never starts from its predecessor's registers.
THEOREM ContextIsLiveHolds == Spec => []ContextIsLive
<1>1. Inv => ContextIsLive
  BY DEF Inv, MemoryInv
<1> QED
  BY <1>1, Invariance, PTL

\* running_slot names the job in ring 3, and no slot in between.
THEOREM RunningSlotHolds == Spec => []RunningSlotIsTheJob
<1>1. Inv => RunningSlotIsTheJob
  BY DEF Inv
<1> QED
  BY <1>1, Invariance, PTL

\* No job outlives its quantum in ring 3, however the tick counter wraps.
THEOREM QuantumKeptHolds == Spec => []QuantumKept
<1>1. Inv => QuantumKept
  BY DEF Inv, JobWithinQuantum, QuantumKept
<1> QED
  BY <1>1, Invariance, PTL

\* With as many job entries as program slots a program just loaded always
\* gets an entry, so `spawn bg' never has to drop one.
THEOREM RoomHolds ==
    ASSUME JobsMax >= ProgramSlots
    PROVE  Spec => []RoomForEveryProgram
<1>1. Inv => RoomForEveryProgram
  BY TableHasRoom DEF Inv
<1> QED
  BY <1>1, Invariance, PTL

\* No step saves a context where there was none.
NoNewContext == \A id \in Ids : programs'[id].has_ctx => programs[id].has_ctx

LEMMA PlacedNoContext ==
    ASSUME MemoryInv, NEW id \in Ids, FoundSlot(id), NEW img \in Images, TakePages(id, img),
           NEW state \in States,
           \/ programs' = Placed(id, img, state)
           \/ programs' = [Placed(id, img, state) EXCEPT ![id].has_ctx = FALSE]
    PROVE  NoNewContext
<1> DEFINE r == PlacedRecord(id, img, state)
<1>1. /\ Placed(id, img, state) = [programs EXCEPT ![id] = r]
      /\ [Placed(id, img, state) EXCEPT ![id].has_ctx = FALSE] = [programs EXCEPT ![id] = r]
  BY PlacedIsOneSlot
<1>2. ~r.has_ctx
  BY PlacedRecordType
<1> HIDE DEF r
<1>3. programs' = [programs EXCEPT ![id] = r]
  BY <1>1, Zenon
<1> QED
  BY <1>2, <1>3 DEF NoNewContext, MemoryInv

LEMMA VacatedNoContext ==
    ASSUME MemoryInv, NEW id \in Ids, FoundSlot(id), programs' = VacatedPrograms(id)
    PROVE  NoNewContext
BY VacatedFacts DEF NoNewContext

LEMMA UnlaunchedNoContext ==
    ASSUME MemoryInv, NEW id \in Ids, FoundSlot(id), NEW img \in Images, TakePages(id, img),
           programs' = Unlaunched(id, img)
    PROVE  NoNewContext
<1> DEFINE r == PlacedRecord(id, img, "IDLE")
<1>0. "IDLE" \in States
  BY DEF States
<1>1. [Placed(id, img, "IDLE") EXCEPT ![id].has_ctx = FALSE] = [programs EXCEPT ![id] = r]
  BY <1>0, PlacedIsOneSlot
<1>2. ~r.has_ctx /\ r \in Program
  BY <1>0, PlacedRecordType
<1> HIDE DEF r
<1>3. programs' = [[Placed(id, img, "IDLE") EXCEPT ![id].has_ctx = FALSE] EXCEPT ![id].used = FALSE]
  BY DEF Unlaunched
<1>4. programs' = [[programs EXCEPT ![id] = r] EXCEPT ![id].used = FALSE]
  BY <1>1, <1>3
<1> QED
  BY <1>2, <1>4 DEF NoNewContext, MemoryInv, Program

\* Commands save no context.
LEMMA CommandsNoContext == Inv /\ Commands => NoNewContext
<1> SUFFICES ASSUME Inv, Commands PROVE NoNewContext
  OBVIOUS
<1>0. MemoryInv /\ {"IDLE", "RUNNING"} \subseteq States
  BY DEF Inv, States
<1>1. ASSUME NEW img \in Images, NEW readable \in BOOLEAN, SpawnBackground(img, readable)
      PROVE  NoNewContext
  <2>1. PICK id \in Ids :
            /\ FoundSlot(id)
            /\ \/ program_load_image(id, img, "IDLE")
               \/ TakePages(id, img) /\ programs' = Unlaunched(id, img)
    BY <1>1 DEF SpawnBackground
  <2> QED
    BY <1>0, <2>1, PlacedNoContext, UnlaunchedNoContext DEF program_load_image
<1>2. ASSUME NEW img \in Images, NEW readable \in BOOLEAN, SpawnBackgroundFails(img, readable)
      PROVE  NoNewContext
  BY <1>0, <1>2, VacatedNoContext DEF SpawnBackgroundFails, AbandonSlot
<1>3. ASSUME NEW img \in Images, NEW readable \in BOOLEAN, SpawnFromDisk(img, readable)
      PROVE  NoNewContext
  BY <1>0, <1>3, PlacedNoContext DEF SpawnFromDisk, program_load_image
<1>4. ASSUME NEW img \in Images, NEW readable \in BOOLEAN, SpawnFromDiskFails(img, readable)
      PROVE  NoNewContext
  <2>1. CASE UNCHANGED <<programs, pool_vars>>
    BY <2>1 DEF NoNewContext
  <2>2. CASE \E id \in Ids : FoundSlot(id) /\ AbandonSlot(id)
    BY <1>0, <2>2, VacatedNoContext DEF AbandonSlot
  <2> QED
    BY <1>4, <2>1, <2>2 DEF SpawnFromDiskFails
<1>5. ASSUME NEW id \in Ids, Kill(id)
      PROVE  NoNewContext
  BY <1>0, <1>5, BlankIsProgram DEF Kill, program_release, NoNewContext, MemoryInv
<1>6. ASSUME NEW id \in Ids, Foreground(id)
      PROVE  NoNewContext
  BY <1>0, <1>6 DEF Foreground, NoNewContext, MemoryInv, Program
<1>7. ASSUME KillAll
      PROVE  NoNewContext
  BY <1>7, BlankIsProgram DEF KillAll, NoNewContext
<1>8. ASSUME Wait \/ \E n \in 1 .. SpinMax : SpinWait(n)
      PROVE  NoNewContext
  BY <1>8 DEF Wait, SpinWait, NoNewContext
<1> QED
  BY <1>1, <1>2, <1>3, <1>4, <1>5, <1>6, <1>7, <1>8 DEF Commands

\* Neither does the kernel on its way into ring 3.
LEMMA KernelNoContext == Inv /\ Kernel => NoNewContext
<1> SUFFICES ASSUME Inv, Kernel PROVE NoNewContext
  OBVIOUS
<1>0. MemoryInv /\ "RUNNING" \in States
  BY DEF Inv, States
<1>1. ASSUME SpawnBuiltIn
      PROVE  NoNewContext
  <2>1. spawn_name \in Images
    BY <1>1, KernelAssumption DEF SpawnBuiltIn
  <2> QED
    BY <1>0, <1>1, <2>1, PlacedNoContext DEF SpawnBuiltIn
<1>2. ASSUME SpawnBuiltInFails
      PROVE  NoNewContext
  <2>1. CASE UNCHANGED <<programs, pool_vars>>
    BY <2>1 DEF NoNewContext
  <2>2. CASE \E id \in Ids : FoundSlot(id) /\ programs' = VacatedPrograms(id)
    BY <1>0, <2>2, VacatedNoContext
  <2> QED
    BY <1>2, <2>1, <2>2 DEF SpawnBuiltInFails, AbandonSlot
<1>3. ASSUME WaitReturns \/ SpinReturns
      PROVE  NoNewContext
  BY <1>3 DEF WaitReturns, SpinReturns, NoNewContext
<1>4. ASSUME Service
      PROVE  NoNewContext
  BY <1>0, <1>4 DEF Service, RunJob, NoNewContext, MemoryInv, Program
<1> QED
  BY <1>1, <1>2, <1>3, <1>4 DEF Kernel

\* Of the returns from ring 3, only the preemption of a job saves a context.
LEMMA Ring3SavesJobs ==
    Inv /\ Ring3 =>
        \A id \in Ids : ~programs[id].has_ctx /\ programs'[id].has_ctx => JobsOf(id) # {}
<1> SUFFICES ASSUME Inv, Ring3, NEW id \in Ids, ~programs[id].has_ctx, programs'[id].has_ctx
             PROVE  JobsOf(id) # {}
  OBVIOUS
<1>0. programs \in [Ids -> Program]
  BY DEF Inv, MemoryInv
<1>1. CASE TimerTick
  <2>1. InRing3 /\ sched_on_timer(NextTick) /\ id = active_program
    BY <1>0, <1>1 DEF TimerTick, sched_should_preempt, Program
  <2> QED
    BY <2>1, PreemptedIsJob, ActiveFacts
<1>2. CASE SysExit
  BY <1>0, <1>2 DEF SysExit, EndedIn, Program
<1>3. CASE Fault
  BY <1>0, <1>3, BlankIsProgram DEF Fault, EndedIn, Program
<1>4. CASE ServiceInRead
  BY <1>0, <1>4 DEF ServiceInRead, RunJob, Program
<1>5. CASE SysRead \/ InputArrives \/ TrapOverFrames
  BY <1>5 DEF SysRead, InputArrives, TrapOverFrames
<1> QED
  BY <1>1, <1>2, <1>3, <1>4, <1>5 DEF Ring3

\* No step saves the context of a program that is not in the job table.
THEOREM OnlyJobsArePreempted == Spec => OnlyJobsPreempted
<1> DEFINE SavesJobs ==
      \A id \in Ids : ~programs[id].has_ctx /\ programs'[id].has_ctx => JobsOf(id) # {}
<1>1. Inv /\ [Next]_vars => [SavesJobs]_vars
  <2> SUFFICES ASSUME Inv, Next PROVE SavesJobs
    OBVIOUS
  <2>1. CASE Commands
    BY <2>1, CommandsNoContext DEF NoNewContext
  <2>2. CASE Kernel
    BY <2>2, KernelNoContext DEF NoNewContext
  <2>3. CASE Ring3
    BY <2>3, Ring3SavesJobs
  <2>4. CASE KernelTick
    BY <2>4 DEF KernelTick
  <2> QED
    BY <2>1, <2>2, <2>3, <2>4 DEF Next
<1> QED
  BY <1>1, Invariance, PTL DEF Spec, OnlyJobsPreempted

------------------------------------------------------------------------------
(***************************************************************************)
(* Counting round the table and round the clock                            *)
(***************************************************************************)
\* Both counters wrap with %: the remainder of a difference of two values in
\* the range is the difference itself, or one round more.
LEMMA Wrapped ==
    ASSUME NEW N \in Nat \ {0}, NEW a \in 0 .. N - 1, NEW b \in 0 .. N - 1
    PROVE  (a - b) % N = IF a >= b THEN a - b ELSE a - b + N
<1>1. CASE a >= b
  <2>1. a - b \in 0 .. N - 1
    BY <1>1
  <2> QED
    BY <1>1, <2>1
<1>2. CASE ~(a >= b)
  <2>1. a - b \in Int /\ -N <= a - b /\ a - b < 0
    BY <1>2
  <2> QED
    BY <1>2, <2>1
<1> QED
  BY <1>1, <1>2

LEMMA Successor ==
    ASSUME NEW N \in Nat \ {0}, NEW a \in 0 .. N - 1
    PROVE  (a + 1) % N = IF a = N - 1 THEN 0 ELSE a + 1
<1>1. CASE a = N - 1
  <2>1. N % N = 0
    OBVIOUS
  <2>2. a + 1 = N
    BY <1>1
  <2> QED
    BY <1>1, <2>1, <2>2
<1>2. CASE a # N - 1
  <2>1. a + 1 \in 0 .. N - 1
    BY <1>2
  <2> QED
    BY <1>2, <2>1
<1> QED
  BY <1>1, <1>2

\* Slots have different turns, all less than the number of slots ...
LEMMA TurnFacts ==
    ASSUME next_run \in JobSlots
    PROVE  \A i, j \in JobSlots : /\ Turn(i) \in 0 .. JobsMax - 1
                                  /\ Turn(i) = Turn(j) => i = j
<1>1. JobsMax \in Nat \ {0}
  BY SchedAssumption
<1>2. \A i \in JobSlots :
          Turn(i) = IF i >= next_run THEN i - next_run ELSE i - next_run + JobsMax
  BY <1>1, Wrapped DEF Turn, JobSlots
<1> QED
  BY <1>1, <1>2 DEF JobSlots

\* ... and behind slot c, the turn of a slot that came after c has come nearer.
LEMMA TurnAfter ==
    ASSUME next_run \in JobSlots, NEW c \in JobSlots, next_run' = NextCursor(c),
           NEW i \in JobSlots, Turn(c) <= Turn(i)
    PROVE  /\ Turn(i)' \in 0 .. JobsMax - 1
           /\ i # c => Turn(i)' <= Turn(i) - 1
<1>1. JobsMax \in Nat \ {0}
  BY SchedAssumption
<1>2. \A k \in JobSlots :
          Turn(k) = IF k >= next_run THEN k - next_run ELSE k - next_run + JobsMax
  BY <1>1, Wrapped DEF Turn, JobSlots
<1>3. next_run' = IF c = JobsMax - 1 THEN 0 ELSE c + 1
  BY <1>1, Successor DEF NextCursor, JobSlots
<1>4. next_run' \in 0 .. JobsMax - 1
  BY <1>1, <1>3 DEF JobSlots
<1>5. Turn(i)' = IF i >= next_run' THEN i - next_run' ELSE i - next_run' + JobsMax
  BY <1>1, <1>4, Wrapped DEF Turn, JobSlots
<1> QED
  BY <1>1, <1>2, <1>3, <1>4, <1>5 DEF JobSlots

\* Before the quantum is used up a tick lengthens the slice by one, however
\* the tick counter wraps.
LEMMA SliceGrows ==
    ASSUME ticks \in 0 .. TickMod - 1, NEW slot,
           jobs[slot].slice_start \in 0 .. TickMod - 1,
           SliceUsed(slot, ticks) < Quantum
    PROVE  /\ SliceUsed(slot, NextTick) = SliceUsed(slot, ticks) + 1
           /\ SliceUsed(slot, ticks) \in Nat
           /\ NextTick # ticks
<1> DEFINE s == jobs[slot].slice_start
<1>1. TickMod \in Nat \ {0} /\ Quantum \in Nat \ {0} /\ TickMod > Quantum
  BY SchedAssumption
<1> HIDE DEF s
<1>2. NextTick = IF ticks = TickMod - 1 THEN 0 ELSE ticks + 1
  BY <1>1, Successor DEF NextTick
<1>3. NextTick \in 0 .. TickMod - 1 /\ NextTick # ticks
  BY <1>1, <1>2
<1>4. s \in 0 .. TickMod - 1
  BY DEF s
<1>5. SliceUsed(slot, ticks) = IF ticks >= s THEN ticks - s ELSE ticks - s + TickMod
  BY <1>1, <1>4, Wrapped DEF SliceUsed, s
<1>6. SliceUsed(slot, NextTick) =
          IF NextTick >= s THEN NextTick - s ELSE NextTick - s + TickMod
  BY <1>1, <1>3, <1>4, Wrapped DEF SliceUsed, s
<1> QED
  BY <1>1, <1>2, <1>3, <1>4, <1>5, <1>6

------------------------------------------------------------------------------
(***************************************************************************)
(* The steps of the kernel, as the history variables see them              *)
(***************************************************************************)
\* A step that dispatches job i.
Picks(i) ==
    /\ ServicePicks(Live, i) /\ RunJob(i)
    /\ UNCHANGED ticks
    /\ running_slot = -1 \/ suspended' # suspended

\* A tick that leaves the program in ring 3 there.
Charges ==
    /\ ~Dispatch
    /\ ticks' = NextTick
    /\ UNCHANGED <<jobs, next_run, running_slot, caller>>

\* Any other step: the cursor stays, and a running job goes on as it was.
Passes ==
    /\ ~Dispatch
    /\ UNCHANGED next_run
    /\ caller' = "sched_service" => UNCHANGED <<jobs, ticks, running_slot, caller>>

\* Leaving the caller as it is dispatches nobody.
LEMMA SameCaller ==
    ASSUME Inv, UNCHANGED <<caller, suspended>>
    PROVE  ~Dispatch
<1>1. caller = "sched_service" => running_slot \in JobSlots
  BY DEF Inv, RunningSlotIsTheJob, Active
<1>2. -1 \notin JobSlots
  BY SchedAssumption DEF JobSlots
<1> QED
  BY <1>1, <1>2 DEF Dispatch

\* A step of the kernel other than sched_service's ends without a job running.
LEMMA CommandsPass == Inv /\ Commands => Passes
<1> SUFFICES ASSUME Inv, Commands PROVE Passes
  OBVIOUS
<1>1. cpu = "kernel"
  BY DEF Commands, SpawnBackground, SpawnBackgroundFails, SpawnFromDisk,
     SpawnFromDiskFails, Kill, Foreground, KillAll, Wait, SpinWait, AtPrompt
<1>2. caller = "none"
  BY <1>1, InKernel
<1>3. UNCHANGED next_run
  BY DEF Commands, SpawnBackground, SpawnBackgroundFails, SpawnFromDisk,
     SpawnFromDiskFails, Kill, Foreground, KillAll, Wait, SpinWait, sched_vars
<1>4. caller' = caller \/ caller' \in {"program_spawn_elf", "cmd_fg"}
  BY DEF Commands, SpawnBackground, SpawnBackgroundFails, SpawnFromDisk,
     SpawnFromDiskFails, Kill, Foreground, KillAll, Wait, SpinWait, cpu_vars, EnterRing3
<1> QED
  BY <1>2, <1>3, <1>4 DEF Passes, Dispatch

LEMMA KernelTickPasses == Inv /\ KernelTick => Passes
<1> SUFFICES ASSUME Inv, KernelTick PROVE Passes
  OBVIOUS
<1>1. caller = "none"
  BY InKernel DEF KernelTick
<1> QED
  BY <1>1 DEF KernelTick, cpu_vars, Passes, Dispatch

\* A scan that finds nothing finds no job running around it either.
LEMMA IdleScanPasses ==
    ASSUME Inv, ServiceIdles(Live), UNCHANGED cpu_vars
    PROVE  Passes
<1>1. \A id \in Live : JobsOf(id) = {}
  BY IdleKeepsTable DEF Inv
<1>2. caller # "sched_service"
  <2> SUFFICES ASSUME caller = "sched_service" PROVE FALSE
    OBVIOUS
  <2>1. active_program \in Live
    BY DEF Inv, Control
  <2>2. running_slot \in JobsOf(active_program)
    BY DEF Inv, RunningSlotIsTheJob, JobsOf
  <2> QED
    BY <1>1, <2>1, <2>2
<1> QED
  BY <1>2 DEF Passes, Dispatch, ServiceIdles, cpu_vars

LEMMA KernelPicksOrPasses ==
    Inv /\ Kernel => Passes \/ \E i \in JobSlots : Picks(i)
<1> SUFFICES ASSUME Inv, Kernel PROVE Passes \/ \E i \in JobSlots : Picks(i)
  OBVIOUS
<1>1. cpu \in {"kernel", "fallback", "spin"}
  BY DEF Kernel, SpawnBuiltIn, SpawnBuiltInFails, WaitReturns, SpinReturns, Service
<1>2. caller = "none" /\ running_slot = -1
  BY <1>1, InKernel
<1>3. CASE SpawnBuiltIn
  BY <1>2, <1>3 DEF SpawnBuiltIn, EnterRing3, sched_vars, Passes, Dispatch
<1>4. CASE SpawnBuiltInFails \/ WaitReturns \/ SpinReturns
  BY <1>2, <1>4
  DEF SpawnBuiltInFails, WaitReturns, SpinReturns, sched_vars, cpu_vars, Passes, Dispatch
<1>5. CASE Service
  BY <1>2, <1>5, IdleScanPasses DEF Service, Picks
<1> QED
  BY <1>3, <1>4, <1>5 DEF Kernel

LEMMA Ring3Steps ==
    Inv /\ Ring3 => Passes \/ Charges \/ \E i \in JobSlots : Picks(i)
<1> SUFFICES ASSUME Inv, Ring3 PROVE Passes \/ Charges \/ \E i \in JobSlots : Picks(i)
  OBVIOUS
<1>1. CASE SysExit \/ Fault
  BY <1>1 DEF SysExit, Fault, LeaveRing3, Passes, Dispatch
<1>2. CASE SysRead \/ InputArrives \/ TrapOverFrames
  BY <1>2, SameCaller DEF SysRead, InputArrives, TrapOverFrames, sched_vars, Passes
<1>3. CASE TimerTick
  <2>1. UNCHANGED <<jobs, next_run>> /\ ticks' = NextTick
    BY <1>3 DEF TimerTick
  <2>2. LeaveRing3("kernel") \/ UNCHANGED <<cpu_vars, running_slot>>
    BY <1>3 DEF TimerTick
  <2>3. CASE LeaveRing3("kernel")
    BY <2>1, <2>3 DEF LeaveRing3, Passes, Dispatch
  <2>4. CASE UNCHANGED <<cpu_vars, running_slot>>
    BY <2>1, <2>4, SameCaller DEF cpu_vars, Charges
  <2> QED
    BY <2>2, <2>3, <2>4
<1>4. CASE ServiceInRead
  <2>1. cpu = "read"
    BY <1>4 DEF ServiceInRead
  <2>2. suspended = 0 /\ active_program # 0
    BY <2>1 DEF Inv, Control, Live, Ids
  <2> QED
    BY <1>4, <2>2, IdleScanPasses DEF ServiceInRead, Picks
<1> QED
  BY <1>1, <1>2, <1>3, <1>4 DEF Ring3

\* Every step dispatches a job, counts a tick of a program, or passes.
LEMMA StepKinds ==
    Inv /\ [Next]_vars => Passes \/ Charges \/ \E i \in JobSlots : Picks(i)
<1>1. Inv /\ UNCHANGED vars => Passes
  BY SameCaller DEF vars, cpu_vars, sched_vars, Passes
<1> QED
  BY <1>1, CommandsPass, KernelTickPasses, KernelPicksOrPasses, Ring3Steps DEF Next

------------------------------------------------------------------------------
(***************************************************************************)
(* Turns                                                                   *)
(***************************************************************************)
\* A dispatch takes the first ready job from the cursor on, which stays
\* ready, and makes no other job ready.
LEMMA PickReady ==
    ASSUME Inv, NEW c \in JobSlots, Picks(c)
    PROVE  /\ Dispatch /\ running_slot' = c /\ next_run' = NextCursor(c)
           /\ c \in Ready(Live) /\ c \in Ready(Live)'
           /\ Ready(Live)' \subseteq Ready(Live)
           /\ \A i \in Ready(Live) : Turn(c) <= Turn(i)
<1> DEFINE id == jobs[c].program_id
<1>1. /\ ServicePicks(Live, c) /\ RunJob(c)
      /\ running_slot = -1 \/ suspended' # suspended
  BY DEF Picks
<1>2. Dispatch /\ running_slot' = c /\ next_run' = NextCursor(c)
  BY <1>1 DEF Dispatch, RunJob, EnterRing3, ServicePicks
<1>3. c \in Ready(Live) /\ \A i \in Ready(Live) : Turn(c) <= Turn(i)
  BY <1>1 DEF ServicePicks, Picked
<1>4. /\ c \in Active' /\ id \in Live \cap Ids
      /\ jobs'[c].program_id = id
  BY <1>1, PickKeepsTable DEF Inv, RestTypeOK
<1>5. Live' = Live
  <2>1. programs' = [programs EXCEPT ![id].state = "RUNNING"]
    BY <1>1 DEF RunJob
  <2>2. \A p \in Ids : /\ programs'[p].used = programs[p].used
                       /\ p # id => programs'[p].state = programs[p].state
                       /\ p = id => programs'[p].state = "RUNNING"
    BY <2>1 DEF Inv, MemoryInv, Program
  <2>3. "RUNNING" \notin Ended
    BY DEF Ended
  <2> QED
    BY <1>4, <2>2, <2>3 DEF Live
<1>6. Ready(Live)' \subseteq Ready(Live)
  <2> SUFFICES ASSUME NEW i \in JobSlots, jobs'[i].active, jobs'[i].program_id \in Live
               PROVE  jobs[i].active /\ jobs[i].program_id \in Live
    BY <1>5 DEF Ready, Active
  <2> DEFINE R == ReapedBefore(Live, c)
  <2>1. jobs' = [Without(R) EXCEPT ![c].slice_start = ticks]
    BY <1>1 DEF ServicePicks
  <2>2. CASE i = c
    BY <1>3, <2>2 DEF Ready, Active
  <2>3. CASE i # c
    <3>1. jobs'[i] = IF i \in R THEN NoJob ELSE jobs[i]
      BY <2>1, <2>3 DEF Without
    <3>2. ~NoJob.active
      BY DEF NoJob
    <3> QED
      BY <3>1, <3>2
  <2> QED
    BY <2>2, <2>3
<1>7. c \in Ready(Live)'
  BY <1>4, <1>5 DEF Ready
<1> QED
  BY <1>2, <1>3, <1>6, <1>7

\* A ready job has not been passed over more often than the cursor has come
\* nearer to it.  passed says nothing of other slots: they start from zero.
TurnInv ==
    /\ passed \in [JobSlots -> Nat]
    /\ \A i \in Ready(Live) : passed[i] + Turn(i) <= JobsMax - 1

\* How a step changes passed when it dispatches nobody, and when it does.
LEMMA PassedFacts ==
    ASSUME AuditNext, NEW i \in JobSlots
    PROVE  /\ i \notin Ready(Live) \/ i \notin Ready(Live)' => passed'[i] = 0
           /\ i \in Ready(Live) /\ i \in Ready(Live)' =>
                 /\ ~Dispatch => passed'[i] = passed[i]
                 /\ Dispatch => passed'[i] = IF i = running_slot' THEN 0 ELSE passed[i] + 1
BY Zenon DEF AuditNext

LEMMA PassedType == AuditNext /\ passed \in [JobSlots -> Nat] => passed' \in [JobSlots -> Nat]
BY DEF AuditNext

\* Steps without a dispatch are changes of the set of clients.
LEMMA QuietTurn ==
    ASSUME Inv, TurnInv, AuditNext, next_run' \in JobSlots, ~Dispatch, UNCHANGED next_run
    PROVE  TurnInv' /\ Rotation!Change
<1>1. JobsMax \in Nat \ {0} /\ next_run \in JobSlots
  BY SchedAssumption DEF Inv, RestTypeOK
<1>2. passed' \in [JobSlots -> Nat]
  BY PassedType DEF TurnInv
<1>3. \A i \in JobSlots : Turn(i) \in 0 .. JobsMax - 1 /\ Turn(i)' = Turn(i)
  BY <1>1, TurnFacts DEF Turn
<1>4. ASSUME NEW i \in Ready(Live)'
      PROVE  passed'[i] + Turn(i)' <= JobsMax - 1
  <2>1. i \in JobSlots
    BY DEF Ready, Active
  <2>2. CASE i \in Ready(Live)
    <3>1. passed'[i] = passed[i]
      BY <1>4, <2>1, <2>2, PassedFacts
    <3> QED
      BY <1>3, <2>1, <2>2, <3>1 DEF TurnInv
  <2>3. CASE i \notin Ready(Live)
    <3>1. passed'[i] = 0
      BY <2>1, <2>3, PassedFacts
    <3>2. Turn(i) <= JobsMax - 1 /\ Turn(i)' = Turn(i) /\ Turn(i) \in Nat
      BY <1>1, <1>3, <2>1
    <3> QED
      BY <3>1, <3>2
  <2> QED
    BY <2>2, <2>3
<1>5. passed' = [c \in JobSlots |->
                    IF c \in Ready(Live) \cap Ready(Live)' THEN passed[c] ELSE 0]
  <2>1. \A c \in JobSlots :
            passed'[c] = IF c \in Ready(Live) \cap Ready(Live)' THEN passed[c] ELSE 0
    BY PassedFacts
  <2> QED
    BY <1>2, <2>1
<1>6. Ready(Live)' \in SUBSET JobSlots
  BY DEF Ready, Active
<1> QED
  BY <1>2, <1>4, <1>5, <1>6 DEF TurnInv, Rotation!Change

\* A dispatch serves the first client from the cursor on.
LEMMA ServiceTurn ==
    ASSUME Inv, TurnInv, AuditNext, NEW c \in JobSlots, Picks(c)
    PROVE  TurnInv' /\ Rotation!Serve(c)
<1>1. JobsMax \in Nat \ {0} /\ next_run \in JobSlots
  BY SchedAssumption DEF Inv, RestTypeOK
<1>2. /\ Dispatch /\ running_slot' = c /\ next_run' = NextCursor(c)
      /\ c \in Ready(Live) /\ c \in Ready(Live)'
      /\ Ready(Live)' \subseteq Ready(Live)
      /\ \A i \in Ready(Live) : Turn(c) <= Turn(i)
  BY PickReady
<1>3. passed' \in [JobSlots -> Nat]
  BY PassedType DEF TurnInv
<1>4. \A i \in Ready(Live)' : i \in JobSlots /\ i \in Ready(Live)
  BY <1>2 DEF Ready, Active
<1>5. \A i \in JobSlots :
          passed'[i] = IF i \in Ready(Live)' \ {c} THEN passed[i] + 1 ELSE 0
  BY <1>2, <1>4, PassedFacts
<1>6. ASSUME NEW i \in Ready(Live)'
      PROVE  /\ passed'[i] + Turn(i)' <= JobsMax - 1
             /\ passed'[i] <= JobsMax - 1
  <2>1. i \in JobSlots /\ i \in Ready(Live) /\ Turn(c) <= Turn(i)
    BY <1>2, <1>4, <1>6
  <2>2. /\ Turn(i)' \in 0 .. JobsMax - 1
        /\ i # c => Turn(i)' <= Turn(i) - 1
    BY <1>1, <1>2, <2>1, TurnAfter
  <2>3. passed'[i] = IF i = c THEN 0 ELSE passed[i] + 1
    BY <1>5, <1>6, <2>1
  <2>4. passed[i] \in Nat /\ passed[i] + Turn(i) <= JobsMax - 1
    BY <2>1 DEF TurnInv
  <2>5. Turn(i) \in 0 .. JobsMax - 1
    BY <1>1, <2>1, TurnFacts
  <2> QED
    BY <1>1, <2>2, <2>3, <2>4, <2>5
<1>7. passed' = [d \in JobSlots |-> IF d \in Ready(Live)' \ {c} THEN passed[d] + 1 ELSE 0]
  BY <1>3, <1>5
<1> QED
  BY <1>2, <1>3, <1>6, <1>7 DEF TurnInv, Rotation!Serve

------------------------------------------------------------------------------
(***************************************************************************)
(* Slices                                                                  *)
(***************************************************************************)
\* ran is what sched_on_timer computes from the entry's slice_start.
SliceInv == caller = "sched_service" => ran = SliceUsed(running_slot, ticks)

\* What Inv says of the entry of a running job.
LEMMA RunningFacts ==
    ASSUME Inv, caller = "sched_service"
    PROVE  /\ ticks \in 0 .. TickMod - 1
           /\ jobs[running_slot].slice_start \in 0 .. TickMod - 1
           /\ SliceUsed(running_slot, ticks) < Quantum
<1>1. running_slot \in JobSlots
  BY DEF Inv, RunningSlotIsTheJob, Active
<1> QED
  BY <1>1 DEF Inv, RestTypeOK, JobTableInv, Job, JobWithinQuantum

LEMMA SliceStep == Inv /\ SliceInv /\ [AuditNext]_audit_vars => SliceInv'
<1> SUFFICES ASSUME Inv, SliceInv, [AuditNext]_audit_vars, (caller = "sched_service")'
             PROVE  ran' = SliceUsed(running_slot, ticks)'
  BY DEF SliceInv
<1>1. CASE UNCHANGED audit_vars
  BY <1>1 DEF SliceInv, SliceUsed, audit_vars, vars, sched_vars, cpu_vars
<1>2. CASE AuditNext
  <2>1. ran' = IF Dispatch THEN 0
               ELSE IF caller = "sched_service" /\ ticks' # ticks THEN ran + 1
               ELSE ran
    BY <1>2 DEF AuditNext
  <2>2. CASE Passes
    <3>1. ~Dispatch /\ UNCHANGED <<jobs, ticks, running_slot, caller>>
      BY <2>2 DEF Passes
    <3> QED
      BY <2>1, <3>1 DEF SliceInv, SliceUsed
  <2>3. CASE Charges
    <3>1. ~Dispatch /\ ticks' = NextTick /\ UNCHANGED <<jobs, running_slot, caller>>
      BY <2>3 DEF Charges
    <3>2. /\ SliceUsed(running_slot, NextTick) = SliceUsed(running_slot, ticks) + 1
          /\ NextTick # ticks
      BY <3>1, RunningFacts, SliceGrows
    <3>3. SliceUsed(running_slot, ticks)' = SliceUsed(running_slot, NextTick)
      BY <3>1 DEF SliceUsed
    <3> QED
      BY <2>1, <3>1, <3>2, <3>3 DEF SliceInv
  <2>4. ASSUME NEW i \in JobSlots, Picks(i)
        PROVE  ran' = SliceUsed(running_slot, ticks)'
    <3>1. Dispatch /\ running_slot' = i /\ ticks' = ticks
      BY <2>4, PickReady DEF Picks
    <3>2. jobs'[i].slice_start = ticks
      BY <2>4, PickKeepsTable DEF Picks, Inv, RestTypeOK
    <3>3. ticks - ticks = 0 /\ 0 % TickMod = 0
      BY SchedAssumption DEF Inv, RestTypeOK
    <3> QED
      BY <2>1, <3>1, <3>2, <3>3 DEF SliceUsed
  <2> QED
    BY <1>2, <2>2, <2>3, <2>4, StepKinds DEF AuditNext
<1> QED
  BY <1>1, <1>2

\* Only isr_timer takes a program out of ring 3 that is to go on later.
LEMMA PreemptionIsATick ==
    ASSUME Inv, [Next]_vars, cpu = "ring3", cpu' = "kernel",
           programs'[active_program].has_ctx
    PROVE  TimerTick /\ sched_on_timer(NextTick) /\ caller' # "sched_service"
<1>1. active_program \in Ids
  BY DEF Inv, Control, Live
<1>2. programs \in [Ids -> Program]
  BY DEF Inv, MemoryInv
<1>3. ~SysExit
  BY <1>1, <1>2 DEF SysExit, EndedIn, Program
<1>4. ~Fault
  BY <1>1, <1>2, BlankIsProgram DEF Fault, EndedIn, Program
<1>5. ~SysRead /\ ~InputArrives /\ ~ServiceInRead /\ ~TrapOverFrames
  BY DEF SysRead, InputArrives, ServiceInRead, TrapOverFrames
<1>6. ~Commands
  BY DEF Commands, SpawnBackground, SpawnBackgroundFails, SpawnFromDisk,
     SpawnFromDiskFails, Kill, Foreground, KillAll, Wait, SpinWait, AtPrompt
<1>7. ~Kernel /\ ~KernelTick /\ ~UNCHANGED vars
  BY DEF Kernel, SpawnBuiltIn, SpawnBuiltInFails, WaitReturns, SpinReturns, Service,
     KernelTick, vars, cpu_vars
<1>8. TimerTick
  BY <1>3, <1>4, <1>5, <1>6, <1>7 DEF Next, Ring3
<1>9. sched_should_preempt(sched_on_timer(NextTick)) /\ LeaveRing3("kernel")
  BY <1>8 DEF TimerTick, cpu_vars
<1> QED
  BY <1>8, <1>9 DEF sched_should_preempt, LeaveRing3

LEMMA WholeSlice ==
    ASSUME Inv, SliceInv, AuditNext, cpu = "ring3", cpu' = "kernel",
           programs'[active_program].has_ctx
    PROVE  ran' = Quantum
<1>1. TimerTick /\ sched_on_timer(NextTick) /\ caller' # "sched_service"
  BY PreemptionIsATick DEF AuditNext
<1>2. caller = "sched_service"
  BY <1>1, PreemptedIsJob DEF TimerTick
<1>3. SliceUsed(running_slot, NextTick) >= Quantum
  BY <1>1 DEF sched_on_timer, Inv, Control
<1>4. /\ ticks \in 0 .. TickMod - 1
      /\ jobs[running_slot].slice_start \in 0 .. TickMod - 1
      /\ SliceUsed(running_slot, ticks) < Quantum
  BY <1>2, RunningFacts
<1>5. /\ SliceUsed(running_slot, NextTick) = SliceUsed(running_slot, ticks) + 1
      /\ SliceUsed(running_slot, ticks) \in Nat
      /\ NextTick # ticks
  BY <1>4, SliceGrows
<1>6. SliceUsed(running_slot, NextTick) = Quantum
  BY <1>3, <1>4, <1>5, SchedAssumption
<1>7. ticks' = NextTick /\ ~Dispatch
  BY <1>1 DEF TimerTick, Dispatch
<1>8. ran' = ran + 1
  BY <1>2, <1>5, <1>7 DEF AuditNext
<1> QED
  BY <1>2, <1>5, <1>6, <1>8 DEF SliceInv

------------------------------------------------------------------------------
(***************************************************************************)
(* The theorems                                                            *)
(***************************************************************************)
AuditInv == Inv /\ TurnInv /\ SliceInv

LEMMA AuditInitInv == AuditInit => AuditInv /\ Rotation!Init
<1> SUFFICES ASSUME AuditInit PROVE AuditInv /\ Rotation!Init
  OBVIOUS
<1>1. Inv
  BY InitInv DEF AuditInit
<1>2. Ready(Live) = {} /\ caller = "none"
  <2>1. Active = {}
    BY DEF AuditInit, Init, SchedInit, Active, NoJob
  <2> QED
    BY <2>1 DEF Ready, AuditInit, Init
<1> QED
  BY <1>1, <1>2 DEF AuditInit, AuditInv, TurnInv, SliceInv, Rotation!Init

\* A step keeps the invariant, and is a step of BoundedBypass.
LEMMA AuditStep ==
    AuditInv /\ [AuditNext]_audit_vars
        => AuditInv' /\ [Rotation!Next]_<<Ready(Live), passed>>
<1> SUFFICES ASSUME AuditInv, [AuditNext]_audit_vars
             PROVE  AuditInv' /\ [Rotation!Next]_<<Ready(Live), passed>>
  OBVIOUS
<1>1. Inv /\ TurnInv /\ SliceInv
  BY DEF AuditInv
<1>2. [Next]_vars
  BY DEF AuditNext, audit_vars
<1>3. Inv' /\ SliceInv'
  BY <1>1, <1>2, NextInv, SliceStep
<1>4. next_run' \in JobSlots
  BY <1>3 DEF Inv, RestTypeOK
<1>5. CASE UNCHANGED audit_vars
  <2>1. UNCHANGED <<jobs, programs, next_run, passed>>
    BY <1>5 DEF audit_vars, vars, sched_vars
  <2>2. Ready(Live)' = Ready(Live) /\ \A i : Turn(i)' = Turn(i)
    BY <2>1 DEF Ready, Live, Active, Turn
  <2> QED
    BY <1>1, <1>3, <2>1, <2>2 DEF AuditInv, TurnInv
<1>6. CASE AuditNext
  <2>1. CASE Passes \/ Charges
    <3>1. ~Dispatch /\ UNCHANGED next_run
      BY <2>1 DEF Passes, Charges
    <3> QED
      BY <1>1, <1>3, <1>4, <1>6, <3>1, QuietTurn DEF AuditInv, Rotation!Next
  <2>2. ASSUME NEW i \in JobSlots, Picks(i)
        PROVE  TurnInv' /\ Rotation!Next
    BY <1>1, <1>6, <2>2, ServiceTurn DEF Rotation!Next
  <2> QED
    BY <1>1, <1>2, <1>3, <2>1, <2>2, StepKinds DEF AuditInv
<1> QED
  BY <1>5, <1>6

THEOREM AuditInvariance == AuditSpec => []AuditInv
<1>1. AuditInit => AuditInv
  BY AuditInitInv
<1>2. AuditInv /\ [AuditNext]_audit_vars => AuditInv'
  BY AuditStep
<1> QED
  BY <1>1, <1>2, PTL DEF AuditSpec

\* sched_service goes round: a ready job is passed over at most JobsMax - 1
\* times before its turn, whichever jobs come, go, end or are killed
\* meanwhile, and from whichever of its two callers the service is entered.
THEOREM RoundRobinHolds == AuditSpec => RoundRobin
<1>1. AuditInit => Rotation!Init
  BY AuditInitInv
<1>2. AuditInv /\ [AuditNext]_audit_vars => [Rotation!Next]_<<Ready(Live), passed>>
  BY AuditStep
<1> QED
  BY <1>1, <1>2, AuditInvariance, PTL DEF AuditSpec, RoundRobin, Rotation!Spec

\* A preempted job has had its whole quantum, at every width of the tick
\* counter: no tick counted for another job and no flag left from an earlier
\* slice shortens it, and no tick is given on top.
THEOREM FullSlicesHold == AuditSpec => FullSlices
<1> DEFINE Whole == cpu = "ring3" /\ cpu' = "kernel" /\ programs'[active_program].has_ctx
                        => ran' = Quantum
<1>1. AuditInv /\ [AuditNext]_audit_vars => [Whole]_audit_vars
  BY WholeSlice DEF AuditInv
<1> QED
  BY <1>1, AuditInvariance, PTL DEF AuditSpec, FullSlices

===============================================================================
