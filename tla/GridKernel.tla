----------------------------- MODULE GridKernel ------------------------------
(***************************************************************************)
(* Programs, background jobs and the processor of Grid OS: program.c,      *)
(* sched.c, memory.c's user pools, syscall.c, boot/interrupts.s and the    *)
(* shell commands that drive them.                                         *)
(*                                                                         *)
(* There is one processor.  It runs the kernel (the shell, polling the     *)
(* keyboard and calling sched_service between polls) until the kernel      *)
(* enters ring 3 through program_enter; it comes back by a system call, a  *)
(* fault or a timer tick, whose handlers run with interrupts off, so each  *)
(* is one action here.                                                     *)
(***************************************************************************)
EXTENDS GridSched, UserPages

CONSTANTS
    Images,         \* program names a user can ask for
    NoImage,        \* not an image
    OnDisk,         \* images found under /programs on the disk
    BuiltIn,        \* images compiled into the kernel
    SpawnOnly,      \* built-in images that `spawn' knows and `spawn bg' does not
    BadElf,         \* disk images elf_load refuses
    Interactive,    \* images that call SYS_READ or SYS_READ_LINE
    DataNeed,       \* data pages of an image, its stack included
    RootTables,     \* page-table pages every address space starts with: 3 in the code
    PtNeed,         \* page-table pages of an address space: 5 in the code
    PtPages,        \* MAX_USER_PT: 24 in the code
    DataPages,      \* MAX_USER_DATA: 16 in the code
    SpinMax         \* bound: the longest tick wait a BASIC program asks for

ASSUME KernelAssumption ==
    /\ NoImage \notin Images
    /\ OnDisk \subseteq Images /\ BuiltIn \subseteq Images /\ SpawnOnly \subseteq BuiltIn
    /\ BadElf \subseteq OnDisk /\ Interactive \subseteq Images
    /\ DataNeed \in [Images -> Nat \ {0}]
    /\ RootTables \in Nat \ {0} /\ PtNeed \in Nat /\ PtNeed >= RootTables
    /\ PtPages \in Nat /\ DataPages \in Nat /\ SpinMax \in Nat

VARIABLES
    programs,         \* the program table
    user_pt_owner,    \* owner tags of the page-table pool
    user_data_owner,  \* owner tags of the data pool
    cpu,              \* what the processor is doing
    active_program,   \* syscall.c: id of the program in ring 3, 0 for none
    caller,           \* the function that called program_enter
    suspended,        \* program whose system call's frames are live on the
                      \* ring-0 entry stack, below a nested program_enter
    kernel_if,        \* the interrupt flag while the kernel runs
    spawn_name,       \* argument of the program_spawn_named in progress
    waiting,          \* the shell is inside cmd_wait
    spin              \* ticks GRID.WAIT still has to see

sched_vars == <<jobs, job_count, preempt_armed, quantum_expired, next_run,
                running_slot, ticks>>
pool_vars == <<user_pt_owner, user_data_owner>>
cpu_vars == <<cpu, active_program, caller, suspended, kernel_if>>
shell_vars == <<spawn_name, waiting, spin>>
vars == <<sched_vars, programs, pool_vars, cpu_vars, shell_vars>>

States == {"IDLE", "RUNNING", "EXITED", "FAULT"}
Ended == {"EXITED", "FAULT"}

Program == [used : BOOLEAN, state : States, has_ctx : BOOLEAN,
            image : Images \cup {NoImage},
            tables : SUBSET (0 .. PtPages - 1),
            frames : SUBSET (0 .. DataPages - 1)]

\* A slot after program_init or program_release.
Blank == [used |-> FALSE, state |-> "IDLE", has_ctx |-> FALSE,
          image |-> NoImage, tables |-> {}, frames |-> {}]

\* The ids for which the scheduler finds a program it can run.
Live == {id \in Ids : programs[id].used /\ programs[id].state \notin Ended}

Init ==
    /\ SchedInit
    /\ programs = [id \in Ids |-> Blank]
    /\ user_pt_owner = [p \in 0 .. PtPages - 1 |-> 0]
    /\ user_data_owner = [p \in 0 .. DataPages - 1 |-> 0]
    /\ cpu = "kernel" /\ active_program = 0 /\ caller = "none" /\ suspended = 0
    /\ kernel_if = TRUE
    /\ spawn_name = NoImage /\ waiting = FALSE /\ spin = 0

------------------------------------------------------------------------------
(***************************************************************************)
(* The program table                                                       *)
(***************************************************************************)
Unused == {id \in Ids : ~programs[id].used}
Reclaimable == {id \in Ids : programs[id].state \in Ended}

\* find_slot: the first unused slot, else the first ended program's slot.
FoundSlot(id) ==
    \/ id \in Unused /\ \A other \in Unused : id <= other
    \/ /\ Unused = {}
       /\ id \in Reclaimable /\ \A other \in Reclaimable : id <= other

NoSlot == Unused = {} /\ Reclaimable = {}

\* find_slot has released the ended program it reclaims.
VacatedPrograms(id) ==
    IF programs[id].used THEN [programs EXCEPT ![id] = Blank] ELSE programs
VacatedPool(pool, id) == IF programs[id].used THEN Release(pool, id) ELSE pool

VacatedPt(id) == VacatedPool(user_pt_owner, id)
VacatedData(id) == VacatedPool(user_data_owner, id)

Fits(id, img) ==
    Enough(VacatedPt(id), PtNeed) /\ Enough(VacatedData(id), DataNeed[img])

\* The address space built for an image in a slot just found.
TakePages(id, img) ==
    /\ user_pt_owner' = Take(VacatedPt(id), PtNeed, id)
    /\ user_data_owner' = Take(VacatedData(id), DataNeed[img], id)

Placed(id, img, state) ==
    [VacatedPrograms(id) EXCEPT
        ![id] = [@ EXCEPT !.used = TRUE, !.state = state, !.image = img,
                          !.tables = FirstFree(VacatedPt(id), PtNeed),
                          !.frames = FirstFree(VacatedData(id), DataNeed[img])]]

\* program_load_image when it succeeds; it also forgets any saved context.
program_load_image(id, img, state) ==
    /\ Fits(id, img)
    /\ TakePages(id, img)
    /\ programs' = [Placed(id, img, state) EXCEPT ![id].has_ctx = FALSE]

\* Mutant: releases by slot index instead of program id.
AbandonOffByOne(id) ==
    /\ programs' = VacatedPrograms(id)
    /\ user_pt_owner' = Release(user_pt_owner, id - 1)
    /\ user_data_owner' = Release(user_data_owner, id - 1)

\* A spawn that ends after find_slot, giving back what carries the slot's tag.
AbandonSlot(id) ==
    /\ programs' = VacatedPrograms(id)
    /\ user_pt_owner' = Release(user_pt_owner, id)
    /\ user_data_owner' = Release(user_data_owner, id)

\* program_release, which does nothing to an unused slot.
program_release(id) ==
    IF programs[id].used
    THEN /\ programs' = [programs EXCEPT ![id] = Blank]
         /\ user_pt_owner' = Release(user_pt_owner, id)
         /\ user_data_owner' = Release(user_data_owner, id)
    ELSE UNCHANGED <<programs, pool_vars>>

\* program_enter up to the iretq.
EnterRing3(id, who) ==
    /\ cpu' = "ring3"
    /\ active_program' = id
    /\ caller' = who

------------------------------------------------------------------------------
(***************************************************************************)
(* Commands: the shell's, and the GRID.* statements of BASIC that make the *)
(* same calls.  The shell takes one only when nothing else is in progress. *)
(***************************************************************************)
AtPrompt == cpu = "kernel" /\ ~waiting

\* Where program_load_named finds an image: a readable disk copy first.
FromDisk(img, readable) == readable /\ img \in OnDisk
Known(img, readable) == FromDisk(img, readable) \/ img \in BuiltIn \ SpawnOnly
Loads(id, img, readable) == Fits(id, img) /\ ~(FromDisk(img, readable) /\ img \in BadElf)

\* program_run_background when sched_launch fails.
Unlaunched(id, img) ==
    [Placed(id, img, "IDLE") EXCEPT ![id].has_ctx = FALSE, ![id].used = FALSE]

\* `spawn bg': program_run_background queues the image as a job.
SpawnBackground(img, readable) ==
    /\ AtPrompt
    /\ \E id \in Ids :
          /\ FoundSlot(id)
          /\ Known(img, readable) /\ Loads(id, img, readable)
          /\ \/ /\ ~LaunchFails(id)
                /\ program_load_image(id, img, "IDLE")
                /\ sched_launch(id)
             \/ /\ LaunchFails(id)
                /\ TakePages(id, img)
                /\ programs' = Unlaunched(id, img)
                /\ UNCHANGED <<jobs, job_count, preempt_armed>>
    /\ UNCHANGED <<quantum_expired, next_run, running_slot, ticks, cpu_vars, shell_vars>>

\* `spawn bg' of an image that is unknown or does not load: find_slot has
\* already reclaimed the slot.
SpawnBackgroundFails(img, readable) ==
    /\ AtPrompt
    /\ \E id \in Ids :
          /\ FoundSlot(id)
          /\ \/ /\ ~Known(img, readable)
                /\ programs' = VacatedPrograms(id)
                /\ user_pt_owner' = VacatedPt(id)
                /\ user_data_owner' = VacatedData(id)
             \/ /\ Known(img, readable) /\ ~Loads(id, img, readable)
                /\ AbandonSlot(id)
    /\ UNCHANGED <<sched_vars, cpu_vars, shell_vars>>

\* `spawn': program_spawn_named runs the disk copy in the foreground ...
SpawnFromDisk(img, readable) ==
    /\ AtPrompt
    /\ \E id \in Ids :
          /\ FoundSlot(id)
          /\ FromDisk(img, readable) /\ Loads(id, img, readable)
          /\ program_load_image(id, img, "RUNNING")
          /\ EnterRing3(id, "program_spawn_elf")
    /\ spawn_name' = img
    /\ UNCHANGED <<sched_vars, suspended, kernel_if, waiting, spin>>

\* ... and when that does not work out, looks for a built-in copy.
SpawnFromDiskFails(img, readable) ==
    /\ AtPrompt
    /\ \/ /\ ~FromDisk(img, readable) \/ NoSlot
          /\ UNCHANGED <<programs, pool_vars>>
       \/ /\ FromDisk(img, readable)
          /\ \E id \in Ids : FoundSlot(id) /\ ~Loads(id, img, readable) /\ AbandonSlot(id)
    /\ cpu' = "fallback"
    /\ spawn_name' = img
    /\ UNCHANGED <<sched_vars, active_program, caller, suspended, kernel_if, waiting, spin>>

\* program_spawn of the built-in copy, into ring 3.
SpawnBuiltIn ==
    /\ cpu = "fallback" /\ spawn_name \in BuiltIn
    /\ \E id \in Ids :
          /\ FoundSlot(id)
          /\ Fits(id, spawn_name)
          /\ TakePages(id, spawn_name)
          /\ programs' = Placed(id, spawn_name, "RUNNING")
          /\ EnterRing3(id, "program_spawn")
    /\ UNCHANGED <<sched_vars, suspended, kernel_if, shell_vars>>

\* program_spawn after the root tables, when a later page is not to be had:
\* the data pages in reach are taken and so are some of the tables.
KeepPages(id, img) ==
    /\ \E n \in RootTables .. PtNeed : user_pt_owner' = Take(VacatedPt(id), n, id)
    /\ user_data_owner' = Take(VacatedData(id), DataNeed[img], id)

\* program_spawn gives up.  It returns the pages it took when the root
\* tables do not fit, and only then.
SpawnBuiltInFails ==
    /\ cpu = "fallback"
    /\ \/ /\ spawn_name \notin BuiltIn \/ NoSlot
          /\ UNCHANGED <<programs, pool_vars>>
       \/ /\ spawn_name \in BuiltIn
          /\ \E id \in Ids :
                /\ FoundSlot(id)
                /\ \/ ~Enough(VacatedPt(id), RootTables) /\ AbandonSlot(id)
                   \/ /\ Enough(VacatedPt(id), RootTables) /\ ~Fits(id, spawn_name)
                      /\ KeepPages(id, spawn_name)
                      /\ programs' = VacatedPrograms(id)
    /\ cpu' = "kernel"
    /\ spawn_name' = NoImage
    /\ UNCHANGED <<sched_vars, active_program, caller, suspended, kernel_if, waiting, spin>>

\* Mutant: the job goes, the program stays.
KillJobOnly(id) ==
    /\ AtPrompt
    /\ JobsOf(id) # {}
    /\ RemoveJobs(id)
    /\ UNCHANGED <<next_run, running_slot, ticks, programs, pool_vars, cpu_vars, shell_vars>>

\* `kill n'
Kill(id) ==
    /\ AtPrompt
    /\ JobsOf(id) # {}
    /\ RemoveJobs(id)
    /\ program_release(id)
    /\ UNCHANGED <<next_run, running_slot, ticks, cpu_vars, shell_vars>>

\* `kill all'
KillAll ==
    LET killed == {jobs[i].program_id : i \in Active}
        freed == {id \in killed : programs[id].used}
    IN  /\ AtPrompt
        /\ sched_kill_all
        /\ programs' = [id \in Ids |-> IF id \in freed THEN Blank ELSE programs[id]]
        /\ user_pt_owner' = [p \in DOMAIN user_pt_owner |->
              IF user_pt_owner[p] \in freed THEN 0 ELSE user_pt_owner[p]]
        /\ user_data_owner' = [p \in DOMAIN user_data_owner |->
              IF user_data_owner[p] \in freed THEN 0 ELSE user_data_owner[p]]
        /\ UNCHANGED <<next_run, running_slot, ticks, cpu_vars, shell_vars>>

\* `fg n' takes the program out of the job table and runs it to its end.
Foreground(id) ==
    /\ AtPrompt
    /\ id \in Live
    /\ RemoveJobs(id)
    /\ programs' = [programs EXCEPT ![id].state = "RUNNING"]
    /\ EnterRing3(id, "cmd_fg")
    /\ UNCHANGED <<next_run, running_slot, ticks, pool_vars, suspended, kernel_if, shell_vars>>

\* `wait' calls sched_service until no job is left.
Wait ==
    /\ AtPrompt
    /\ job_count # 0
    /\ waiting' = TRUE
    /\ UNCHANGED <<sched_vars, programs, pool_vars, cpu_vars, spawn_name, spin>>

WaitReturns ==
    /\ cpu = "kernel" /\ waiting
    /\ job_count <= 0
    /\ waiting' = FALSE
    /\ UNCHANGED <<sched_vars, programs, pool_vars, cpu_vars, spawn_name, spin>>

\* GRID.WAIT n spins on timer_ticks, with no poll inside the loop.
SpinWait(n) ==
    /\ AtPrompt
    /\ cpu' = "spin"
    /\ spin' = n
    /\ UNCHANGED <<sched_vars, programs, pool_vars, active_program, caller,
                   suspended, kernel_if, spawn_name, waiting>>

SpinReturns ==
    /\ cpu = "spin" /\ spin = 0
    /\ cpu' = "kernel"
    /\ UNCHANGED <<sched_vars, programs, pool_vars, active_program, caller,
                   suspended, kernel_if, shell_vars>>

------------------------------------------------------------------------------
(***************************************************************************)
(* sched_service, from console_idle or from cmd_wait                       *)
(***************************************************************************)
RunJob(i) ==
    /\ programs' = [programs EXCEPT ![jobs[i].program_id].state = "RUNNING"]
    /\ EnterRing3(jobs[i].program_id, "sched_service")

Service ==
    /\ cpu = "kernel"
    /\ waiting => job_count > 0
    /\ \/ /\ \E i \in JobSlots : ServicePicks(Live, i) /\ RunJob(i)
          /\ UNCHANGED <<ticks, pool_vars, suspended, kernel_if, shell_vars>>
       \/ /\ ServiceIdles(Live)
          /\ UNCHANGED <<ticks, programs, pool_vars, cpu_vars, shell_vars>>

\* A program blocked in SYS_READ polls the keyboard through console_idle,
\* so sched_service runs inside its system call, whose frames stay live on
\* the entry stack while the picked job is in ring 3.
ServiceInRead ==
    /\ cpu = "read"
    /\ \/ /\ \E i \in JobSlots : ServicePicks(Live, i) /\ RunJob(i)
          /\ suspended' = active_program
          /\ UNCHANGED <<ticks, pool_vars, kernel_if, shell_vars>>
       \/ /\ ServiceIdles(Live)
          /\ UNCHANGED <<ticks, programs, pool_vars, cpu_vars, shell_vars>>

------------------------------------------------------------------------------
(***************************************************************************)
(* Ring 3                                                                  *)
(***************************************************************************)
InRing3 == cpu = "ring3" /\ suspended = 0

\* Mutant: running_slot is not cleared after program_run.
LeavesSlotRunning(next) ==
    /\ cpu' = next
    /\ active_program' = 0
    /\ caller' = "none"
    /\ kernel_if' = FALSE
    /\ spawn_name' = IF next = "fallback" THEN spawn_name ELSE NoImage
    /\ UNCHANGED <<suspended, running_slot>>

\* The kernel continues after enter_usermode.  The iret the handler would
\* have ended with is abandoned, so the interrupt flag it cleared stays clear.
LeaveRing3(next) ==
    /\ cpu' = next
    /\ active_program' = 0
    /\ caller' = "none"
    /\ kernel_if' = FALSE
    /\ running_slot' = IF caller = "sched_service" THEN -1 ELSE running_slot
    /\ spawn_name' = IF next = "fallback" THEN spawn_name ELSE NoImage
    /\ UNCHANGED suspended

ReturnPages(id) ==
    /\ user_pt_owner' = Release(user_pt_owner, id)
    /\ user_data_owner' = Release(user_data_owner, id)

\* isr_timer in ring 3: the tick, and the preemption when the quantum is up.
TimerTick ==
    LET expired == sched_on_timer(NextTick)
    IN  /\ InRing3
        /\ ticks' = NextTick
        /\ \/ /\ sched_should_preempt(expired)
              /\ quantum_expired' = FALSE
              /\ programs' = [programs EXCEPT ![active_program].has_ctx = TRUE]
              /\ LeaveRing3("kernel")
           \/ /\ ~sched_should_preempt(expired)
              /\ quantum_expired' = expired
              /\ UNCHANGED <<programs, cpu_vars, running_slot, spawn_name>>
        /\ UNCHANGED <<jobs, job_count, preempt_armed, next_run, pool_vars, waiting, spin>>

\* Mutant: the context of the last preemption outlives the program.
EndedWithContext(program, state) ==
    [program EXCEPT !.state = state, !.tables = {}, !.frames = {}]

\* The program's record once it has ended in a given way.
EndedIn(program, state) ==
    [program EXCEPT !.state = state, !.has_ctx = FALSE, !.tables = {}, !.frames = {}]

\* SYS_EXIT, finish_return and the end of program_enter.
SysExit ==
    /\ InRing3
    /\ programs' = [programs EXCEPT ![active_program] = EndedIn(@, "EXITED")]
    /\ ReturnPages(active_program)
    /\ LeaveRing3("kernel")
    /\ UNCHANGED <<jobs, job_count, preempt_armed, quantum_expired, next_run, ticks,
                   waiting, spin>>

\* A fault in ring 3.  The spawn functions also release the slot, and
\* program_spawn_named then goes on to the built-in copy.
Fault ==
    /\ InRing3
    /\ programs' = [programs EXCEPT ![active_program] =
           IF caller \in {"program_spawn", "program_spawn_elf"}
           THEN Blank
           ELSE EndedIn(@, "FAULT")]
    /\ ReturnPages(active_program)
    /\ LeaveRing3(IF caller = "program_spawn_elf" THEN "fallback" ELSE "kernel")
    /\ UNCHANGED <<jobs, job_count, preempt_armed, quantum_expired, next_run, ticks,
                   waiting, spin>>

\* SYS_READ and SYS_READ_LINE block; a key or serial input ends them.
SysRead ==
    /\ InRing3
    /\ programs[active_program].image \in Interactive
    /\ cpu' = "read"
    /\ UNCHANGED <<sched_vars, programs, pool_vars, active_program, caller,
                   suspended, kernel_if, shell_vars>>

InputArrives ==
    /\ cpu = "read"
    /\ cpu' = "ring3"
    /\ UNCHANGED <<sched_vars, programs, pool_vars, active_program, caller,
                   suspended, kernel_if, shell_vars>>

\* A trap while a system call is suspended: the processor pushes its frame at
\* the top of the entry stack, over the suspended call's own frame.  What the
\* kernel does when that call returns is undefined; the model stops.
TrapOverFrames ==
    /\ cpu = "ring3" /\ suspended # 0
    /\ cpu' = "wild"
    /\ UNCHANGED <<sched_vars, programs, pool_vars, active_program, caller,
                   suspended, kernel_if, shell_vars>>

\* A tick while the kernel runs, which only its interrupt flag lets in.
KernelTick ==
    /\ cpu \in {"kernel", "spin"}
    /\ kernel_if
    /\ ticks' = NextTick
    /\ quantum_expired' = sched_on_timer(NextTick)
    /\ spin' = IF spin > 0 THEN spin - 1 ELSE 0
    /\ UNCHANGED <<jobs, job_count, preempt_armed, next_run, running_slot, programs,
                   pool_vars, cpu_vars, spawn_name, waiting>>

------------------------------------------------------------------------------
Commands ==
    \/ \E img \in Images, readable \in BOOLEAN :
          \/ SpawnBackground(img, readable) \/ SpawnBackgroundFails(img, readable)
          \/ SpawnFromDisk(img, readable) \/ SpawnFromDiskFails(img, readable)
    \/ \E id \in Ids : Kill(id) \/ Foreground(id)
    \/ KillAll \/ Wait
    \/ \E n \in 1 .. SpinMax : SpinWait(n)

Kernel == SpawnBuiltIn \/ SpawnBuiltInFails \/ WaitReturns \/ SpinReturns \/ Service

Ring3 == TimerTick \/ SysExit \/ Fault \/ SysRead \/ InputArrives \/ ServiceInRead
         \/ TrapOverFrames

Next == Commands \/ Kernel \/ Ring3 \/ KernelTick

Spec == Init /\ [][Next]_vars
------------------------------------------------------------------------------
(***************************************************************************)
(* Safety                                                                  *)
(***************************************************************************)
TypeOK ==
    /\ SchedTypeOK
    /\ programs \in [Ids -> Program]
    /\ user_pt_owner \in [0 .. PtPages - 1 -> 0 .. ProgramSlots]
    /\ user_data_owner \in [0 .. DataPages - 1 -> 0 .. ProgramSlots]
    /\ cpu \in {"kernel", "fallback", "spin", "ring3", "read", "wild"}
    /\ active_program \in 0 .. ProgramSlots
    /\ caller \in {"none", "program_spawn", "program_spawn_elf", "cmd_fg", "sched_service"}
    /\ suspended \in 0 .. ProgramSlots
    /\ kernel_if \in BOOLEAN
    /\ spawn_name \in Images \cup {NoImage}
    /\ waiting \in BOOLEAN
    /\ spin \in 0 .. SpinMax

\* A program that has not ended is in ring 3, suspended in a system call, or
\* in a job.  One that is none of these would hold its slot and its pages for
\* ever: find_slot only reclaims programs that have ended.
NoOrphan ==
    \A id \in Live : id \in {active_program, suspended} \/ JobsOf(id) # {}

\* A program that can be run has an address space made of pages that carry
\* its tag: no release of another slot, of an earlier tenant of its own slot
\* or of a failed spawn can hand its pages to someone else.
AddressSpacesOwned ==
    \A id \in Live :
        /\ programs[id].tables # {} /\ programs[id].tables \subseteq Owned(user_pt_owner, id)
        /\ programs[id].frames # {} /\ programs[id].frames \subseteq Owned(user_data_owner, id)

\* Only a program that can still run has a saved context.  program_spawn does
\* not clear has_ctx: were a slot to keep it, the next program in the slot
\* would be resumed from its predecessor's registers.
ContextIsLive == \A id \in Ids : programs[id].has_ctx => id \in Live

\* While a job runs, running_slot is its job entry, and in between no slot is
\* running: sched_on_timer charges a tick to the entry running_slot names.
RunningSlotIsTheJob ==
    IF caller = "sched_service"
    THEN /\ running_slot \in Active
         /\ jobs[running_slot].program_id = active_program
    ELSE running_slot = -1

\* A job in ring 3 has not used up its quantum: the tick that uses it up
\* takes the processor away, however the tick counter wraps around.
QuantumKept ==
    InRing3 /\ caller = "sched_service" => SliceUsed(running_slot, ticks) < Quantum

\* gdt.c: a trap never pushes its frames over a kernel call chain that is
\* still live.
EntryStackSafe == cpu # "wild"

(***************************************************************************)
(* What a step may never do                                                *)
(***************************************************************************)
\* Only a background job is ever preempted: a foreground program that lost
\* the processor would be in no job and could never be resumed.
OnlyJobsPreempted ==
    [][\A id \in Ids : ~programs[id].has_ctx /\ programs'[id].has_ctx => JobsOf(id) # {}]_vars

------------------------------------------------------------------------------
(***************************************************************************)
(* Liveness                                                                *)
(*                                                                         *)
(* The PIT never stops, and it interrupts whenever interrupts are on: they *)
(* are in ring 3, where program_enter starts every program with IF set.    *)
(* The shell's read loop polls, and calls sched_service, many times for    *)
(* each key it receives, so a prompt reached again and again reaches       *)
(* sched_service again and again (strong fairness: commands come between). *)
(***************************************************************************)
Fairness ==
    /\ WF_vars(TimerTick) /\ WF_vars(KernelTick)
    /\ WF_vars(SpawnBuiltIn \/ SpawnBuiltInFails)
    /\ WF_vars(WaitReturns) /\ WF_vars(SpinReturns)
    /\ SF_vars(Service)

FairSpec == Spec /\ Fairness

\* As long as the processor keeps coming back to the kernel (a foreground
\* program may keep it for ever), every job gets its turn or is removed.
JobsGetTurns ==
    []<>(cpu = "kernel") =>
        \A i \in JobSlots : i \in Active ~> (running_slot = i \/ i \notin Active)

\* If every program ends once it has had enough processor time, `wait' returns.
Ends(id) == active_program = id /\ (SysExit \/ Fault)
ProgramsEnd == \A id \in Ids : SF_vars(Ends(id))
WaitEnds == ProgramsEnd => (waiting ~> ~waiting)
==============================================================================
