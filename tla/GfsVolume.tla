----------------------------- MODULE GfsVolume ------------------------------
(***************************************************************************)
(* GFS, the on-disk file system (src/kernel/gfs.c), on the drivers of      *)
(* VirtioBlk.  A file is one inode and one fixed run of sectors; the inode *)
(* table is kept in memory and written out whole after every change.       *)
(*                                                                         *)
(* Each function runs to its end before another is called (one caller at a *)
(* time), but every sector is a transfer that can fail, and power can be   *)
(* lost between any two.  `job' is the call in progress and the place it   *)
(* has reached; `unknown' and `stale' are history variables: the files     *)
(* whose last change failed or was cut off, and those of which a removal   *)
(* ever failed.                                                            *)
(***************************************************************************)
EXTENDS VirtioBlk

CONSTANTS
    Inodes,         \* GFS_INODE_MAX; one inode in a sector of the table
    PerFile,        \* GFS_SECTORS_PER_FILE
    DataBase,       \* GFS_DATA_BASE_LBA
    MountTries,     \* reads of the superblock, or of the table (5)
    Paths, Contents,
    HostsPath,      \* "/etc/hosts"
    Defaults,       \* what gfs_seed_defaults writes: <<[path, data], ...>>
    SuperMark,      \* a valid superblock
    NoFile, Unknown, Unloaded,
    MaxCrashes      \* bound

SuperLba == 0
InodeLba(i) == 1 + i
inode_data_lba(slot) == DataBase + slot * PerFile
Slots == 0..(Inodes - 1)

(* The data of inode 0 would lie inside the inode table, as it does in the *)
(* source (65 + 160 > 128); that of inode 1 begins after it.               *)
ASSUME GfsAssumption ==
    /\ Inodes \in Nat \ {0, 1} /\ PerFile \in Nat \ {0} /\ MountTries \in Nat \ {0}
    /\ inode_data_lba(1) > InodeLba(Inodes - 1)
    /\ 0..(inode_data_lba(Inodes) - 1) \subseteq Lba
    /\ DataBase \in Nat /\ DataBase > SuperLba
    /\ HostsPath \in Paths

(* What a sector can hold: a superblock, an inode, data; a sector of       *)
(* zeroes is no inode, as it has no GFS_INODE_MAGIC.                       *)
ASSUME SectorAssumption ==
    /\ SuperMark \in Sector
    /\ [path : Paths, size : 1..PerFile] \subseteq Sector
    /\ Blank \notin [path : Paths, size : 0..PerFile]
    /\ Contents \subseteq Seq(Sector)
    /\ Defaults \in Seq([path : Paths, data : Contents])
    /\ Unloaded \notin Seq(Sector) /\ Unloaded # NoFile
    /\ NoFile \notin Paths /\ NoFile \notin Seq(Sector)

VARIABLES
    mounted, inodes,    \* the static variables of gfs.c
    hosts,              \* dns.c: the hosts table, or Unloaded
    job,                \* the call in progress
    answer,             \* what the last call of gfs.c returned
    unknown,            \* files whose last change failed or was cut off
    stale,              \* files whose removal failed: the disk kept their inode
    crashes

gfsVars == <<mounted, inodes, hosts, job, answer, unknown, stale, crashes>>
vars == <<diskVars, gfsVars>>

NoInode == Blank
Cleared == [i \in Slots |-> NoInode]
NoJob == [pc |-> "idle", op |-> "none", path |-> NoFile, data |-> <<>>,
          seed |-> 0, file |-> NoFile, bytes |-> <<>>, slot |-> 0, i |-> 0, try |-> 0]
Failed == [ok |-> FALSE, read |-> NoFile]

Init ==
    /\ DiskInit
    /\ medium = [l \in Lba |-> Blank]
    /\ mounted = FALSE
    /\ inodes = Cleared
    /\ hosts = Unloaded
    /\ job = [NoJob EXCEPT !.pc = "off"]
    /\ answer = Failed
    /\ unknown = {}
    /\ stale = {}
    /\ crashes = 0

-----------------------------------------------------------------------------
(* A sector of the table that holds something else has no GFS_INODE_MAGIC. *)
Valid(n) == n \in [path : Paths, size : 0..PerFile]
InUse(tab, p) == {i \in Slots : Valid(tab[i]) /\ tab[i].path = p}
Lowest(S) == CHOOSE i \in S : \A j \in S : i <= j
(* Mutants: the search for a free inode begins at inode 0; the search for *)
(* a name misses the last inode.                                           *)
find_free_inode_any == {i \in Slots : ~Valid(inodes[i])}
find_inode_short(p) == InUse(inodes, p) \ {Inodes - 1}

find_inode(p) == InUse(inodes, p)
find_free_inode == {i \in Slots \ {0} : ~Valid(inodes[i])}

(* The call returns: to gfs_seed_defaults, which ignores what it gets and  *)
(* goes on to the next file, or to the caller.                             *)
Return(ans, doubt) ==
    /\ answer' = ans
    /\ unknown' = doubt
    /\ job' = IF job.seed > 0 THEN [job EXCEPT !.pc = "seed", !.seed = @ + 1] ELSE NoJob

Refuse == Return(Failed, unknown) /\ UNCHANGED inodes

(* The change in progress is a removal: an empty write is refused.         *)
Removing == job.bytes = <<>>

(* A change failed after it had begun.                                     *)
Spoil ==
    /\ Return(Failed, unknown \cup {job.file})
    /\ stale' = IF Removing THEN stale \cup {job.file} ELSE stale
    /\ UNCHANGED <<mounted, inodes, hosts>>

-----------------------------------------------------------------------------
(* Calls.  An unmounted volume is mounted first (gfs_try_mount).           *)
Start(op, p, d) ==
    /\ job.pc = "idle"
    /\ job' = [NoJob EXCEPT !.pc = IF mounted THEN "run" ELSE "mount",
                            !.op = op, !.path = p, !.data = d]
    /\ answer' = Failed
    /\ UNCHANGED <<diskVars, mounted, inodes, hosts, unknown, stale, crashes>>

WriteFile == \E p \in Paths, d \in Contents : Start("write", p, d)
ReadFile == \E p \in Paths : Start("read", p, <<>>)
(* Only a package's removal deletes files, and none holds the hosts table. *)
DeleteFile == \E p \in Paths \ {HostsPath} : Start("delete", p, <<>>)

(* hosts_load_once, at the first lookup after a reload: the table counts   *)
(* as loaded before the file is read.                                      *)
hosts_load_once ==
    /\ job.pc = "idle" /\ hosts = Unloaded
    /\ hosts' = NoFile
    /\ job' = IF mounted
              THEN [NoJob EXCEPT !.pc = "run", !.op = "lookup", !.path = HostsPath]
              ELSE job
    /\ answer' = Failed
    /\ UNCHANGED <<diskVars, mounted, inodes, unknown, stale, crashes>>

(* kernel_main: disk_init, then gfs_init.                                  *)
Boot ==
    /\ job.pc = "off"
    /\ disk_init
    /\ job' = [NoJob EXCEPT !.pc = "mount", !.op = "boot"]
    /\ UNCHANGED <<mounted, inodes, hosts, answer, unknown, stale, crashes>>

gfs_init ==
    /\ job.pc = "mount"
    /\ mounted' = FALSE
    /\ inodes' = Cleared
    /\ job' = [job EXCEPT !.pc = IF backend = "none" THEN "run" ELSE "super", !.try = 1]
    /\ UNCHANGED <<diskVars, hosts, answer, unknown, stale, crashes>>

(* gfs_write_file up to its first transfer: the inode in memory changes    *)
(* before anything is on the disk.                                         *)
BeginWrite(p, d) ==
    LET slot == Lowest(IF find_inode(p) # {} THEN find_inode(p) ELSE find_free_inode)
    IN  IF Len(d) \notin 1..PerFile \/ find_inode(p) \cup find_free_inode = {}
        THEN Refuse
        ELSE /\ inodes' = [inodes EXCEPT ![slot] = [path |-> p, size |-> Len(d)]]
             /\ job' = [job EXCEPT !.pc = "data", !.file = p, !.bytes = d,
                                   !.slot = slot, !.i = 0]
             /\ UNCHANGED <<answer, unknown>>

Run ==
    /\ job.pc = "run"
    /\ CASE job.op = "boot" -> job' = NoJob /\ UNCHANGED <<inodes, answer, unknown>>
         [] job.op # "boot" /\ ~mounted -> Refuse
         [] job.op = "write" /\ mounted -> BeginWrite(job.path, job.data)
         [] job.op \in {"read", "lookup", "delete"} /\ mounted ->
              IF find_inode(job.path) = {} THEN Refuse
              ELSE LET slot == Lowest(find_inode(job.path))
                   IN IF job.op = "delete"
                      THEN /\ inodes' = [inodes EXCEPT ![slot] = NoInode]
                           /\ job' = [job EXCEPT !.pc = "store", !.file = job.path,
                                                !.bytes = <<>>, !.i = 0]
                           /\ UNCHANGED <<answer, unknown>>
                      ELSE /\ job' = [job EXCEPT !.pc = "rdata", !.slot = slot, !.i = 0,
                                                !.bytes = <<>>]
                           /\ UNCHANGED <<inodes, answer, unknown>>
    /\ UNCHANGED <<diskVars, mounted, hosts, stale, crashes>>

(* gfs_seed_defaults, one seed_one at a time.                              *)
Seed ==
    /\ job.pc = "seed"
    /\ IF job.seed > Len(Defaults)
       THEN /\ job' = [job EXCEPT !.pc = "run", !.seed = 0]
            /\ UNCHANGED <<inodes, answer, unknown>>
       ELSE LET f == Defaults[job.seed]
            IN IF find_inode(f.path) # {}
               THEN /\ job' = [job EXCEPT !.seed = @ + 1]
                    /\ UNCHANGED <<inodes, answer, unknown>>
               ELSE BeginWrite(f.path, f.data)
    /\ UNCHANGED <<diskVars, mounted, hosts, stale, crashes>>

-----------------------------------------------------------------------------
(* The transfer each place of a call makes, and what follows it.           *)
Wanted ==
    CASE job.pc = "super" -> Read(SuperLba)
      [] job.pc = "inodes" -> Read(InodeLba(job.i))
      [] job.pc = "fmt_super" -> Write(SuperLba, SuperMark)
      [] job.pc \in {"fmt_inodes", "store"} -> Write(InodeLba(job.i), inodes[job.i])
      [] job.pc = "fmt_data" -> Write(DataBase + job.i, Blank)
      [] job.pc = "data" -> Write(inode_data_lba(job.slot) + job.i, job.bytes[job.i + 1])
      [] job.pc = "rdata" -> Read(inode_data_lba(job.slot) + job.i)

Transferring == {"super", "inodes", "fmt_super", "fmt_inodes", "fmt_data",
                 "data", "store", "rdata"}

Transfer ==
    /\ job.pc \in Transferring
    /\ disk_call(Wanted)
    /\ UNCHANGED gfsVars

Ended(pc) ==
    /\ job.pc = pc /\ call.st = "done"
    /\ call' = Idle
    /\ UNCHANGED <<disks, medium, errors, backend, req, posted, work, unseen, crashes>>

GoTo(pc) == job' = [job EXCEPT !.pc = pc, !.i = 0]
NextSector == job' = [job EXCEPT !.i = @ + 1]

(* Mutant: the superblock is read until it is there.                       *)
SuperReadForever ==
    /\ Ended("super")
    /\ job' = IF call.rc = 0 /\ call.val = SuperMark
              THEN [job EXCEPT !.pc = "inodes", !.i = 0, !.try = 1] ELSE job
    /\ UNCHANGED <<mounted, inodes, hosts, answer, unknown, stale>>

(* gfs_init, the superblock: unreadable and invalid are one case.          *)
SuperRead ==
    /\ Ended("super")
    /\ job' = IF call.rc = 0 /\ call.val = SuperMark
              THEN [job EXCEPT !.pc = "inodes", !.i = 0, !.try = 1]
              ELSE IF job.try < MountTries THEN [job EXCEPT !.try = @ + 1]
              ELSE [job EXCEPT !.pc = "fmt_super"]
    /\ UNCHANGED <<mounted, inodes, hosts, answer, unknown, stale>>

(* load_inodes, and its retries in gfs_init.                               *)
InodesRead ==
    /\ Ended("inodes")
    /\ IF call.rc # 0
       THEN /\ job' = IF job.try < MountTries
                      THEN [job EXCEPT !.i = 0, !.try = @ + 1]
                      ELSE [job EXCEPT !.pc = "run"]
            /\ UNCHANGED <<inodes, mounted, unknown>>
       ELSE /\ inodes' = [inodes EXCEPT ![job.i] = call.val]
            /\ IF job.i = Inodes - 1
               THEN GoTo("run") /\ mounted' = TRUE /\ unknown' = {}
               ELSE NextSector /\ UNCHANGED <<mounted, unknown>>
    /\ UNCHANGED <<hosts, answer, stale>>

(* gfs_format: the superblock first, then the inodes, then the data.       *)
FormatWritten ==
    /\ \E pc \in {"fmt_super", "fmt_inodes", "fmt_data"} : Ended(pc)
    /\ inodes' = IF job.pc = "fmt_super" THEN Cleared ELSE inodes
    /\ CASE call.rc # 0 -> GoTo("run") /\ UNCHANGED <<mounted, unknown>>
         [] call.rc = 0 /\ job.pc = "fmt_super" ->
              GoTo("fmt_inodes") /\ UNCHANGED <<mounted, unknown>>
         [] call.rc = 0 /\ job.pc = "fmt_inodes" ->
              (IF job.i = Inodes - 1 THEN GoTo("fmt_data") ELSE NextSector)
              /\ UNCHANGED <<mounted, unknown>>
         [] call.rc = 0 /\ job.pc = "fmt_data" ->
              IF job.i = Inodes * PerFile - 1
              THEN /\ job' = [job EXCEPT !.pc = "seed", !.seed = 1]
                   /\ mounted' = TRUE /\ unknown' = {}
              ELSE NextSector /\ UNCHANGED <<mounted, unknown>>
    /\ UNCHANGED <<hosts, answer, stale>>

(* Mutant: the hosts table is not reloaded.                                *)
DataWrittenOnly ==
    /\ Ended("data")
    /\ IF call.rc # 0 THEN Spoil
       ELSE /\ IF job.i + 1 < Len(job.bytes) THEN NextSector ELSE GoTo("store")
            /\ UNCHANGED <<mounted, inodes, hosts, answer, unknown, stale>>

(* gfs_write_file, the data; then hosts_reload, then store_inodes.         *)
DataWritten ==
    /\ Ended("data")
    /\ CASE call.rc # 0 -> Spoil
         [] call.rc = 0 /\ job.i + 1 < Len(job.bytes) ->
              NextSector /\ UNCHANGED <<mounted, inodes, hosts, answer, unknown, stale>>
         [] OTHER ->
              /\ GoTo("store")
              /\ hosts' = IF job.file = HostsPath THEN Unloaded ELSE hosts
              /\ UNCHANGED <<mounted, inodes, answer, unknown, stale>>

(* store_inodes, the end of gfs_write_file and of gfs_delete_file.         *)
InodesStored ==
    /\ Ended("store")
    /\ CASE call.rc # 0 -> Spoil
         [] call.rc = 0 /\ job.i < Inodes - 1 ->
              NextSector /\ UNCHANGED <<mounted, inodes, hosts, answer, unknown, stale>>
         [] OTHER -> Return([ok |-> TRUE, read |-> NoFile], {})
                     /\ UNCHANGED <<mounted, inodes, hosts, stale>>

(* gfs_read_file; hosts_load_once keeps what it read.                      *)
DataRead ==
    /\ Ended("rdata")
    /\ LET got == Append(job.bytes, call.val)
       IN  CASE call.rc # 0 -> Return(Failed, unknown) /\ UNCHANGED hosts
             [] call.rc = 0 /\ Len(got) < inodes[job.slot].size ->
                  /\ job' = [job EXCEPT !.i = @ + 1, !.bytes = got]
                  /\ UNCHANGED <<hosts, answer, unknown>>
             [] OTHER ->
                  /\ Return([ok |-> TRUE, read |-> got], unknown)
                  /\ hosts' = IF job.op = "lookup" THEN got ELSE hosts
    /\ UNCHANGED <<mounted, inodes, stale>>

(* Power is lost, or the machine is reset.                                 *)
Crash ==
    /\ job.pc # "off" /\ crashes < MaxCrashes
    /\ crashes' = crashes + 1
    /\ DiskCrash
    /\ mounted' = FALSE
    /\ inodes' = Cleared
    /\ hosts' = Unloaded
    /\ job' = [NoJob EXCEPT !.pc = "off"]
    /\ unknown' = IF job.pc \in {"data", "store"} THEN unknown \cup {job.file} ELSE unknown
    /\ UNCHANGED <<answer, stale>>

Call == WriteFile \/ ReadFile \/ DeleteFile \/ hosts_load_once
Step == gfs_init \/ Run \/ Seed \/ Transfer \/ SuperRead \/ InodesRead
        \/ FormatWritten \/ DataWritten \/ InodesStored \/ DataRead
Device == DiskStep /\ UNCHANGED gfsVars

Next == Boot \/ Call \/ Step \/ Device \/ Crash

Spec == Init /\ [][Next]_vars /\ WF_vars(Step) /\ WF_vars(Device)

-----------------------------------------------------------------------------
(* What a program would read of a file, from a table of inodes and the     *)
(* sectors its inode stands for.                                           *)
Contained(tab, p) ==
    LET slot == Lowest(InUse(tab, p))
    IN  IF InUse(tab, p) = {} THEN NoFile
        ELSE [k \in 1..tab[slot].size |-> medium[inode_data_lba(slot) + k - 1]]

(* The table a mount would load.                                           *)
OnDisk == IF medium[SuperLba] = SuperMark
          THEN [i \in Slots |-> medium[InodeLba(i)]] ELSE Cleared

Changing == IF job.pc \in {"data", "store"} THEN {job.file} ELSE {}

(* GFS is a FileStore.  The mapping reads a file from the disk, as a mount *)
(* would find it, unless the file is being changed or is unknown: so the   *)
(* property says that an operation on one file, its failure or a crash in  *)
(* the middle of it never changes another, that what was acknowledged is   *)
(* on the disk, and that a read finds it through the table in memory.      *)
Files == [p \in Paths |-> IF p \in unknown \cup Changing THEN Unknown
                          ELSE Contained(OnDisk, p)]
Readable == UNION {[1..n -> Sector] : n \in 1..PerFile} \cup Contents
Pending == IF Changing = {} THEN [path |-> NoFile, to |-> NoFile]
           ELSE [path |-> job.file, to |-> IF Removing THEN NoFile ELSE job.bytes]
Abstract == INSTANCE FileStore
            WITH files <- Files, Anything <- Readable, pending <- Pending
ImplementsFileStore == Abstract!Spec

(* As long as no transfer fails, a host name resolves to what /etc/hosts   *)
(* says: the table that was read once is never older than the file.        *)
HostsCurrent ==
    (errors = 0 /\ job.pc = "idle" /\ mounted /\ hosts # Unloaded)
        => hosts = Contained(inodes, HostsPath)

(* No name stands twice in the directory, so that deleting a file does not *)
(* bring an older one back, unless a removal of that file has failed once: *)
(* the table on the disk then keeps the inode that memory has given up, a  *)
(* later write of the file takes another inode, and a crash in the middle  *)
(* of that write leaves both.                                              *)
DirectoryUnique == \A p \in Paths \ stale : \A i, j \in InUse(inodes, p) : i = j

(* Every call returns, whatever fails and how often mounting is retried,   *)
(* unless the machine goes down.                                           *)
EveryCallReturns == (job.op # "none") ~> (job.op = "none")
==============================================================================
