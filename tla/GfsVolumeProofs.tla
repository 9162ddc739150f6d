--------------------------- MODULE GfsVolumeProofs ---------------------------
(***************************************************************************)
(* GFS, for every size of the volume, all paths and contents, and any      *)
(* number of failing transfers and crashes: no name stands twice in the    *)
(* directory, and the hosts table is never older than its file.  As long   *)
(* as not all tries of a mount fail, GFS is a FileStore, step by step.     *)
(***************************************************************************)
EXTENDS GfsVolume, WellFoundedInduction, TLAPS

-----------------------------------------------------------------------------
(***************************************************************************)
(* The invariant: the driver                                               *)
(***************************************************************************)
Request == [type : {"in", "out"}, lba : Lba, val : Sector]
Calls ==
    [st : {"idle"}] \cup [st : {"wait"}, r : Request, try : 1 .. Attempts]
    \cup [st : {"pio"}, r : Request]
    \cup [st : {"done"}, r : Request, rc : {0, -1}, val : Sector]

DiskTypes ==
    /\ medium \in [Lba -> Sector]
    /\ errors \in Nat
    /\ backend \in {"none", "virtio", "ide"}
    /\ req \in [type : {"in", "out"}, lba : Lba, buf : Sector, status : {"pending", "ok", "error"}]
    /\ posted \in Nat /\ unseen \in Nat
    /\ work \in Seq([type : {"in", "out"}, lba : Lba])
    /\ call \in Calls

(* The transfer the kernel waits for is carried out: v is what it read.    *)
Moved(v) == IF call.r.type = "out" THEN medium[call.r.lba] = call.r.val
            ELSE v = medium[call.r.lba]

(* There is one chain, posted, being carried out or completed, while the   *)
(* kernel waits, and none at any other time: so no chain moves data behind *)
(* the kernel's back, and what ended well is on the medium.                *)
OneChain ==
    IF call.st # "wait" THEN posted = 0 /\ work = <<>> /\ unseen = 0
    ELSE /\ req.type = call.r.type /\ req.lba = call.r.lba
         /\ req.type = "out" => req.buf = call.r.val
         /\ \/ posted = 1 /\ work = <<>> /\ unseen = 0
            \/ /\ posted = 0 /\ unseen = 0
               /\ work = <<[type |-> call.r.type, lba |-> call.r.lba]>>
            \/ /\ posted = 0 /\ work = <<>> /\ unseen = 1
               /\ req.status = "ok" => Moved(req.buf)
               /\ errors = 0 => req.status = "ok"

DriverInv ==
    /\ DiskTypes
    /\ OneChain
    /\ call.st = "done" =>
          /\ call.rc = 0 => Moved(call.val)
          /\ (errors = 0 /\ backend # "none") => call.rc = 0

-----------------------------------------------------------------------------
(***************************************************************************)
(* The invariant: the call in progress                                     *)
(***************************************************************************)
Unmounting == {"off", "mount", "super", "inodes", "fmt_super", "fmt_inodes", "fmt_data"}
OnMounted == {"seed", "data", "store", "rdata"}
FileOps == {"write", "read", "lookup", "delete"}

Jobs == [pc : {"idle", "run"} \cup Unmounting \cup OnMounted,
         op : {"none", "boot"} \cup FileOps, path : Paths \cup {NoFile},
         data : Seq(Sector), seed : Nat, file : Paths \cup {NoFile},
         bytes : Seq(Sector), slot : Slots, i : Nat, try : Nat]

GfsTypes ==
    /\ mounted \in BOOLEAN
    /\ inodes \in [Slots -> Sector]
    /\ job \in Jobs

(* A transfer belongs to the place the call has reached.                   *)
TransferInv ==
    /\ call.st # "idle" => job.pc \in Transferring /\ call.r = Wanted
    /\ backend = "none" => job.pc \notin Transferring /\ ~mounted

OpInv ==
    /\ job.pc \notin {"idle", "off"} => job.op # "none"
    /\ job.op \in FileOps => job.path \in Paths
    /\ job.op = "lookup" => job.path = HostsPath /\ mounted /\ job.pc \in {"run", "rdata"}
    /\ job.op = "delete" => job.path # HostsPath
    /\ job.pc \in Unmounting => ~mounted
    /\ job.pc \in OnMounted => mounted
    /\ job.seed > 0 => job.pc \in {"seed", "data", "store"}
    /\ job.pc = "seed" => job.seed > 0

PlaceInv ==
    /\ job.pc \in {"inodes", "fmt_inodes", "store"} => job.i \in Slots
    /\ job.pc = "fmt_data" => job.i < Inodes * PerFile
    /\ job.pc \in {"data", "store"} => job.file \in Paths
    /\ job.pc = "data" =>
          /\ job.slot # 0 /\ job.i < Len(job.bytes) /\ Len(job.bytes) <= PerFile
          /\ inodes[job.slot] = [path |-> job.file, size |-> Len(job.bytes)]
    /\ job.pc = "rdata" =>
          /\ job.path \in Paths
          /\ job.slot \in InUse(inodes, job.path)
          /\ job.slot = Lowest(InUse(inodes, job.path))
          /\ Len(job.bytes) = job.i /\ job.i < inodes[job.slot].size

-----------------------------------------------------------------------------
(***************************************************************************)
(* The invariant: the table in memory and the one on the disk              *)
(***************************************************************************)
DiskTable == [i \in Slots |-> medium[InodeLba(i)]]

(* Inode 0 is never used, and no file is empty.                            *)
Sound(tab) == \A i \in Slots : Valid(tab[i]) => i # 0 /\ tab[i].size # 0

BeingRemoved(p) == job.pc = "store" /\ Removing /\ job.file = p

TableInv ==
    /\ Sound(inodes) /\ Sound(DiskTable)
    /\ ~mounted => \A i \in Slots : inodes[i] \in {DiskTable[i], NoInode}
    /\ job.pc = "inodes" => \A i \in 0 .. job.i - 1 : inodes[i] = DiskTable[i]
    /\ job.pc \in {"fmt_inodes", "fmt_data"} => inodes = Cleared
    /\ job.pc = "fmt_inodes" => \A i \in 0 .. job.i - 1 : DiskTable[i] = NoInode
    /\ job.pc = "fmt_data" => DiskTable = Cleared
    /\ job.pc = "store" => \A i \in 0 .. job.i - 1 : DiskTable[i] = inodes[i]

(* Of a file whose removal never failed: whatever is read of the disk      *)
(* after a crash, it has one inode, and memory never forgets the inode     *)
(* that the disk has of it, unless it is being removed.                    *)
OneInode(p) == \A i, j \in InUse(inodes, p) \cup InUse(DiskTable, p) : i = j
Remembered(p) == InUse(DiskTable, p) \subseteq InUse(inodes, p) \/ BeingRemoved(p)

DirectoryInv ==
    \A p \in Paths \ stale : OneInode(p) /\ (mounted => Remembered(p))

-----------------------------------------------------------------------------
(***************************************************************************)
(* The invariant: the hosts table                                          *)
(***************************************************************************)
(* The file and the table may differ only in a lookup and in a write of    *)
(* the file that has not come to hosts_reload.                             *)
HostsBusy == job.op = "lookup" \/ (job.pc = "data" /\ job.file = HostsPath)

HostsInv ==
    errors = 0 =>
      /\ backend # "none" /\ job.pc \in {"idle", "run"} => mounted
      /\ (job.pc = "off" \/ (backend # "none" /\ ~mounted)) => hosts = Unloaded
      /\ (mounted /\ hosts # Unloaded /\ ~HostsBusy) => hosts = Contained(inodes, HostsPath)
      /\ job.op = "lookup" => hosts = NoFile
      /\ (job.pc = "rdata" /\ job.op = "lookup") =>
            job.bytes = [k \in 1 .. job.i |-> medium[inode_data_lba(job.slot) + k - 1]]

JobInv == GfsTypes /\ TransferInv /\ OpInv /\ PlaceInv
GfsInv == DriverInv /\ JobInv /\ TableInv /\ DirectoryInv /\ HostsInv

-----------------------------------------------------------------------------
(***************************************************************************)
(* Sectors                                                                 *)
(***************************************************************************)
LEMMA Multiples ==
    ASSUME NEW m \in Nat, NEW n \in Nat, m < n
    PROVE  m * PerFile + PerFile <= n * PerFile
<1> DEFINE d == n - (m + 1)
<1>1. d \in Nat /\ n = d + (m + 1) /\ PerFile \in Nat
  BY GfsAssumption
<1>2. d * PerFile >= 0 /\ d * PerFile \in Nat /\ m * PerFile \in Nat
  BY <1>1
<1>3. n * PerFile = d * PerFile + (m * PerFile + PerFile)
  BY <1>1
<1> HIDE DEF d
<1> QED
  BY <1>1, <1>2, <1>3

LEMMA InodeSectors ==
    ASSUME NEW i \in Slots
    PROVE  /\ InodeLba(i) \in Lba /\ InodeLba(i) # SuperLba /\ SuperLba \in Lba
           /\ \A j \in Slots : InodeLba(j) = InodeLba(i) => j = i
<1>1. Inodes \in Nat /\ 1 < Inodes /\ PerFile \in Nat /\ 0 < PerFile /\ DataBase \in Nat
  BY GfsAssumption
<1>2. 1 * PerFile <= Inodes * PerFile - PerFile /\ Inodes * PerFile \in Nat
  BY <1>1, Multiples
<1> DEFINE end == Inodes * PerFile
<1>3. PerFile + PerFile <= end /\ end \in Nat
  BY <1>1, <1>2
<1>4. DataBase + PerFile > InodeLba(Inodes - 1) /\ 0 .. DataBase + end - 1 \subseteq Lba
  BY <1>1, GfsAssumption DEF inode_data_lba
<1> HIDE DEF end
<1> QED
  BY <1>1, <1>3, <1>4 DEF Slots, InodeLba, SuperLba

LEMMA DataSectors ==
    ASSUME NEW s \in Slots, NEW k \in 0 .. PerFile - 1
    PROVE  /\ inode_data_lba(s) + k \in Lba
           /\ inode_data_lba(s) + k \in DataBase .. DataBase + Inodes * PerFile - 1
           /\ s # 0 => \A i \in Slots : inode_data_lba(s) + k # InodeLba(i)
           /\ \A t \in Slots, l \in 0 .. PerFile - 1 :
                 inode_data_lba(t) + l = inode_data_lba(s) + k => t = s /\ l = k
<1>1. Inodes \in Nat /\ 1 < Inodes /\ PerFile \in Nat /\ 0 < PerFile /\ DataBase \in Nat
  BY GfsAssumption
<1>2. s * PerFile + PerFile <= Inodes * PerFile /\ s * PerFile \in Nat /\ Inodes * PerFile \in Nat
  BY <1>1, Multiples DEF Slots
<1>3. s # 0 => PerFile <= s * PerFile
  <2>1. s # 0 => 0 * PerFile + PerFile <= s * PerFile
    BY <1>1, Multiples DEF Slots
  <2> QED
    BY <1>1, <2>1
<1>4. ASSUME NEW t \in Slots, NEW l \in 0 .. PerFile - 1,
             inode_data_lba(t) + l = inode_data_lba(s) + k
      PROVE  t = s /\ l = k
  <2>1. t * PerFile \in Nat
    BY <1>1 DEF Slots
  <2>2. t < s => t * PerFile + PerFile <= s * PerFile
    BY Multiples DEF Slots
  <2>3. s < t => s * PerFile + PerFile <= t * PerFile
    BY Multiples DEF Slots
  <2> DEFINE x == s * PerFile
             y == t * PerFile
  <2>4. y + l = x + k /\ x \in Nat /\ y \in Nat /\ (t < s => y + PerFile <= x) /\ (s < t => x + PerFile <= y)
    BY <1>1, <1>2, <2>1, <2>2, <2>3, <1>4 DEF inode_data_lba
  <2> HIDE DEF x, y
  <2>5. t = s
    BY <1>1, <2>4 DEF Slots
  <2>6. x = y
    BY <2>5 DEF x, y
  <2> QED
    BY <2>4, <2>5, <2>6
<1> DEFINE x == s * PerFile
           end == Inodes * PerFile
<1>5. x + PerFile <= end /\ x \in Nat /\ end \in Nat /\ (s # 0 => PerFile <= x)
  BY <1>2, <1>3
<1>6. DataBase + PerFile > InodeLba(Inodes - 1) /\ 0 .. DataBase + end - 1 \subseteq Lba
  BY <1>1, GfsAssumption DEF inode_data_lba
<1>7. inode_data_lba(s) = DataBase + x
  BY DEF inode_data_lba
<1> HIDE DEF x
<1>8. /\ inode_data_lba(s) + k \in DataBase .. DataBase + end - 1
      /\ s # 0 => \A i \in Slots : inode_data_lba(s) + k # InodeLba(i)
  <2> HIDE DEF end
  <2> QED
    BY <1>1, <1>5, <1>6, <1>7 DEF Slots, InodeLba
<1>9. inode_data_lba(s) + k \in Lba
  <2> HIDE DEF end
  <2> QED
    BY <1>1, <1>5, <1>6, <1>8
<1> QED
  BY <1>4, <1>8, <1>9

LEMMA LowestSlot ==
    ASSUME NEW S \in SUBSET Slots, S # {}
    PROVE  Lowest(S) \in S
<1>1. S \in SUBSET Nat
  BY DEF Slots
<1>2. PICK i \in S : \A j \in S : ~(<<j, i>> \in OpToRel(<, Nat))
  BY <1>1, NatLessThanWellFounded, WFMin
<1>3. ASSUME NEW j \in S PROVE i <= j
  <2>1. i \in Nat /\ j \in Nat
    BY <1>1
  <2>2. j < i => <<j, i>> \in OpToRel(<, Nat)
    BY <2>1 DEF OpToRel
  <2>3. ~(j < i)
    BY <1>2, <2>2
  <2> QED
    BY <2>1, <2>3
<1> QED
  BY <1>3 DEF Lowest

-----------------------------------------------------------------------------
(***************************************************************************)
(* The driver                                                              *)
(***************************************************************************)
LEMMA CallFields ==
    ASSUME call \in Calls
    PROVE  /\ call.st \in {"idle", "wait", "pio", "done"}
           /\ call.st = "idle" => call = Idle
           /\ call.st # "idle" => call.r \in Request
           /\ call.st = "wait" => call.try \in 1 .. Attempts /\ call = [st |-> "wait", r |-> call.r, try |-> call.try]
           /\ call.st = "done" => call.rc \in {0, -1} /\ call.val \in Sector
BY DEF Calls, Idle

LEMMA CallKinds ==
    ASSUME NEW r \in Request
    PROVE  /\ Idle \in Calls
           /\ \A t \in 1 .. Attempts : [st |-> "wait", r |-> r, try |-> t] \in Calls
           /\ [st |-> "pio", r |-> r] \in Calls
           /\ \A rc \in {0, -1}, v \in Sector : [st |-> "done", r |-> r, rc |-> rc, val |-> v] \in Calls
BY DEF Calls, Idle

LEMMA NoRequestIsRequest == NoRequest \in [type : {"in", "out"}, lba : Lba, buf : Sector, status : {"pending", "ok", "error"}]
<1>1. 0 \in Slots /\ Blank \in Sector
  BY GfsAssumption, DiskAssumption DEF Slots
<1>2. (CHOOSE l \in Lba : TRUE) \in Lba
  BY <1>1, InodeSectors
<1> QED
  BY <1>1, <1>2 DEF NoRequest

\* What the kernel and the device do while a transfer is under way: the medium changes
\* only where the transfer writes, and only to what it writes.
TransferEffect ==
    /\ call.st \in {"wait", "pio"} /\ call'.st \in {"wait", "pio", "done"}
    /\ call'.r = call.r
    /\ backend' = backend
    /\ errors' \in Nat /\ errors <= errors'
    /\ \/ medium' = medium
       \/ call.r.type = "out" /\ medium' = [medium EXCEPT ![call.r.lba] = call.r.val]

LEMMA FetchStep ==
    ASSUME DriverInv, DeviceFetch
    PROVE  DriverInv' /\ TransferEffect
<1>1. call.st = "wait" /\ posted = 1 /\ work = <<>> /\ unseen = 0
  BY DEF DriverInv, DiskTypes, OneChain, DeviceFetch
<1>2. /\ posted' = 0 /\ work' = <<[type |-> call.r.type, lba |-> call.r.lba]>>
      /\ work' \in Seq([type : {"in", "out"}, lba : Lba])
  <2>1. req.type = call.r.type /\ req.lba = call.r.lba /\ req.type \in {"in", "out"} /\ req.lba \in Lba
    BY <1>1 DEF DriverInv, DiskTypes, OneChain
  <2> QED
    BY <1>1, <2>1 DEF DeviceFetch
<1>3. UNCHANGED <<disks, medium, errors, backend, req, unseen, call>>
  BY DEF DeviceFetch
<1>4. DiskTypes'
  BY <1>2, <1>3 DEF DriverInv, DiskTypes
<1>5. OneChain'
  BY <1>1, <1>2, <1>3 DEF DriverInv, OneChain, Moved
<1> QED
  BY <1>1, <1>3, <1>4, <1>5 DEF DriverInv, TransferEffect, DiskTypes

LEMMA CompleteStep ==
    ASSUME DriverInv, DeviceComplete
    PROVE  DriverInv' /\ TransferEffect
<1>1. /\ call.st = "wait" /\ posted = 0 /\ unseen = 0
      /\ work = <<[type |-> call.r.type, lba |-> call.r.lba]>>
  <2>1. work # <<>>
    BY DEF DeviceComplete
  <2> QED
    BY <2>1 DEF DriverInv, OneChain
<1>2. call.r \in Request
  BY <1>1, CallFields DEF DriverInv, DiskTypes
<1>3. /\ req.type = call.r.type /\ req.lba = call.r.lba
      /\ req.type = "out" => req.buf = call.r.val
  BY <1>1 DEF DriverInv, OneChain
<1>4. PICK i \in 1 .. Len(work) :
        /\ work' = Without(work, i)
        /\ unseen' = unseen + 1
        /\ \/ /\ req' = [req EXCEPT !.status = "ok",
                              !.buf = IF work[i].type = "in"
                                      THEN medium[work[i].lba] ELSE @]
              /\ medium' = IF work[i].type = "out"
                           THEN [medium EXCEPT ![work[i].lba] = req.buf]
                           ELSE medium
              /\ UNCHANGED errors
           \/ /\ errors < MaxErrors
              /\ errors' = errors + 1
              /\ req' = [req EXCEPT !.status = "error"]
              /\ UNCHANGED medium
        /\ UNCHANGED <<disks, backend, posted, call>>
  BY DEF DeviceComplete
<1>5. i = 1 /\ Len(work) = 1 /\ work[i] = [type |-> call.r.type, lba |-> call.r.lba]
  BY <1>1
<1>6. work' = <<>> /\ unseen' = 1 /\ UNCHANGED <<posted, call, backend>>
  BY <1>1, <1>4, <1>5 DEF Without
<1> DEFINE ReqType == [type : {"in", "out"}, lba : Lba, buf : Sector, status : {"pending", "ok", "error"}]
<1>7. req \in ReqType /\ medium \in [Lba -> Sector] /\ errors \in Nat
  BY DEF DriverInv, DiskTypes
<1>8. CASE /\ req' = [req EXCEPT !.status = "ok",
                              !.buf = IF work[i].type = "in"
                                      THEN medium[work[i].lba] ELSE @]
           /\ medium' = IF work[i].type = "out"
                        THEN [medium EXCEPT ![work[i].lba] = req.buf]
                        ELSE medium
           /\ UNCHANGED errors
  <2> DEFINE v == IF call.r.type = "in" THEN medium[call.r.lba] ELSE req.buf
  <2>1. v \in Sector /\ call.r.lba \in Lba /\ call.r.type \in {"in", "out"} /\ call.r.val \in Sector
    BY <1>2, <1>7 DEF Request
  <2>2. req' = [req EXCEPT !.status = "ok", !.buf = v]
    BY <1>5, <1>8
  <2>3. req' \in ReqType /\ req'.type = req.type /\ req'.lba = req.lba /\ req'.buf = v /\ req'.status = "ok"
    <3> HIDE DEF v
    <3> QED
      BY <1>7, <2>1, <2>2
  <2>4. medium' = IF call.r.type = "out" THEN [medium EXCEPT ![call.r.lba] = call.r.val] ELSE medium
    <3>1. work[i].type = call.r.type /\ work[i].lba = call.r.lba
      BY <1>5
    <3>2. CASE call.r.type = "out"
      <4>1. req.buf = call.r.val
        BY <1>3, <3>2
      <4> QED
        BY <1>8, <3>1, <3>2, <4>1
    <3>3. CASE call.r.type # "out"
      BY <1>8, <3>1, <3>3
    <3> QED
      BY <3>2, <3>3
  <2>5. medium' \in [Lba -> Sector]
    BY <1>7, <2>1, <2>4
  <2>6. Moved(req.buf)'
    BY <1>6, <1>7, <2>1, <2>3, <2>4 DEF Moved
  <2>7. DiskTypes'
    BY <1>6, <1>8, <2>3, <2>5 DEF DriverInv, DiskTypes
  <2>8. OneChain'
    BY <1>1, <1>3, <1>6, <2>1, <2>3, <2>6 DEF OneChain
  <2> QED
    <3>1. TransferEffect
      <4>1. errors' \in Nat /\ errors <= errors' /\ UNCHANGED <<call, backend>>
        BY <1>6, <1>7, <1>8
      <4>2. medium' = medium \/ (call.r.type = "out" /\ medium' = [medium EXCEPT ![call.r.lba] = call.r.val])
        BY <2>4
      <4> QED
        BY <1>1, <4>1, <4>2 DEF TransferEffect
    <3> QED
      BY <1>1, <1>6, <2>7, <2>8, <3>1 DEF DriverInv
<1>9. CASE errors' = errors + 1 /\ req' = [req EXCEPT !.status = "error"] /\ UNCHANGED medium
  <2>1. req' \in ReqType /\ req'.type = req.type /\ req'.lba = req.lba /\ req'.buf = req.buf /\ req'.status = "error"
    BY <1>7, <1>9
  <2>2. errors' \in Nat /\ errors' # 0 /\ errors <= errors'
    BY <1>7, <1>9
  <2>3. DiskTypes'
    BY <1>6, <1>9, <2>1, <2>2 DEF DriverInv, DiskTypes
  <2>4. OneChain'
    BY <1>1, <1>3, <1>6, <2>1, <2>2 DEF OneChain
  <2> QED
    BY <1>1, <1>6, <1>9, <2>2, <2>3, <2>4 DEF DriverInv, TransferEffect
<1> QED
  BY <1>4, <1>8, <1>9

LEMMA FillFacts ==
    ASSUME DriverInv, NEW r \in Request, FillRequest(r)
    PROVE  /\ req' \in [type : {"in", "out"}, lba : Lba, buf : Sector, status : {"pending", "ok", "error"}]
           /\ req'.type = r.type /\ req'.lba = r.lba /\ (r.type = "out" => req'.buf = r.val)
           /\ posted' = posted + 1
BY DEF FillRequest, Request, DriverInv, DiskTypes

LEMMA WaitStep ==
    ASSUME DriverInv, wait_used
    PROVE  DriverInv' /\ TransferEffect
<1>1. /\ call.st = "wait" /\ posted = 0 /\ work = <<>> /\ unseen = 1
      /\ req.status = "ok" => Moved(req.buf)
      /\ errors = 0 => req.status = "ok"
      /\ posted \in Nat
  BY DEF DriverInv, DiskTypes, OneChain, wait_used
<1>2. call.r \in Request /\ call.try \in 1 .. Attempts
  BY <1>1, CallFields DEF DriverInv, DiskTypes
<1>3. unseen' = 0 /\ UNCHANGED <<disks, medium, errors, backend, work>>
  BY DEF wait_used
<1>4. CASE req.status = "ok"
  <2> DEFINE v == IF call.r.type = "in" THEN req.buf ELSE call.r.val
  <2>1. v \in Sector
    BY <1>2 DEF Request, DriverInv, DiskTypes
  <2>2. call' = [st |-> "done", r |-> call.r, rc |-> 0, val |-> v] /\ UNCHANGED <<req, posted>>
    BY <1>4 DEF wait_used, Finish
  <2>3. call' \in Calls
    <3> HIDE DEF v
    <3> QED
      BY <1>2, <2>1, <2>2, CallKinds
  <2>4. Moved(call.val)'
    BY <1>1, <1>2, <1>3, <1>4, <2>2 DEF Moved, Request
  <2>5. DiskTypes'
    BY <1>3, <2>2, <2>3 DEF DriverInv, DiskTypes
  <2>6. OneChain'
    BY <1>1, <1>3, <2>2 DEF OneChain
  <2> QED
    BY <1>1, <1>3, <2>2, <2>4, <2>5, <2>6 DEF DriverInv, TransferEffect, DiskTypes
<1>5. CASE req.status # "ok" /\ call.try < Attempts
  <2>1. FillRequest(call.r) /\ call' = [call EXCEPT !.try = @ + 1]
    BY <1>5 DEF wait_used, Again
  <2>2. call' = [st |-> "wait", r |-> call.r, try |-> call.try + 1]
    <3> DEFINE n == call.try + 1
    <3>1. call = [st |-> "wait", r |-> call.r, try |-> call.try] /\ call' = [call EXCEPT !.try = n]
      BY <1>1, <2>1, CallFields DEF DriverInv, DiskTypes
    <3> HIDE DEF n
    <3>2. call' = [st |-> "wait", r |-> call.r, try |-> n]
      BY <3>1
    <3> QED
      BY <3>2 DEF n
  <2>3. call' \in Calls
    <3>1. call.try + 1 \in 1 .. Attempts
      BY <1>2, <1>5, DiskAssumption
    <3> QED
      BY <1>2, <2>2, <3>1, CallKinds
  <2>4. DiskTypes'
    BY <1>1, <1>2, <1>3, <2>1, <2>3, FillFacts DEF DriverInv, DiskTypes
  <2>5. OneChain'
    BY <1>1, <1>2, <1>3, <2>1, <2>2, FillFacts DEF OneChain
  <2> QED
    BY <1>1, <1>3, <2>2, <2>4, <2>5 DEF DriverInv, TransferEffect, DiskTypes
<1>6. CASE req.status # "ok" /\ ~(call.try < Attempts)
  <2>1. call' = [st |-> "done", r |-> call.r, rc |-> -1, val |-> call.r.val] /\ UNCHANGED <<req, posted>>
    BY <1>6 DEF wait_used, Again, Finish
  <2>2. call' \in Calls
    <3>1. call.r.val \in Sector
      BY <1>2 DEF Request
    <3> QED
      BY <1>2, <2>1, <3>1, CallKinds
  <2>3. DiskTypes'
    BY <1>3, <2>1, <2>2 DEF DriverInv, DiskTypes
  <2>4. OneChain'
    BY <1>1, <1>3, <2>1 DEF OneChain
  <2> QED
    BY <1>1, <1>3, <1>6, <2>1, <2>3, <2>4 DEF DriverInv, TransferEffect, DiskTypes
<1> QED
  BY <1>4, <1>5, <1>6

LEMMA IdeStep ==
    ASSUME DriverInv, ide_transfer
    PROVE  DriverInv' /\ TransferEffect
<1>1. call.st = "pio" /\ call.r \in Request
  BY CallFields DEF ide_transfer, DriverInv, DiskTypes
<1>2. UNCHANGED <<disks, backend, req, posted, work, unseen>>
  BY DEF ide_transfer
<1>3. call.r.lba \in Lba /\ call.r.type \in {"in", "out"} /\ call.r.val \in Sector
  BY <1>1 DEF Request
<1>4. CASE errors' = errors + 1 /\ Finish(-1, call.r.val) /\ UNCHANGED medium
  <2>1. call' = [st |-> "done", r |-> call.r, rc |-> -1, val |-> call.r.val]
    BY <1>4 DEF Finish
  <2>2. call' \in Calls
    BY <1>1, <1>3, <2>1, CallKinds
  <2>3. errors' \in Nat /\ errors' # 0 /\ errors <= errors'
    BY <1>4 DEF DriverInv, DiskTypes
  <2>4. DiskTypes'
    BY <1>2, <1>4, <2>2, <2>3 DEF DriverInv, DiskTypes
  <2>5. OneChain'
    BY <1>1, <1>2, <2>1 DEF DriverInv, OneChain
  <2> QED
    BY <1>1, <1>2, <1>4, <2>1, <2>3, <2>4, <2>5 DEF DriverInv, TransferEffect
<1>5. CASE /\ Finish(0, IF call.r.type = "in" THEN medium[call.r.lba] ELSE call.r.val)
           /\ medium' = IF call.r.type = "out"
                        THEN [medium EXCEPT ![call.r.lba] = call.r.val]
                        ELSE medium
           /\ UNCHANGED errors
  <2> DEFINE v == IF call.r.type = "in" THEN medium[call.r.lba] ELSE call.r.val
  <2>1. v \in Sector /\ medium' \in [Lba -> Sector] /\ medium \in [Lba -> Sector]
    BY <1>3, <1>5 DEF DriverInv, DiskTypes
  <2>2. call' = [st |-> "done", r |-> call.r, rc |-> 0, val |-> v]
    BY <1>5 DEF Finish
  <2>3. call' \in Calls
    <3> HIDE DEF v
    <3> QED
      BY <1>1, <2>1, <2>2, CallKinds
  <2>4. Moved(call.val)'
    BY <1>3, <1>5, <2>1, <2>2 DEF Moved
  <2>5. DiskTypes'
    BY <1>2, <1>5, <2>1, <2>3 DEF DriverInv, DiskTypes
  <2>6. OneChain'
    BY <1>1, <1>2, <2>2 DEF DriverInv, OneChain
  <2> QED
    BY <1>1, <1>2, <1>3, <1>5, <2>2, <2>4, <2>5, <2>6 DEF DriverInv, TransferEffect, DiskTypes
<1> QED
  BY <1>4, <1>5 DEF ide_transfer

LEMMA DeviceEffect ==
    ASSUME DriverInv, DiskStep
    PROVE  DriverInv' /\ TransferEffect
BY FetchStep, CompleteStep, WaitStep, IdeStep DEF DiskStep

\* The machine is off: nothing is under way, and nothing is in memory.
LEMMA DriverAtRest ==
    ASSUME medium \in [Lba -> Sector], errors \in Nat, backend = "none", req = NoRequest,
           posted = 0, work = <<>>, unseen = 0, call = Idle
    PROVE  DriverInv
<1>1. call \in Calls /\ call.st = "idle"
  BY DEF Calls, Idle
<1> QED
  BY <1>1, NoRequestIsRequest DEF DriverInv, DiskTypes, OneChain

LEMMA EndedFacts ==
    ASSUME DriverInv, NEW pc, Ended(pc)
    PROVE  /\ DriverInv'
           /\ job.pc = pc /\ call.st = "done" /\ call' = Idle /\ call'.st = "idle"
           /\ medium' = medium /\ errors' = errors /\ backend' = backend
<1>1. UNCHANGED <<disks, medium, errors, backend, req, posted, work, unseen>>
  BY DEF Ended
<1>2. call' = Idle /\ call'.st = "idle" /\ call' \in Calls /\ job.pc = pc /\ call.st = "done"
  BY DEF Ended, Idle, Calls
<1>3. DiskTypes'
  BY <1>1, <1>2 DEF DriverInv, DiskTypes
<1>4. OneChain'
  BY <1>1, <1>2 DEF DriverInv, OneChain
<1> QED
  BY <1>1, <1>2, <1>3, <1>4 DEF DriverInv

LEMMA CallStep ==
    ASSUME DriverInv, NEW r \in Request, disk_call(r)
    PROVE  /\ DriverInv'
           /\ call'.st # "idle" /\ call'.r = r
           /\ medium' = medium /\ errors' = errors /\ backend' = backend
<1>1. call = Idle /\ call.st = "idle" /\ posted = 0 /\ work = <<>> /\ unseen = 0
  BY DEF disk_call, Idle, DriverInv, OneChain
<1>2. UNCHANGED <<disks, medium, errors, backend, work, unseen>>
  BY DEF disk_call
<1>3. CASE backend = "virtio"
  <2>1. call' = [st |-> "wait", r |-> r, try |-> 1] /\ FillRequest(r)
    BY <1>3 DEF disk_call
  <2>2. call' \in Calls
    <3>1. 1 \in 1 .. Attempts
      BY DiskAssumption
    <3> QED
      BY <2>1, <3>1, CallKinds
  <2>3. DiskTypes'
    BY <1>1, <1>2, <2>1, <2>2, FillFacts DEF DriverInv, DiskTypes
  <2>4. OneChain'
    BY <1>1, <1>2, <2>1, FillFacts DEF OneChain
  <2> QED
    BY <1>2, <2>1, <2>3, <2>4 DEF DriverInv
<1>4. CASE backend = "ide"
  <2>1. call' = [st |-> "pio", r |-> r] /\ UNCHANGED <<req, posted>>
    BY <1>4 DEF disk_call
  <2>2. call' \in Calls
    BY <2>1, CallKinds
  <2>3. DiskTypes'
    BY <1>2, <2>1, <2>2 DEF DriverInv, DiskTypes
  <2>4. OneChain'
    BY <1>1, <1>2, <2>1 DEF OneChain
  <2> QED
    BY <1>2, <2>1, <2>3, <2>4 DEF DriverInv
<1>5. CASE backend = "none"
  <2>1. call' = [st |-> "done", r |-> r, rc |-> -1, val |-> r.val] /\ UNCHANGED <<req, posted>>
    BY <1>5 DEF disk_call
  <2>2. call' \in Calls
    <3>1. r.val \in Sector
      BY DEF Request
    <3> QED
      BY <2>1, <3>1, CallKinds
  <2>3. DiskTypes'
    BY <1>2, <2>1, <2>2 DEF DriverInv, DiskTypes
  <2>4. OneChain'
    BY <1>1, <1>2, <2>1 DEF OneChain
  <2> QED
    BY <1>2, <1>5, <2>1, <2>3, <2>4 DEF DriverInv
<1> QED
  BY <1>3, <1>4, <1>5 DEF DriverInv, DiskTypes

LEMMA DriverFrame ==
    ASSUME DriverInv, UNCHANGED diskVars
    PROVE  DriverInv'
BY DEF DriverInv, DiskTypes, OneChain, Moved, diskVars

-----------------------------------------------------------------------------
(***************************************************************************)
(* Jobs and tables                                                         *)
(***************************************************************************)
Places == {"idle", "run"} \cup Unmounting \cup OnMounted

LEMMA NoJobIsJob == NoJob \in Jobs /\ NoJob.pc = "idle" /\ NoJob.op = "none" /\ NoJob.seed = 0
                     /\ NoJob.bytes = <<>> /\ NoJob.slot = 0 /\ NoJob.i = 0
<1>1. 0 \in Slots
  BY GfsAssumption DEF Slots
<1> QED
  BY <1>1 DEF NoJob, Jobs

\* What a call keeps when it goes on to another place or to the next sector.
LEMMA GoToFacts ==
    ASSUME job \in Jobs, NEW pc \in Places, GoTo(pc)
    PROVE  /\ job' \in Jobs /\ job'.pc = pc /\ job'.i = 0
           /\ job'.op = job.op /\ job'.path = job.path /\ job'.seed = job.seed
           /\ job'.file = job.file /\ job'.bytes = job.bytes /\ job'.slot = job.slot
<1> DEFINE z == 0
<1>1. z \in Nat /\ job' = [job EXCEPT !.pc = pc, !.i = z]
  BY DEF GoTo
<1> HIDE DEF z
<1>2. /\ job' \in Jobs /\ job'.pc = pc /\ job'.i = z
      /\ job'.op = job.op /\ job'.path = job.path /\ job'.seed = job.seed
      /\ job'.file = job.file /\ job'.bytes = job.bytes /\ job'.slot = job.slot
  BY <1>1 DEF Jobs, Places
<1> QED
  BY <1>2 DEF z

LEMMA NextFacts ==
    ASSUME job \in Jobs, NextSector
    PROVE  /\ job' \in Jobs /\ job'.pc = job.pc /\ job'.i = job.i + 1
           /\ job'.op = job.op /\ job'.path = job.path /\ job'.seed = job.seed
           /\ job'.file = job.file /\ job'.bytes = job.bytes /\ job'.slot = job.slot
<1> DEFINE n == job.i + 1
<1>1. n \in Nat /\ job' = [job EXCEPT !.i = n]
  BY DEF NextSector, Jobs
<1> HIDE DEF n
<1>2. /\ job' \in Jobs /\ job'.pc = job.pc /\ job'.i = n
      /\ job'.op = job.op /\ job'.path = job.path /\ job'.seed = job.seed
      /\ job'.file = job.file /\ job'.bytes = job.bytes /\ job'.slot = job.slot
  BY <1>1 DEF Jobs
<1> QED
  BY <1>2 DEF n

LEMMA TableFacts ==
    ASSUME NEW tab, NEW p
    PROVE  /\ InUse(tab, p) \subseteq Slots
           /\ \A i \in InUse(tab, p) : /\ Valid(tab[i]) /\ tab[i].path = p
                                       /\ tab[i].size \in 0 .. PerFile
                                       /\ tab[i] = [path |-> p, size |-> tab[i].size]
BY DEF InUse, Valid

LEMMA ClearedFacts ==
    /\ Cleared \in [Slots -> Sector]
    /\ \A i \in Slots : Cleared[i] = NoInode
    /\ ~Valid(NoInode)
    /\ \A p : InUse(Cleared, p) = {}
    /\ Sound(Cleared)
BY DiskAssumption, SectorAssumption DEF Cleared, NoInode, Valid, InUse, Sound

LEMMA DiskTableFacts ==
    ASSUME DiskTypes
    PROVE  /\ DiskTable \in [Slots -> Sector]
           /\ \A i \in Slots : DiskTable[i] = medium[InodeLba(i)]
BY InodeSectors DEF DiskTable, DiskTypes

\* A transfer changes the table on the disk in one sector of it, or not at all.
LEMMA DiskTableStep ==
    ASSUME DiskTypes, NEW l \in Lba, NEW v \in Sector, medium' = [medium EXCEPT ![l] = v]
    PROVE  /\ \A i \in Slots : DiskTable'[i] = IF InodeLba(i) = l THEN v ELSE DiskTable[i]
           /\ \A i \in Slots : l = InodeLba(i) => DiskTable' = [DiskTable EXCEPT ![i] = v]
           /\ (\A i \in Slots : l # InodeLba(i)) => DiskTable' = DiskTable
<1>1. \A i \in Slots : DiskTable'[i] = IF InodeLba(i) = l THEN v ELSE DiskTable[i]
  BY InodeSectors DEF DiskTable, DiskTypes
<1>2. DiskTable' = [i \in Slots |-> DiskTable'[i]] /\ DiskTable = [i \in Slots |-> DiskTable[i]]
  BY DEF DiskTable
<1>3. ASSUME NEW i \in Slots, l = InodeLba(i)
      PROVE  DiskTable' = [DiskTable EXCEPT ![i] = v]
  BY <1>1, <1>2, <1>3, InodeSectors
<1>4. ASSUME \A i \in Slots : l # InodeLba(i)
      PROVE  DiskTable' = DiskTable
  BY <1>1, <1>2, <1>4
<1> QED
  BY <1>1, <1>3, <1>4

LEMMA InitInv == Init => GfsInv
<1> SUFFICES ASSUME Init PROVE GfsInv
  OBVIOUS
<1>1. medium \in [Lba -> Sector] /\ DriverInv
  <2>1. medium \in [Lba -> Sector]
    BY DiskAssumption DEF Init
  <2> QED
    BY <2>1, DriverAtRest DEF Init, DiskInit
<1>2. job \in Jobs /\ job.pc = "off" /\ job.op = "none" /\ job.seed = 0
  <2>1. job = [pc |-> "off", op |-> "none", path |-> NoFile, data |-> <<>>,
          seed |-> 0, file |-> NoFile, bytes |-> <<>>, slot |-> 0, i |-> 0, try |-> 0]
    BY DEF Init, NoJob
  <2>2. 0 \in Slots
    BY GfsAssumption DEF Slots
  <2> QED
    BY <2>1, <2>2 DEF Jobs, Unmounting
<1>3. inodes = Cleared /\ mounted = FALSE /\ call = Idle /\ backend = "none" /\ hosts = Unloaded
  BY DEF Init, DiskInit
<1>4. JobInv
  <2>1. GfsTypes
    BY <1>2, <1>3, ClearedFacts DEF GfsTypes
  <2>2. TransferInv
    BY <1>2, <1>3 DEF TransferInv, Transferring, Idle
  <2>3. OpInv /\ PlaceInv
    BY <1>2, <1>3 DEF OpInv, PlaceInv, FileOps, OnMounted
  <2> QED
    BY <2>1, <2>2, <2>3 DEF JobInv
<1>5. DiskTable = Cleared
  BY InodeSectors DEF Init, DiskTable, Cleared, NoInode
<1>6. TableInv /\ DirectoryInv
  BY <1>2, <1>3, <1>5, ClearedFacts DEF TableInv, DirectoryInv, OneInode
<1>7. HostsInv
  BY <1>2, <1>3 DEF HostsInv
<1> QED
  BY <1>1, <1>4, <1>6, <1>7 DEF GfsInv

-----------------------------------------------------------------------------
(***************************************************************************)
(* The transfers                                                           *)
(***************************************************************************)
LEMMA WantedFacts ==
    ASSUME DiskTypes, JobInv, TableInv, job.pc \in Transferring
    PROVE  /\ Wanted \in Request
           /\ job.pc \in {"super", "inodes", "rdata"} => Wanted.type = "in"
           /\ job.pc = "super" => Wanted.lba = SuperLba
           /\ job.pc = "inodes" => Wanted.lba = InodeLba(job.i)
           /\ job.pc = "rdata" => Wanted.lba = inode_data_lba(job.slot) + job.i
           /\ job.pc = "fmt_super" => Wanted = Write(SuperLba, SuperMark)
           /\ job.pc \in {"fmt_inodes", "store"} => Wanted = Write(InodeLba(job.i), inodes[job.i])
           /\ job.pc = "fmt_data" => Wanted = Write(DataBase + job.i, Blank)
           /\ job.pc = "data" => /\ Wanted.type = "out"
                                 /\ Wanted.lba = inode_data_lba(job.slot) + job.i
                                 /\ job.i \in 0 .. PerFile - 1
<1>1. /\ inodes \in [Slots -> Sector] /\ job.i \in Nat /\ job.slot \in Slots /\ job.bytes \in Seq(Sector)
      /\ Blank \in Sector /\ SuperMark \in Sector /\ PerFile \in Nat
  BY DiskAssumption, SectorAssumption, GfsAssumption DEF JobInv, GfsTypes, Jobs
<1>2. \A l \in Lba, v \in Sector : /\ Write(l, v) \in Request /\ Write(l, v).type = "out" /\ Write(l, v).lba = l
                                   /\ Read(l) \in Request /\ Read(l).type = "in" /\ Read(l).lba = l
  BY <1>1 DEF Write, Read, Request
<1>3. CASE job.pc = "super"
  BY <1>1, <1>2, <1>3, InodeSectors, GfsAssumption DEF Wanted, Slots
<1>4. CASE job.pc = "inodes"
  <2>1. InodeLba(job.i) \in Lba
    BY <1>4, InodeSectors DEF JobInv, PlaceInv
  <2> QED
    BY <1>1, <1>2, <1>4, <2>1 DEF Wanted
<1>5. CASE job.pc = "fmt_super"
  BY <1>1, <1>2, <1>5, InodeSectors, GfsAssumption DEF Wanted, Slots
<1>6. CASE job.pc \in {"fmt_inodes", "store"}
  <2>1. InodeLba(job.i) \in Lba /\ inodes[job.i] \in Sector
    BY <1>1, <1>6, InodeSectors DEF JobInv, PlaceInv
  <2>2. Wanted = Write(InodeLba(job.i), inodes[job.i])
    BY <1>6 DEF Wanted
  <2> QED
    BY <1>2, <1>6, <2>1, <2>2
<1>7. CASE job.pc = "fmt_data"
  <2>1. DataBase + job.i \in Lba
    <3> DEFINE end == Inodes * PerFile
    <3>1. end \in Nat /\ DataBase \in Nat /\ 0 .. DataBase + end - 1 \subseteq Lba
      BY GfsAssumption DEF inode_data_lba
    <3>2. job.i < end
      BY <1>7 DEF JobInv, PlaceInv
    <3> HIDE DEF end
    <3> QED
      BY <1>1, <3>1, <3>2
  <2>2. Wanted = Write(DataBase + job.i, Blank)
    BY <1>7 DEF Wanted
  <2> QED
    BY <1>1, <1>2, <1>7, <2>1, <2>2
<1>8. CASE job.pc = "data"
  <2>1. job.i < Len(job.bytes) /\ Len(job.bytes) <= PerFile
    BY <1>8 DEF JobInv, PlaceInv
  <2>2. job.i \in 0 .. PerFile - 1 /\ job.bytes[job.i + 1] \in Sector
    BY <1>1, <2>1
  <2>3. inode_data_lba(job.slot) + job.i \in Lba
    BY <1>1, <2>2, DataSectors
  <2>4. Wanted = Write(inode_data_lba(job.slot) + job.i, job.bytes[job.i + 1])
    BY <1>8 DEF Wanted
  <2> QED
    BY <1>2, <1>8, <2>2, <2>3, <2>4
<1>9. CASE job.pc = "rdata"
  <2>1. job.i < inodes[job.slot].size /\ inodes[job.slot].size \in 0 .. PerFile
    BY <1>9, TableFacts DEF JobInv, PlaceInv
  <2>2. job.i \in 0 .. PerFile - 1
    BY <1>1, <2>1
  <2>3. inode_data_lba(job.slot) + job.i \in Lba
    BY <1>1, <2>2, DataSectors
  <2>4. Wanted = Read(inode_data_lba(job.slot) + job.i)
    BY <1>9 DEF Wanted
  <2> QED
    BY <1>1, <1>2, <1>9, <2>3, <2>4
<1> QED
  BY <1>3, <1>4, <1>5, <1>6, <1>7, <1>8, <1>9 DEF Transferring

\* A sector outside the sectors of a file does not change what the file holds.
LEMMA ContainedStep ==
    ASSUME DiskTypes, Sound(inodes), NEW l \in Lba, NEW v \in Sector, NEW p,
           medium' = [medium EXCEPT ![l] = v], inodes' = inodes,
           \A s \in InUse(inodes, p), k \in 0 .. PerFile - 1 : inode_data_lba(s) + k # l
    PROVE  Contained(inodes, p)' = Contained(inodes, p)
<1>1. CASE InUse(inodes, p) = {}
  BY <1>1 DEF Contained
<1>2. CASE InUse(inodes, p) # {}
  <2> DEFINE slot == Lowest(InUse(inodes, p))
  <2>1. slot \in InUse(inodes, p) /\ slot \in Slots
    BY <1>2, TableFacts, LowestSlot
  <2>2. inodes[slot].size \in 0 .. PerFile
    BY <2>1, TableFacts
  <2>3. ASSUME NEW k \in 1 .. inodes[slot].size
        PROVE  medium'[inode_data_lba(slot) + k - 1] = medium[inode_data_lba(slot) + k - 1]
    <3> DEFINE d == inode_data_lba(slot)
    <3>1. d \in Nat /\ PerFile \in Nat
      BY <2>1, GfsAssumption DEF inode_data_lba, Slots
    <3>2. k - 1 \in 0 .. PerFile - 1
      BY <2>2, <3>1
    <3>3. d + (k - 1) \in Lba /\ d + (k - 1) # l
      BY <2>1, <3>2, DataSectors
    <3>4. d + (k - 1) = d + k - 1
      BY <2>2, <3>1
    <3> HIDE DEF d
    <3>5. medium'[d + k - 1] = medium[d + k - 1]
      BY <3>3, <3>4 DEF DiskTypes
    <3> QED
      BY <3>5 DEF d
  <2>4. /\ Contained(inodes, p) = [k \in 1 .. inodes[slot].size |-> medium[inode_data_lba(slot) + k - 1]]
        /\ Contained(inodes, p)' = [k \in 1 .. inodes[slot].size |-> medium'[inode_data_lba(slot) + k - 1]]
    BY <1>2 DEF Contained
  <2> HIDE DEF slot
  <2> QED
    BY <2>3, <2>4
<1> QED
  BY <1>1, <1>2

LEMMA DirectoryStep ==
    ASSUME DirectoryInv, inodes' = inodes, UNCHANGED <<mounted, job, stale>>,
           \A p \in Paths : InUse(DiskTable', p) \subseteq InUse(DiskTable, p) \cup InUse(inodes, p)
    PROVE  DirectoryInv'
<1>1. \A p : BeingRemoved(p)' = BeingRemoved(p)
  BY DEF BeingRemoved, Removing
<1> QED
  BY <1>1 DEF DirectoryInv, OneInode, Remembered

LEMMA DeviceStep ==
    ASSUME GfsInv, DiskStep, UNCHANGED gfsVars
    PROVE  GfsInv'
<1>1. /\ inodes' = inodes /\ job' = job /\ mounted' = mounted /\ stale' = stale /\ hosts' = hosts
      /\ DriverInv /\ JobInv /\ TableInv /\ DirectoryInv /\ HostsInv /\ DiskTypes
  BY DEF gfsVars, GfsInv, DriverInv
<1>2. DriverInv' /\ TransferEffect
  BY <1>1, DeviceEffect
<1>3. /\ call.st # "idle" /\ job.pc \in Transferring /\ call.r = Wanted
      /\ call'.st # "idle" /\ call'.r = call.r /\ backend' = backend
      /\ errors' = 0 => errors = 0
  BY <1>1, <1>2 DEF TransferEffect, JobInv, TransferInv, DiskTypes
<1>4. JobInv'
  <2>1. Wanted' = Wanted
    BY <1>1 DEF Wanted
  <2>2. TransferInv'
    BY <1>1, <1>3, <2>1 DEF JobInv, TransferInv
  <2>3. GfsTypes' /\ OpInv' /\ PlaceInv'
    BY <1>1 DEF JobInv, GfsTypes, OpInv, PlaceInv
  <2> QED
    BY <2>2, <2>3 DEF JobInv
<1>5. CASE medium' = medium
  <2>1. DiskTable' = DiskTable
    BY <1>5 DEF DiskTable
  <2>2. TableInv' /\ DirectoryInv'
    BY <1>1, <2>1 DEF TableInv, DirectoryInv, OneInode, Remembered, BeingRemoved, Removing
  <2>3. HostsInv'
    BY <1>1, <1>3, <1>5 DEF HostsInv, HostsBusy, Contained
  <2> QED
    BY <1>2, <1>4, <2>2, <2>3 DEF GfsInv
<1>6. CASE call.r.type = "out" /\ medium' = [medium EXCEPT ![call.r.lba] = call.r.val]
  <2> DEFINE l == call.r.lba
             v == call.r.val
  <2>1. call.r = Wanted /\ Wanted \in Request /\ l \in Lba /\ v \in Sector
    BY <1>1, <1>3, WantedFacts DEF Request
  <2>2. medium' = [medium EXCEPT ![l] = v]
    BY <1>6
  <2>3. DiskTable \in [Slots -> Sector]
    BY <1>1, DiskTableFacts
  <2>4. job.pc \in {"fmt_super", "fmt_inodes", "fmt_data", "store", "data"}
    BY <1>1, <1>3, <1>6, WantedFacts DEF Transferring
  <2>5. CASE job.pc = "fmt_super"
    <3>1. l = SuperLba
      BY <1>1, <1>3, <2>5, WantedFacts DEF Write
    <3> HIDE DEF l, v
    <3>2. DiskTable' = DiskTable
      BY <1>1, <2>1, <2>2, <3>1, DiskTableStep, InodeSectors
    <3>3. TableInv' /\ DirectoryInv'
      BY <1>1, <2>5, <3>2 DEF TableInv, DirectoryInv, OneInode, Remembered, BeingRemoved, Removing
    <3>4. ~mounted
      BY <1>1, <2>5 DEF JobInv, OpInv, Unmounting
    <3>5. HostsInv'
      BY <1>1, <1>3, <2>5, <3>4 DEF HostsInv
    <3> QED
      BY <1>2, <1>4, <3>3, <3>5 DEF GfsInv
  <2>6. CASE job.pc = "fmt_inodes"
    <3>1. job.i \in Slots /\ l = InodeLba(job.i) /\ v = inodes[job.i]
      BY <1>1, <1>3, <2>6, WantedFacts DEF JobInv, PlaceInv, Write
    <3>2. inodes = Cleared /\ ~mounted
      BY <1>1, <2>6 DEF TableInv, JobInv, OpInv, Unmounting
    <3>3. v = NoInode
      BY <3>1, <3>2, ClearedFacts
    <3> HIDE DEF l, v
    <3>4. DiskTable' = [DiskTable EXCEPT ![job.i] = NoInode]
      <4>1. DiskTable' = [DiskTable EXCEPT ![job.i] = v]
        BY <1>1, <2>1, <2>2, <3>1, DiskTableStep
      <4> QED
        BY <3>3, <4>1
    <3>5. \A i \in Slots : DiskTable'[i] \in {DiskTable[i], NoInode}
      BY <2>3, <3>4
    <3>6. \A p : InUse(DiskTable', p) \subseteq InUse(DiskTable, p)
      BY <3>5, ClearedFacts DEF InUse
    <3>7. \A i \in 0 .. job.i - 1 : DiskTable'[i] = NoInode
      <4>1. \A i \in 0 .. job.i - 1 : i \in Slots /\ DiskTable[i] = NoInode
        BY <1>1, <2>6, <3>1, GfsAssumption DEF TableInv, Slots
      <4> QED
        BY <3>5, <4>1
    <3>8. Sound(DiskTable')
      BY <1>1, <3>5, ClearedFacts DEF Sound, TableInv
    <3>9. TableInv'
      BY <1>1, <2>6, <3>2, <3>7, <3>8, ClearedFacts DEF TableInv
    <3>10. DirectoryInv'
      BY <1>1, <3>6, DirectoryStep
    <3>11. HostsInv'
      BY <1>1, <1>3, <2>6, <3>2 DEF HostsInv
    <3> QED
      BY <1>2, <1>4, <3>9, <3>10, <3>11 DEF GfsInv
  <2>7. CASE job.pc = "fmt_data"
    <3>1. v = NoInode
      BY <1>1, <1>3, <2>7, WantedFacts DEF Write, NoInode
    <3>2. inodes = Cleared /\ DiskTable = Cleared /\ ~mounted
      BY <1>1, <2>7 DEF TableInv, JobInv, OpInv, Unmounting
    <3> HIDE DEF l, v
    <3>3. \A i \in Slots : DiskTable'[i] = NoInode
      BY <1>1, <2>1, <2>2, <3>1, <3>2, ClearedFacts, DiskTableStep
    <3>4. DiskTable' = Cleared
      BY <3>3 DEF DiskTable, Cleared
    <3>5. TableInv' /\ DirectoryInv'
      BY <1>1, <2>7, <3>2, <3>4 DEF TableInv, DirectoryInv, OneInode, Remembered
    <3>6. HostsInv'
      BY <1>1, <1>3, <2>7, <3>2 DEF HostsInv
    <3> QED
      BY <1>2, <1>4, <3>5, <3>6 DEF GfsInv
  <2>8. CASE job.pc = "store"
    <3>1. job.i \in Slots /\ l = InodeLba(job.i) /\ v = inodes[job.i]
      BY <1>1, <1>3, <2>8, WantedFacts DEF JobInv, PlaceInv, Write
    <3> HIDE DEF l, v
    <3>2. DiskTable' = [DiskTable EXCEPT ![job.i] = inodes[job.i]]
      BY <1>1, <2>1, <2>2, <3>1, DiskTableStep
    <3>3. \A i \in Slots : DiskTable'[i] = IF i = job.i THEN inodes[i] ELSE DiskTable[i]
      BY <2>3, <3>2
    <3>4. \A p : InUse(DiskTable', p) \subseteq InUse(DiskTable, p) \cup InUse(inodes, p)
      BY <3>3 DEF InUse
    <3>5. \A i \in 0 .. job.i - 1 : DiskTable'[i] = inodes[i]
      <4>1. \A i \in 0 .. job.i - 1 : i \in Slots /\ DiskTable[i] = inodes[i]
        BY <1>1, <2>8, <3>1, GfsAssumption DEF TableInv, Slots
      <4> QED
        BY <3>3, <4>1
    <3>6. Sound(DiskTable')
      BY <1>1, <3>3 DEF Sound, TableInv
    <3>7. mounted
      BY <1>1, <2>8 DEF JobInv, OpInv, OnMounted
    <3>8. TableInv'
      BY <1>1, <2>8, <3>5, <3>6, <3>7 DEF TableInv
    <3>9. DirectoryInv'
      BY <1>1, <3>4, DirectoryStep
    <3>10. Contained(inodes, HostsPath)' = Contained(inodes, HostsPath)
      <4>1. ASSUME NEW s \in InUse(inodes, HostsPath), NEW k \in 0 .. PerFile - 1
            PROVE  inode_data_lba(s) + k # l
        <5>1. s \in Slots /\ s # 0
          BY <1>1, TableFacts DEF TableInv, Sound
        <5> QED
          BY <3>1, <5>1, DataSectors
      <4> QED
        BY <1>1, <2>1, <2>2, <4>1, ContainedStep DEF TableInv
    <3>11. HostsInv'
      BY <1>1, <1>3, <2>8, <3>7, <3>10 DEF HostsInv, HostsBusy
    <3> QED
      BY <1>2, <1>4, <3>8, <3>9, <3>11 DEF GfsInv
  <2>9. CASE job.pc = "data"
    <3>1. /\ l = inode_data_lba(job.slot) + job.i /\ job.i \in 0 .. PerFile - 1
          /\ job.slot \in Slots /\ job.slot # 0 /\ mounted
          /\ inodes[job.slot].path = job.file
      BY <1>1, <1>3, <2>9, WantedFacts DEF JobInv, PlaceInv, OpInv, OnMounted, GfsTypes, Jobs
    <3> HIDE DEF l, v
    <3>2. DiskTable' = DiskTable
      BY <1>1, <2>1, <2>2, <3>1, DataSectors, DiskTableStep
    <3>3. TableInv' /\ DirectoryInv'
      BY <1>1, <2>9, <3>2 DEF TableInv, DirectoryInv, OneInode, Remembered, BeingRemoved, Removing
    <3>4. job.file # HostsPath => Contained(inodes, HostsPath)' = Contained(inodes, HostsPath)
      <4> HAVE job.file # HostsPath
      <4>1. ASSUME NEW s \in InUse(inodes, HostsPath), NEW k \in 0 .. PerFile - 1
            PROVE  inode_data_lba(s) + k # l
        <5>1. s \in Slots /\ inodes[s].path = HostsPath
          BY TableFacts
        <5>2. s # job.slot
          BY <3>1, <5>1
        <5> QED
          BY <3>1, <5>1, <5>2, DataSectors
      <4> QED
        BY <1>1, <2>1, <2>2, <4>1, ContainedStep DEF TableInv
    <3>5. HostsInv'
      BY <1>1, <1>3, <2>9, <3>1, <3>4 DEF HostsInv, HostsBusy
    <3> QED
      BY <1>2, <1>4, <3>3, <3>5 DEF GfsInv
  <2> QED
    BY <2>4, <2>5, <2>6, <2>7, <2>8, <2>9
<1> QED
  BY <1>2, <1>5, <1>6 DEF TransferEffect

LEMMA TransferStep ==
    ASSUME GfsInv, Transfer
    PROVE  GfsInv'
<1>1. /\ inodes' = inodes /\ job' = job /\ mounted' = mounted /\ stale' = stale /\ hosts' = hosts
      /\ DriverInv /\ JobInv /\ TableInv /\ DirectoryInv /\ HostsInv /\ DiskTypes
      /\ job.pc \in Transferring
  BY DEF gfsVars, GfsInv, DriverInv, Transfer
<1>2. Wanted \in Request
  BY <1>1, WantedFacts
<1>3. /\ DriverInv' /\ call'.r = Wanted /\ medium' = medium
      /\ errors' = errors /\ backend' = backend
  BY <1>1, <1>2, CallStep DEF Transfer
<1>4. Wanted' = Wanted
  BY <1>1 DEF Wanted
<1>5. TransferInv'
  BY <1>1, <1>3, <1>4 DEF JobInv, TransferInv
<1>6. GfsTypes' /\ OpInv' /\ PlaceInv'
  BY <1>1 DEF JobInv, GfsTypes, OpInv, PlaceInv
<1>7. DiskTable' = DiskTable
  BY <1>3 DEF DiskTable
<1>8. TableInv' /\ DirectoryInv'
  BY <1>1, <1>7 DEF TableInv, DirectoryInv, OneInode, Remembered, BeingRemoved, Removing
<1>9. HostsInv'
  BY <1>1, <1>3 DEF HostsInv, HostsBusy, Contained
<1> QED
  BY <1>3, <1>5, <1>6, <1>8, <1>9 DEF GfsInv, JobInv

-----------------------------------------------------------------------------
(***************************************************************************)
(* What the steps of a call have in common                                 *)
(***************************************************************************)
LEMMA Parts ==
    ASSUME GfsInv
    PROVE  /\ DriverInv /\ DiskTypes /\ JobInv /\ TableInv /\ DirectoryInv /\ HostsInv
           /\ job \in Jobs /\ inodes \in [Slots -> Sector] /\ mounted \in BOOLEAN
           /\ job.pc \notin Transferring => call = Idle /\ call.st = "idle"
           /\ backend = "none" => job.pc \notin Transferring /\ ~mounted
BY CallFields DEF GfsInv, DriverInv, DiskTypes, JobInv, GfsTypes, TransferInv

\* Without a transfer under way and without failures, every transfer has gone well.
LEMMA NoErrors ==
    ASSUME GfsInv, call.st = "done", errors = 0
    PROVE  call.rc = 0 /\ backend # "none"
BY DEF GfsInv, DriverInv, JobInv, TransferInv

LEMMA JobFrame ==
    ASSUME job' \in Jobs, inodes' \in [Slots -> Sector], mounted' \in BOOLEAN,
           call' = Idle, OpInv', PlaceInv', backend' = "none" => job'.pc \notin Transferring /\ ~mounted'
    PROVE  JobInv'
BY DEF JobInv, GfsTypes, TransferInv, Idle

LEMMA ContainedFrame ==
    ASSUME NEW p, medium' = medium, InUse(inodes', p) = InUse(inodes, p),
           \A s \in InUse(inodes, p) : inodes'[s] = inodes[s]
    PROVE  Contained(inodes, p)' = Contained(inodes, p)
<1>1. CASE InUse(inodes, p) = {}
  BY <1>1 DEF Contained
<1>2. CASE InUse(inodes, p) # {}
  <2>1. Lowest(InUse(inodes, p)) \in InUse(inodes, p)
    BY <1>2, TableFacts, LowestSlot
  <2> QED
    BY <1>2, <2>1 DEF Contained
<1> QED
  BY <1>1, <1>2

\* The tables stay as they are, and no removal begins or ends.
LEMMA TablesFrame ==
    ASSUME DirectoryInv, UNCHANGED <<inodes, medium, mounted>>, stale \subseteq stale',
           \A p \in Paths : BeingRemoved(p) => BeingRemoved(p)' \/ p \in stale' \/ ~mounted
    PROVE  /\ DirectoryInv'
           /\ DiskTable' = DiskTable
           /\ \A p : Contained(inodes, p)' = Contained(inodes, p)
<1>1. DiskTable' = DiskTable
  BY DEF DiskTable
<1>2. DirectoryInv'
  BY <1>1 DEF DirectoryInv, OneInode, Remembered
<1> QED
  BY <1>1, <1>2 DEF Contained

LEMMA ReturnFacts ==
    ASSUME job \in Jobs, NEW ans, NEW doubt, Return(ans, doubt)
    PROVE  /\ job' \in Jobs
           /\ job.seed > 0 => /\ job'.pc = "seed" /\ job'.seed > 0
                              /\ job'.op = job.op /\ job'.path = job.path
           /\ ~(job.seed > 0) => job' = NoJob
<1>1. CASE job.seed > 0
  <2> DEFINE n == job.seed + 1
  <2>1. n \in Nat /\ n > 0 /\ job' = [job EXCEPT !.pc = "seed", !.seed = n]
    BY <1>1 DEF Return, Jobs
  <2> HIDE DEF n
  <2> QED
    BY <1>1, <2>1 DEF Jobs, OnMounted
<1>2. CASE ~(job.seed > 0)
  BY <1>2, NoJobIsJob DEF Return
<1> QED
  BY <1>1, <1>2

\* A call returns, once nothing more is owed to the disk or to the hosts table.
LEMMA ReturnStep ==
    ASSUME GfsInv, NEW ans, NEW doubt, Return(ans, doubt),
           job.pc \in {"run", "seed", "data", "store", "rdata"},
           DriverInv', call' = Idle,
           UNCHANGED <<medium, errors, backend, inodes, mounted>>,
           stale \subseteq stale',
           \A p \in Paths : BeingRemoved(p) => \/ p \in stale' \/ ~mounted
                                               \/ InUse(DiskTable, p) \subseteq InUse(inodes, p),
           (errors = 0 /\ mounted /\ hosts' # Unloaded) => hosts' = Contained(inodes, HostsPath)
    PROVE  GfsInv'
<1>1. /\ job' \in Jobs
      /\ job.seed > 0 => /\ job'.pc = "seed" /\ job'.seed > 0
                         /\ job'.op = job.op /\ job'.path = job.path
      /\ ~(job.seed > 0) => job' = NoJob
  BY Parts, ReturnFacts
<1>2. /\ job.seed > 0 => job.pc \in {"seed", "data", "store"} /\ mounted
      /\ job.seed > 0 => job.op # "none" /\ job.op # "lookup"
      /\ job.op \in FileOps => job.path \in Paths
      /\ job.op = "delete" => job.path # HostsPath
  BY Parts DEF JobInv, OpInv, OnMounted
<1>3. OpInv' /\ PlaceInv'
  <2>1. CASE job.seed > 0
    <3>1. OpInv'
      BY <1>1, <1>2, <2>1 DEF OpInv, OnMounted, Unmounting
    <3>2. PlaceInv'
      BY <1>1, <2>1 DEF PlaceInv
    <3> QED
      BY <3>1, <3>2
  <2>2. CASE ~(job.seed > 0)
    BY <1>1, <2>2, NoJobIsJob DEF OpInv, PlaceInv, OnMounted, Unmounting, FileOps
  <2> QED
    BY <2>1, <2>2
<1>4. job'.pc \in {"seed", "idle"} /\ job'.op # "lookup"
  BY <1>1, <1>2, NoJobIsJob
<1>5. JobInv'
  BY <1>1, <1>3, <1>4, Parts, JobFrame DEF Transferring
<1>6. DiskTable' = DiskTable /\ Contained(inodes, HostsPath)' = Contained(inodes, HostsPath)
  BY DEF DiskTable, Contained
<1>7. TableInv'
  BY <1>4, <1>6, Parts DEF TableInv
<1>8. DirectoryInv'
  BY <1>6, Parts DEF DirectoryInv, OneInode, Remembered
<1>9. HostsInv'
  <2> SUFFICES ASSUME errors' = 0 PROVE HostsInv'
    BY DEF HostsInv
  <2>1. /\ backend = "none" => ~mounted
        /\ backend # "none" => mounted
    <3>1. job.pc # "run" => mounted /\ job.pc \in OnMounted
      BY Parts DEF JobInv, OpInv, OnMounted
    <3> QED
      BY <3>1, Parts DEF HostsInv
  <2> QED
    BY <1>4, <1>6, <2>1 DEF HostsInv
<1> QED
  BY <1>5, <1>7, <1>8, <1>9 DEF GfsInv

-----------------------------------------------------------------------------
(***************************************************************************)
(* Calls, mounting and the first part of a change                          *)
(***************************************************************************)
LEMMA StartStep ==
    ASSUME GfsInv, NEW op \in FileOps \ {"lookup"}, NEW p \in Paths, NEW d \in Seq(Sector),
           op = "delete" => p # HostsPath, Start(op, p, d)
    PROVE  GfsInv'
<1>1. /\ job.pc = "idle" /\ UNCHANGED <<diskVars, mounted, inodes, hosts, stale>>
      /\ UNCHANGED <<medium, errors, backend, call>>
  BY DEF Start, diskVars
<1>2. /\ job' \in Jobs /\ job'.pc = (IF mounted THEN "run" ELSE "mount")
      /\ job'.op = op /\ job'.path = p /\ job'.seed = 0
  <2> DEFINE pc == IF mounted THEN "run" ELSE "mount"
  <2>1. pc \in Places /\ job' = [NoJob EXCEPT !.pc = pc, !.op = op, !.path = p, !.data = d]
    BY DEF Start, Places, Unmounting
  <2> HIDE DEF pc
  <2>2. job' \in Jobs /\ job'.pc = pc /\ job'.op = op /\ job'.path = p /\ job'.seed = 0
    BY <2>1, NoJobIsJob DEF Jobs, Places
  <2> QED
    BY <2>2 DEF pc
<1>3. DriverInv' /\ call' = Idle /\ call.st = "idle"
  BY <1>1, Parts, DriverFrame DEF Transferring
<1>4. OpInv' /\ PlaceInv'
  BY <1>1, <1>2, Parts DEF OpInv, PlaceInv, FileOps, OnMounted, Unmounting, JobInv
<1>5. JobInv'
  BY <1>1, <1>2, <1>3, <1>4, Parts, JobFrame DEF Transferring
<1>6. DirectoryInv' /\ DiskTable' = DiskTable /\ Contained(inodes, HostsPath)' = Contained(inodes, HostsPath)
  BY <1>1, Parts, TablesFrame DEF BeingRemoved
<1>7. TableInv'
  BY <1>1, <1>2, <1>6, Parts DEF TableInv
<1>8. job.op # "lookup"
  BY <1>1, Parts DEF JobInv, OpInv
<1>9. HostsInv'
  BY <1>1, <1>2, <1>6, <1>8, Parts DEF HostsInv, HostsBusy
<1> QED
  BY <1>3, <1>5, <1>6, <1>7, <1>9 DEF GfsInv

LEMMA LookupStep ==
    ASSUME GfsInv, hosts_load_once
    PROVE  GfsInv'
<1>1. /\ job.pc = "idle" /\ hosts = Unloaded /\ hosts' = NoFile
      /\ UNCHANGED <<diskVars, mounted, inodes, stale>>
      /\ UNCHANGED <<medium, errors, backend, call>>
  BY DEF hosts_load_once, diskVars
<1>2. DriverInv' /\ call' = Idle /\ call.st = "idle"
  BY <1>1, Parts, DriverFrame DEF Transferring
<1>3. IF mounted
      THEN job' \in Jobs /\ job'.pc = "run" /\ job'.op = "lookup" /\ job'.path = HostsPath /\ job'.seed = 0
      ELSE job' = job
  <2>1. CASE mounted
    <3>1. job' = [NoJob EXCEPT !.pc = "run", !.op = "lookup", !.path = HostsPath]
      BY <2>1 DEF hosts_load_once
    <3>2. HostsPath \in Paths
      BY GfsAssumption
    <3> QED
      BY <2>1, <3>1, <3>2, NoJobIsJob DEF Jobs, FileOps
  <2>2. CASE ~mounted
    BY <2>2 DEF hosts_load_once
  <2> QED
    BY <2>1, <2>2
<1>4. HostsPath \in Paths
  BY GfsAssumption
<1>5. OpInv' /\ PlaceInv'
  <2>1. CASE mounted
    BY <1>1, <1>3, <1>4, <2>1, Parts DEF OpInv, PlaceInv, FileOps, OnMounted, Unmounting
  <2>2. CASE ~mounted
    BY <1>1, <1>3, <2>2, Parts DEF OpInv, PlaceInv, JobInv
  <2> QED
    BY <2>1, <2>2
<1>6. JobInv'
  <2>1. job' \in Jobs /\ job'.pc \in {"run", "idle"}
    BY <1>1, <1>3, Parts
  <2> QED
    BY <1>1, <1>2, <1>5, <2>1, Parts, JobFrame DEF Transferring
<1>7. DirectoryInv' /\ DiskTable' = DiskTable
  BY <1>1, Parts, TablesFrame DEF BeingRemoved
<1>8. TableInv'
  BY <1>1, <1>3, <1>7, Parts DEF TableInv
<1>9. HostsInv'
  <2>1. CASE mounted
    BY <1>1, <1>3, <2>1, Parts DEF HostsInv, HostsBusy
  <2>2. CASE ~mounted
    BY <1>1, <1>3, <2>2, Parts DEF HostsInv, HostsBusy, JobInv, OpInv
  <2> QED
    BY <2>1, <2>2
<1> QED
  BY <1>2, <1>6, <1>7, <1>8, <1>9 DEF GfsInv

LEMMA BootStep ==
    ASSUME GfsInv, Boot
    PROVE  GfsInv'
<1>1. job.pc = "off" /\ disk_init /\ UNCHANGED <<mounted, inodes, hosts, stale>> /\ ~mounted
  BY Parts DEF Boot, JobInv, OpInv, Unmounting
<1>2. call = Idle /\ call.st = "idle" /\ posted = 0 /\ work = <<>> /\ unseen = 0
  BY <1>1, Parts DEF Transferring, DriverInv, OneChain
<1>3. UNCHANGED <<medium, errors, call>>
  BY DEF Boot, disk_init, diskVars
<1>4. DriverInv'
  <2>1. CASE backend # "none"
    BY <1>1, <2>1, Parts, DriverFrame DEF disk_init
  <2>2. CASE backend = "none"
    <3>1. /\ backend' \in {"none", "virtio", "ide"} /\ req' = NoRequest
          /\ posted' = 0 /\ work' = <<>> /\ unseen' = 0
      BY <1>1, <2>2 DEF disk_init
    <3>2. DiskTypes'
      BY <1>3, <3>1, Parts, NoRequestIsRequest DEF DiskTypes
    <3> QED
      BY <1>2, <1>3, <3>1, <3>2 DEF DriverInv, OneChain
  <2> QED
    BY <2>1, <2>2
<1>5. job' \in Jobs /\ job'.pc = "mount" /\ job'.op = "boot" /\ job'.seed = 0
  <2>1. job' = [NoJob EXCEPT !.pc = "mount", !.op = "boot"]
    BY DEF Boot
  <2> QED
    BY <2>1, NoJobIsJob DEF Jobs, Unmounting
<1>6. OpInv' /\ PlaceInv'
  BY <1>1, <1>5 DEF OpInv, PlaceInv, FileOps, OnMounted
<1>7. JobInv'
  BY <1>1, <1>2, <1>3, <1>5, <1>6, Parts, JobFrame DEF Transferring
<1>8. DirectoryInv' /\ DiskTable' = DiskTable
  BY <1>1, <1>3, Parts, TablesFrame DEF BeingRemoved
<1>9. TableInv'
  BY <1>1, <1>5, <1>8, Parts DEF TableInv
<1>10. HostsInv'
  BY <1>1, <1>3, <1>5, Parts DEF HostsInv
<1> QED
  BY <1>4, <1>7, <1>8, <1>9, <1>10 DEF GfsInv

LEMMA MountStep ==
    ASSUME GfsInv, gfs_init
    PROVE  GfsInv'
<1>1. /\ job.pc = "mount" /\ ~mounted /\ ~mounted' /\ mounted' = mounted /\ inodes' = Cleared
      /\ UNCHANGED <<diskVars, hosts, stale>> /\ UNCHANGED <<medium, errors, backend, call>>
  BY Parts DEF gfs_init, JobInv, OpInv, Unmounting, diskVars
<1>2. DriverInv' /\ call' = Idle /\ call.st = "idle"
  BY <1>1, Parts, DriverFrame DEF Transferring
<1>3. /\ job' \in Jobs /\ job'.pc = (IF backend = "none" THEN "run" ELSE "super")
      /\ job'.op = job.op /\ job'.path = job.path /\ job'.seed = job.seed
  <2> DEFINE pc == IF backend = "none" THEN "run" ELSE "super"
  <2>1. pc \in Places /\ job' = [job EXCEPT !.pc = pc, !.try = 1]
    BY DEF gfs_init, Places, Unmounting
  <2> HIDE DEF pc
  <2>2. job' \in Jobs /\ job'.pc = pc /\ job'.op = job.op /\ job'.path = job.path /\ job'.seed = job.seed
    BY <2>1, Parts DEF Jobs, Places
  <2> QED
    BY <2>2 DEF pc
<1>4. OpInv' /\ PlaceInv'
  BY <1>1, <1>3, Parts DEF OpInv, PlaceInv, OnMounted, JobInv
<1>5. JobInv'
  BY <1>1, <1>2, <1>3, <1>4, ClearedFacts, Parts, JobFrame DEF Transferring
<1>6. DiskTable' = DiskTable
  BY <1>1 DEF DiskTable
<1>7. TableInv'
  BY <1>1, <1>3, <1>6, ClearedFacts, Parts DEF TableInv
<1>8. DirectoryInv'
  BY <1>1, <1>6, ClearedFacts, Parts DEF DirectoryInv, OneInode
<1>9. HostsInv'
  BY <1>1, <1>3, Parts DEF HostsInv
<1> QED
  BY <1>2, <1>5, <1>7, <1>8, <1>9 DEF GfsInv

LEMMA RefuseStep ==
    ASSUME GfsInv, Refuse, UNCHANGED <<diskVars, mounted, hosts, stale>>,
           job.pc \in {"run", "seed"},
           (mounted /\ job.op = "lookup") => InUse(inodes, HostsPath) = {}
    PROVE  GfsInv'
<1>1. UNCHANGED <<medium, errors, backend, inodes, mounted, stale, call>> /\ Return(Failed, unknown)
  BY DEF Refuse, diskVars
<1>2. DriverInv' /\ call' = Idle
  BY <1>1, Parts, DriverFrame DEF Transferring
<1>3. (errors = 0 /\ mounted /\ hosts # Unloaded) => hosts = Contained(inodes, HostsPath)
  <2>1. (mounted /\ job.op = "lookup") => Contained(inodes, HostsPath) = NoFile
    BY DEF Contained
  <2> QED
    BY <2>1, Parts DEF HostsInv, HostsBusy
<1>4. \A p : ~BeingRemoved(p)
  BY DEF BeingRemoved
<1> QED
  BY <1>1, <1>2, <1>3, <1>4, ReturnStep

\* A file is given its inode, or a free one: no other file's changes.
LEMMA PutInode ==
    ASSUME GfsInv, mounted, job.pc # "store", NEW p \in Paths, NEW n \in 1 .. PerFile, NEW slot \in Slots,
           slot # 0, slot \in find_inode(p) \/ (find_inode(p) = {} /\ slot \in find_free_inode),
           inodes' = [inodes EXCEPT ![slot] = [path |-> p, size |-> n]],
           UNCHANGED <<medium, mounted, stale>>, job'.pc = "data"
    PROVE  /\ inodes' \in [Slots -> Sector]
           /\ inodes'[slot] = [path |-> p, size |-> n]
           /\ \A q : q # p => InUse(inodes', q) = InUse(inodes, q)
           /\ \A q : q # p => \A s \in InUse(inodes, q) : inodes'[s] = inodes[s]
           /\ Sound(inodes') /\ DiskTable' = DiskTable /\ DirectoryInv'
<1> DEFINE new == [path |-> p, size |-> n]
<1>1. new \in Sector /\ Valid(new) /\ new.path = p /\ new.size # 0 /\ PerFile \in Nat
  <2>1. PerFile \in Nat
    BY GfsAssumption
  <2>2. n \in 0 .. PerFile /\ n # 0
    BY <2>1
  <2>3. new \in [path : Paths, size : 1 .. PerFile] /\ new \in [path : Paths, size : 0 .. PerFile]
    BY <2>2, <2>1
  <2>4. new \in Sector
    BY <2>3, SectorAssumption
  <2> QED
    BY <2>1, <2>2, <2>3, <2>4 DEF Valid
<1>2. inodes \in [Slots -> Sector] /\ inodes' = [inodes EXCEPT ![slot] = new]
  BY Parts
<1>3. DiskTable' = DiskTable
  BY DEF DiskTable
<1>4. ~Valid(inodes[slot]) \/ inodes[slot].path = p
  BY DEF find_inode, find_free_inode, InUse
<1> HIDE DEF new
<1>5. inodes' \in [Slots -> Sector] /\ \A s \in Slots : inodes'[s] = IF s = slot THEN new ELSE inodes[s]
  BY <1>1, <1>2
<1>6. ASSUME NEW q, q # p
      PROVE  /\ InUse(inodes', q) = InUse(inodes, q)
             /\ \A s \in InUse(inodes, q) : inodes'[s] = inodes[s]
  BY <1>1, <1>4, <1>5, <1>6 DEF InUse
<1>7. InUse(inodes', p) = InUse(inodes, p) \cup {slot}
  BY <1>1, <1>4, <1>5 DEF InUse
<1>8. Sound(inodes')
  BY <1>1, <1>5, Parts DEF Sound, TableInv
<1>9. DirectoryInv'
  <2> SUFFICES ASSUME NEW q \in Paths \ stale PROVE OneInode(q)' /\ Remembered(q)'
    BY DEF DirectoryInv
  <2>1. OneInode(q) /\ InUse(DiskTable, q) \subseteq InUse(inodes, q)
    BY Parts DEF DirectoryInv, Remembered, BeingRemoved
  <2>2. CASE q # p
    BY <1>3, <1>6, <2>1, <2>2 DEF OneInode, Remembered
  <2>3. CASE q = p
    <3>1. CASE slot \in InUse(inodes, p)
      <4>1. InUse(inodes', q) = InUse(inodes, q)
        BY <1>7, <2>3, <3>1
      <4> QED
        BY <1>3, <2>1, <4>1 DEF OneInode, Remembered
    <3>2. CASE InUse(inodes, p) = {}
      <4>1. InUse(inodes', q) = {slot} /\ InUse(DiskTable', q) = {}
        BY <1>3, <1>7, <2>1, <2>3, <3>2
      <4> QED
        BY <4>1 DEF OneInode, Remembered
    <3> QED
      BY <3>1, <3>2 DEF find_inode
  <2> QED
    BY <2>2, <2>3
<1> QED
  BY <1>3, <1>5, <1>6, <1>8, <1>9 DEF new

LEMMA BeginWriteStep ==
    ASSUME GfsInv, NEW p \in Paths, NEW d \in Seq(Sector), BeginWrite(p, d), mounted,
           job.pc \in {"run", "seed"}, job.op # "lookup",
           UNCHANGED <<diskVars, mounted, hosts, stale>>
    PROVE  GfsInv'
<1>1. CASE Len(d) \notin 1 .. PerFile \/ find_inode(p) \cup find_free_inode = {}
  BY <1>1, RefuseStep DEF BeginWrite
<1>2. CASE Len(d) \in 1 .. PerFile /\ find_inode(p) \cup find_free_inode # {}
  <2> DEFINE found == IF find_inode(p) # {} THEN find_inode(p) ELSE find_free_inode
             slot == Lowest(found)
  <2>1. /\ inodes' = [inodes EXCEPT ![slot] = [path |-> p, size |-> Len(d)]]
        /\ job' = [job EXCEPT !.pc = "data", !.file = p, !.bytes = d, !.slot = slot, !.i = 0]
    BY <1>2 DEF BeginWrite
  <2>2. found # {} /\ found \subseteq Slots
    BY <1>2, TableFacts DEF find_inode, find_free_inode
  <2>3. slot \in found /\ slot \in Slots
    BY <2>2, LowestSlot
  <2>4. slot # 0
    <3>1. \A s \in find_inode(p) : s # 0
      BY TableFacts, Parts DEF find_inode, TableInv, Sound
    <3> QED
      BY <2>3, <3>1 DEF find_free_inode
  <2>5. slot \in find_inode(p) \/ (find_inode(p) = {} /\ slot \in find_free_inode)
    BY <2>3
  <2> HIDE DEF slot
  <2>6. /\ job' \in Jobs /\ job'.pc = "data" /\ job'.file = p /\ job'.bytes = d /\ job'.slot = slot
        /\ job'.i = 0 /\ job'.op = job.op /\ job'.path = job.path /\ job'.seed = job.seed
    BY <2>1, <2>3, Parts DEF Jobs, OnMounted
  <2>7. UNCHANGED <<medium, errors, backend, call, mounted, hosts, stale>>
    BY DEF diskVars
  <2>8. DriverInv' /\ call' = Idle
    BY <2>7, Parts, DriverFrame DEF Transferring
  <2>9. /\ inodes' \in [Slots -> Sector]
        /\ inodes'[slot] = [path |-> p, size |-> Len(d)]
        /\ \A q : q # p => InUse(inodes', q) = InUse(inodes, q)
        /\ \A q : q # p => \A s \in InUse(inodes, q) : inodes'[s] = inodes[s]
        /\ Sound(inodes') /\ DiskTable' = DiskTable /\ DirectoryInv'
    BY <1>2, <2>1, <2>3, <2>4, <2>5, <2>6, <2>7, PutInode
  <2>10. OpInv'
    BY <2>6, <2>7, Parts DEF OpInv, JobInv, OnMounted, Unmounting
  <2>11. PlaceInv'
    <3>1. Len(d) <= PerFile /\ 0 < Len(d)
      BY <1>2, GfsAssumption
    <3> QED
      BY <2>4, <2>6, <2>9, <3>1 DEF PlaceInv
  <2>12. JobInv'
    BY <2>6, <2>7, <2>8, <2>9, <2>10, <2>11, Parts, JobFrame
  <2>13. TableInv'
    BY <2>6, <2>7, <2>9, Parts DEF TableInv
  <2>14. p # HostsPath => Contained(inodes, HostsPath)' = Contained(inodes, HostsPath)
    BY <2>7, <2>9, ContainedFrame
  <2>15. job.pc # "data" /\ job'.op # "lookup"
    BY <2>6
  <2>16. HostsInv'
    BY <2>6, <2>7, <2>14, <2>15, Parts DEF HostsInv, HostsBusy
  <2> QED
    BY <2>8, <2>9, <2>12, <2>13, <2>16 DEF GfsInv
<1> QED
  BY <1>1, <1>2

LEMMA BeginDeleteStep ==
    ASSUME GfsInv, mounted, job.pc = "run", job.op = "delete", find_inode(job.path) # {},
           inodes' = [inodes EXCEPT ![Lowest(find_inode(job.path))] = NoInode],
           job' = [job EXCEPT !.pc = "store", !.file = job.path, !.bytes = <<>>, !.i = 0],
           UNCHANGED <<diskVars, mounted, hosts, stale>>
    PROVE  GfsInv'
<1> DEFINE slot == Lowest(find_inode(job.path))
           p == job.path
<1>1. slot \in InUse(inodes, p) /\ slot \in Slots
  BY TableFacts, LowestSlot DEF find_inode
<1>2. p \in Paths /\ p # HostsPath /\ inodes[slot].path = p
  <2>1. p \in Paths /\ p # HostsPath
    BY Parts DEF JobInv, OpInv, FileOps
  <2> QED
    BY <1>1, <2>1 DEF InUse
<1>3. inodes' = [inodes EXCEPT ![slot] = NoInode]
  OBVIOUS
<1>4. UNCHANGED <<medium, errors, backend, call, mounted, hosts, stale>>
  BY DEF diskVars
<1> HIDE DEF slot
<1>5. /\ inodes' \in [Slots -> Sector]
      /\ \A s \in Slots : inodes'[s] = IF s = slot THEN NoInode ELSE inodes[s]
  BY <1>1, <1>3, Parts, ClearedFacts, DiskAssumption DEF NoInode
<1>6. /\ job' \in Jobs /\ job'.pc = "store" /\ job'.file = p /\ job'.bytes = <<>> /\ job'.i = 0
      /\ job'.op = "delete" /\ job'.path = p /\ job'.seed = job.seed
  <2> DEFINE none == <<>>
  <2>1. none \in Seq(Sector) /\ p \in Paths \cup {NoFile} /\ 0 \in Nat
    BY <1>2
  <2>2. job' = [job EXCEPT !.pc = "store", !.file = p, !.bytes = none, !.i = 0]
    OBVIOUS
  <2> HIDE DEF none, p
  <2>3. /\ job' \in Jobs /\ job'.pc = "store" /\ job'.file = p /\ job'.bytes = none /\ job'.i = 0
        /\ job'.op = job.op /\ job'.path = job.path /\ job'.seed = job.seed
    BY <2>1, <2>2, Parts DEF Jobs, OnMounted
  <2> QED
    BY <2>3 DEF none, p
<1> HIDE DEF p
<1>7. DriverInv' /\ call' = Idle
  BY <1>4, Parts, DriverFrame DEF Transferring
<1>8. \A q : InUse(inodes', q) = InUse(inodes, q) \ {slot}
  BY <1>1, <1>5, ClearedFacts DEF InUse
<1>9. \A q : q # p => InUse(inodes', q) = InUse(inodes, q)
  BY <1>2, <1>8 DEF InUse
<1>10. JobInv'
  <2>1. OpInv'
    BY <1>2, <1>4, <1>6, Parts DEF OpInv, JobInv, OnMounted, Unmounting
  <2>2. PlaceInv'
    BY <1>2, <1>6, GfsAssumption DEF PlaceInv, Slots
  <2> QED
    BY <1>4, <1>5, <1>6, <1>7, <2>1, <2>2, Parts, JobFrame
<1>11. DiskTable' = DiskTable
  BY <1>4 DEF DiskTable
<1>12. TableInv'
  <2>1. Sound(inodes')
    BY <1>5, Parts, ClearedFacts DEF Sound, TableInv
  <2> QED
    BY <1>4, <1>6, <1>11, <2>1, Parts DEF TableInv
<1>13. DirectoryInv'
  <2> SUFFICES ASSUME NEW q \in Paths \ stale PROVE OneInode(q)' /\ Remembered(q)'
    BY <1>4 DEF DirectoryInv
  <2>1. OneInode(q) /\ InUse(DiskTable, q) \subseteq InUse(inodes, q)
    BY Parts DEF DirectoryInv, Remembered, BeingRemoved
  <2>2. OneInode(q)'
    BY <1>8, <1>11, <2>1 DEF OneInode
  <2>3. Remembered(q)'
    BY <1>6, <1>9, <1>11, <2>1 DEF Remembered, BeingRemoved, Removing
  <2> QED
    BY <2>2, <2>3
<1>14. HostsInv'
  <2>1. Contained(inodes, HostsPath)' = Contained(inodes, HostsPath)
    <3>1. \A s \in InUse(inodes, HostsPath) : s \in Slots /\ s # slot
      BY <1>2 DEF InUse
    <3> QED
      BY <1>2, <1>4, <1>5, <1>9, <3>1, ContainedFrame
  <2> QED
    BY <1>4, <1>6, <2>1, Parts DEF HostsInv, HostsBusy
<1> QED
  BY <1>7, <1>10, <1>12, <1>13, <1>14 DEF GfsInv

LEMMA BeginReadStep ==
    ASSUME GfsInv, mounted, job.pc = "run", job.op \in {"read", "lookup"}, find_inode(job.path) # {},
           job' = [job EXCEPT !.pc = "rdata", !.slot = Lowest(find_inode(job.path)), !.i = 0, !.bytes = <<>>],
           UNCHANGED <<diskVars, mounted, inodes, hosts, stale>>
    PROVE  GfsInv'
<1> DEFINE slot == Lowest(find_inode(job.path))
<1>1. slot \in InUse(inodes, job.path) /\ slot \in Slots
  BY TableFacts, LowestSlot DEF find_inode
<1>2. slot = Lowest(InUse(inodes, job.path))
  BY DEF find_inode
<1>3. job' = [job EXCEPT !.pc = "rdata", !.slot = slot, !.i = 0, !.bytes = <<>>]
  OBVIOUS
<1> HIDE DEF slot
<1>4. UNCHANGED <<medium, errors, backend, call, mounted, hosts, inodes, stale>>
  BY DEF diskVars
<1>5. /\ job' \in Jobs /\ job'.pc = "rdata" /\ job'.slot = slot /\ job'.i = 0 /\ job'.bytes = <<>>
      /\ job'.op = job.op /\ job'.path = job.path /\ job'.seed = job.seed
  <2> DEFINE none == <<>>
  <2>1. none \in Seq(Sector) /\ 0 \in Nat
    OBVIOUS
  <2>2. job' = [job EXCEPT !.pc = "rdata", !.slot = slot, !.i = 0, !.bytes = none]
    BY <1>3
  <2> HIDE DEF none
  <2>3. /\ job' \in Jobs /\ job'.pc = "rdata" /\ job'.slot = slot /\ job'.i = 0 /\ job'.bytes = none
        /\ job'.op = job.op /\ job'.path = job.path /\ job'.seed = job.seed
    BY <1>1, <2>1, <2>2, Parts DEF Jobs, OnMounted
  <2> QED
    BY <2>3 DEF none
<1>6. DriverInv' /\ call' = Idle
  BY <1>4, Parts, DriverFrame DEF Transferring
<1>7. inodes[slot].size \in 0 .. PerFile /\ inodes[slot].size # 0
  BY <1>1, TableFacts, Parts DEF TableInv, Sound
<1>8. JobInv'
  <2>1. OpInv'
    BY <1>4, <1>5, Parts DEF OpInv, JobInv, OnMounted, Unmounting
  <2>2. PlaceInv'
    BY <1>1, <1>2, <1>4, <1>5, <1>7, Parts DEF PlaceInv, JobInv, OpInv, FileOps
  <2> QED
    BY <1>4, <1>5, <1>6, <2>1, <2>2, Parts, JobFrame
<1>9. DirectoryInv' /\ DiskTable' = DiskTable /\ Contained(inodes, HostsPath)' = Contained(inodes, HostsPath)
  BY <1>4, Parts, TablesFrame DEF BeingRemoved
<1>10. TableInv'
  BY <1>4, <1>5, <1>9, Parts DEF TableInv
<1>11. HostsInv'
  <2>1. job'.bytes = [k \in 1 .. job'.i |-> medium'[inode_data_lba(job'.slot) + k - 1]]
    <3>1. 1 .. job'.i = {}
      BY <1>5
    <3> QED
      BY <1>5, <3>1
  <2> QED
    BY <1>4, <1>5, <1>9, <2>1, Parts DEF HostsInv, HostsBusy
<1> QED
  BY <1>6, <1>8, <1>9, <1>10, <1>11 DEF GfsInv

LEMMA RunStep ==
    ASSUME GfsInv, Run
    PROVE  GfsInv'
<1>1. job.pc = "run" /\ UNCHANGED <<diskVars, mounted, hosts, stale>> /\ job.op \in {"boot"} \cup FileOps
  BY Parts DEF Run, Jobs, JobInv, OpInv
<1>2. CASE job.op = "boot"
  <2>1. job' = NoJob /\ UNCHANGED <<inodes, answer, unknown>>
    BY <1>2 DEF Run
  <2>2. ~(job.seed > 0) /\ job.seed \in Nat
    BY <1>1, Parts DEF JobInv, OpInv, Jobs
  <2>3. Return(answer, unknown)
    BY <2>1, <2>2 DEF Return
  <2>4. UNCHANGED <<medium, errors, backend, inodes, mounted, stale, call, hosts>>
    BY <1>1, <2>1 DEF diskVars
  <2>5. DriverInv' /\ call' = Idle
    BY <1>1, <2>4, Parts, DriverFrame DEF Transferring
  <2>6. (errors = 0 /\ mounted /\ hosts # Unloaded) => hosts = Contained(inodes, HostsPath)
    BY <1>1, <1>2, Parts DEF HostsInv, HostsBusy
  <2>7. \A q : ~BeingRemoved(q)
    BY <1>1 DEF BeingRemoved
  <2> QED
    BY <1>1, <2>3, <2>4, <2>5, <2>6, <2>7, ReturnStep
<1>3. CASE job.op # "boot" /\ ~mounted
  <2>1. Refuse
    BY <1>3 DEF Run
  <2> QED
    BY <1>1, <1>3, <2>1, RefuseStep
<1>4. CASE job.op = "write" /\ mounted
  <2>1. BeginWrite(job.path, job.data)
    BY <1>4 DEF Run
  <2>2. job.path \in Paths /\ job.data \in Seq(Sector)
    BY <1>4, Parts DEF JobInv, OpInv, FileOps, Jobs
  <2> QED
    BY <1>1, <1>4, <2>1, <2>2, BeginWriteStep
<1>5. CASE job.op \in {"read", "lookup", "delete"} /\ mounted /\ find_inode(job.path) = {}
  <2>1. Refuse
    BY <1>5 DEF Run
  <2>2. job.op = "lookup" => InUse(inodes, HostsPath) = {}
    BY <1>5, Parts DEF JobInv, OpInv, find_inode
  <2> QED
    BY <1>1, <2>1, <2>2, RefuseStep
<1>6. CASE job.op = "delete" /\ mounted /\ find_inode(job.path) # {}
  <2>1. /\ inodes' = [inodes EXCEPT ![Lowest(find_inode(job.path))] = NoInode]
        /\ job' = [job EXCEPT !.pc = "store", !.file = job.path, !.bytes = <<>>, !.i = 0]
    BY <1>6 DEF Run
  <2> QED
    BY <1>1, <1>6, <2>1, BeginDeleteStep
<1>7. CASE job.op \in {"read", "lookup"} /\ mounted /\ find_inode(job.path) # {}
  <2>1. /\ job' = [job EXCEPT !.pc = "rdata", !.slot = Lowest(find_inode(job.path)), !.i = 0, !.bytes = <<>>]
        /\ UNCHANGED inodes
    BY <1>7 DEF Run
  <2> QED
    BY <1>1, <1>7, <2>1, BeginReadStep
<1> QED
  BY <1>1, <1>2, <1>3, <1>4, <1>5, <1>6, <1>7, Parts DEF FileOps

LEMMA SeedStep ==
    ASSUME GfsInv, Seed
    PROVE  GfsInv'
<1>1. /\ job.pc = "seed" /\ UNCHANGED <<diskVars, mounted, hosts, stale>>
      /\ mounted /\ job.seed > 0 /\ job.seed \in Nat /\ job.op # "none" /\ job.op # "lookup"
  BY Parts DEF Seed, JobInv, OpInv, OnMounted, Jobs
<1>2. CASE job.seed <= Len(Defaults) /\ find_inode(Defaults[job.seed].path) = {}
  <2> DEFINE f == Defaults[job.seed]
  <2>1. BeginWrite(f.path, f.data)
    BY <1>1, <1>2, SectorAssumption DEF Seed
  <2>2. f \in [path : Paths, data : Contents]
    <3> DEFINE R == [path : Paths, data : Contents]
    <3>1. Defaults \in Seq(R)
      BY SectorAssumption
    <3> HIDE DEF R
    <3>2. Len(Defaults) \in Nat
      BY <3>1
    <3>3. job.seed \in 1 .. Len(Defaults)
      BY <1>1, <1>2, <3>2
    <3>4. Defaults[job.seed] \in R
      BY <3>1, <3>3
    <3> QED
      BY <3>4 DEF R
  <2>3. f.path \in Paths /\ f.data \in Seq(Sector)
    BY <2>2, SectorAssumption
  <2> QED
    BY <1>1, <2>1, <2>3, BeginWriteStep
<1>3. CASE ~(job.seed <= Len(Defaults) /\ find_inode(Defaults[job.seed].path) = {})
  <2>1. /\ \/ job' = [job EXCEPT !.pc = "run", !.seed = 0]
           \/ job' = [job EXCEPT !.seed = @ + 1]
        /\ UNCHANGED inodes
    BY <1>1, <1>3, SectorAssumption DEF Seed
  <2>2. /\ job' \in Jobs /\ job'.pc \in {"run", "seed"} /\ job'.op = job.op /\ job'.path = job.path
        /\ job'.seed \in Nat /\ (job'.pc = "seed" <=> job'.seed > 0)
    <3>1. CASE job' = [job EXCEPT !.pc = "run", !.seed = 0]
      <4> DEFINE z == 0
      <4>1. z \in Nat /\ ~(z > 0) /\ job' = [job EXCEPT !.pc = "run", !.seed = z]
        BY <3>1
      <4> HIDE DEF z
      <4> QED
        BY <4>1, Parts DEF Jobs
    <3>2. CASE job' = [job EXCEPT !.seed = @ + 1]
      <4> DEFINE n == job.seed + 1
      <4>1. n \in Nat /\ n > 0 /\ job' = [job EXCEPT !.seed = n]
        BY <1>1, <3>2
      <4> HIDE DEF n
      <4> QED
        BY <1>1, <4>1, Parts DEF Jobs
    <3> QED
      BY <2>1, <3>1, <3>2
  <2>3. UNCHANGED <<medium, errors, backend, call, mounted, hosts, inodes, stale>>
    BY <1>1, <2>1 DEF diskVars
  <2>4. DriverInv' /\ call' = Idle
    BY <1>1, <2>3, Parts, DriverFrame DEF Transferring
  <2>5. OpInv' /\ PlaceInv'
    BY <1>1, <2>2, <2>3, Parts DEF OpInv, PlaceInv, JobInv, Unmounting
  <2>6. JobInv'
    BY <1>1, <2>2, <2>3, <2>4, <2>5, Parts, JobFrame DEF Transferring
  <2>7. DirectoryInv' /\ DiskTable' = DiskTable /\ Contained(inodes, HostsPath)' = Contained(inodes, HostsPath)
    BY <1>1, <2>3, Parts, TablesFrame DEF BeingRemoved
  <2>8. TableInv'
    BY <1>1, <2>2, <2>3, <2>7, Parts DEF TableInv
  <2>9. HostsInv'
    BY <1>1, <2>2, <2>3, <2>7, Parts DEF HostsInv, HostsBusy
  <2> QED
    BY <2>4, <2>6, <2>7, <2>8, <2>9 DEF GfsInv
<1> QED
  BY <1>2, <1>3

-----------------------------------------------------------------------------
(***************************************************************************)
(* The ends of transfers                                                   *)
(***************************************************************************)
\* What a place that has had its transfer knows.
LEMMA EndedParts ==
    ASSUME GfsInv, NEW pc \in Transferring, Ended(pc)
    PROVE  /\ DriverInv' /\ job.pc = pc /\ call.st = "done" /\ call.r = Wanted /\ call' = Idle
           /\ UNCHANGED <<medium, errors, backend>> /\ backend # "none"
           /\ Wanted \in Request /\ call.val \in Sector /\ DiskTable' = DiskTable
           /\ call.rc = 0 => IF Wanted.type = "out" THEN medium[Wanted.lba] = Wanted.val
                             ELSE call.val = medium[Wanted.lba]
           /\ errors = 0 => call.rc = 0
<1>1. /\ DriverInv' /\ job.pc = pc /\ call.st = "done" /\ call' = Idle
      /\ UNCHANGED <<medium, errors, backend>>
  BY Parts, EndedFacts
<1>2. call.r = Wanted /\ Wanted \in Request /\ call.val \in Sector /\ backend # "none"
  BY <1>1, Parts, WantedFacts, CallFields DEF JobInv, TransferInv, DiskTypes
<1>3. DiskTable' = DiskTable
  BY <1>1 DEF DiskTable
<1> QED
  BY <1>1, <1>2, <1>3, Parts, NoErrors DEF DriverInv, Moved

LEMMA SuperStep ==
    ASSUME GfsInv, SuperRead
    PROVE  GfsInv'
<1>1. Ended("super") /\ UNCHANGED <<mounted, inodes, hosts, stale>> /\ "super" \in Transferring
  BY DEF SuperRead, Transferring
<1>2. /\ job.pc = "super" /\ UNCHANGED <<medium, errors, backend>> /\ backend # "none"
      /\ DiskTable' = DiskTable /\ DriverInv' /\ call' = Idle
  BY <1>1, EndedParts
<1>3. /\ job' \in Jobs /\ job'.pc \in {"super", "inodes", "fmt_super"}
      /\ job'.pc = "inodes" => job'.i = 0
      /\ job'.op = job.op /\ job'.path = job.path /\ job'.seed = job.seed
  <2>1. CASE call.rc = 0 /\ call.val = SuperMark
    <3> DEFINE z == 0
    <3>1. z \in Nat /\ 1 \in Nat /\ job' = [job EXCEPT !.pc = "inodes", !.i = z, !.try = 1]
      BY <2>1 DEF SuperRead
    <3> HIDE DEF z
    <3>2. /\ job' \in Jobs /\ job'.pc = "inodes" /\ job'.i = z
          /\ job'.op = job.op /\ job'.path = job.path /\ job'.seed = job.seed
      BY <3>1, Parts DEF Jobs, Unmounting
    <3> QED
      BY <3>2 DEF z
  <2>2. CASE ~(call.rc = 0 /\ call.val = SuperMark) /\ job.try < MountTries
    <3> DEFINE n == job.try + 1
    <3>1. n \in Nat /\ job' = [job EXCEPT !.try = n]
      BY <2>2, Parts DEF SuperRead, Jobs
    <3> HIDE DEF n
    <3> QED
      BY <1>2, <3>1, Parts DEF Jobs, Unmounting
  <2>3. CASE ~(call.rc = 0 /\ call.val = SuperMark) /\ ~(job.try < MountTries)
    <3>1. job' = [job EXCEPT !.pc = "fmt_super"]
      BY <2>3 DEF SuperRead
    <3> QED
      BY <3>1, Parts DEF Jobs, Unmounting
  <2> QED
    BY <2>1, <2>2, <2>3
<1>4. OpInv' /\ PlaceInv'
  BY <1>1, <1>2, <1>3, Parts, GfsAssumption DEF OpInv, PlaceInv, JobInv, Slots, Unmounting, OnMounted
<1>5. JobInv'
  BY <1>1, <1>2, <1>3, <1>4, Parts, JobFrame
<1>6. DirectoryInv'
  BY <1>1, <1>2, Parts, TablesFrame DEF BeingRemoved
<1>7. TableInv'
  BY <1>1, <1>2, <1>3, Parts DEF TableInv
<1>8. ~mounted
  BY <1>2, Parts DEF JobInv, OpInv, Unmounting
<1>9. HostsInv'
  BY <1>1, <1>2, <1>3, <1>8, Parts DEF HostsInv
<1> QED
  BY <1>2, <1>5, <1>6, <1>7, <1>9 DEF GfsInv

\* Every sector of a table has been gone through.
LEMMA LastSlot ==
    ASSUME NEW i \in Slots, i = Inodes - 1
    PROVE  \A k \in Slots : k \in 0 .. i - 1 \/ k = i
BY GfsAssumption DEF Slots

LEMMA InodesStep ==
    ASSUME GfsInv, InodesRead
    PROVE  GfsInv'
<1>1. Ended("inodes") /\ UNCHANGED <<hosts, stale>> /\ "inodes" \in Transferring
  BY DEF InodesRead, Transferring
<1>2. /\ job.pc = "inodes" /\ UNCHANGED <<medium, errors, backend>> /\ backend # "none"
      /\ DiskTable' = DiskTable /\ DriverInv' /\ call' = Idle /\ call.val \in Sector
      /\ errors = 0 => call.rc = 0
  BY <1>1, EndedParts
<1>3. /\ job.i \in Slots /\ job.i \in Nat /\ ~mounted /\ job.seed = 0 /\ job.op # "none" /\ job.op # "lookup"
      /\ \A k \in 0 .. job.i - 1 : inodes[k] = DiskTable[k]
      /\ \A k \in Slots : inodes[k] \in {DiskTable[k], NoInode}
  BY <1>2, Parts DEF JobInv, PlaceInv, OpInv, TableInv, Unmounting, Jobs
<1>4. CASE call.rc # 0
  <2>1. UNCHANGED <<inodes, mounted>>
    BY <1>4 DEF InodesRead
  <2>2. /\ job' \in Jobs /\ job'.pc \in {"inodes", "run"} /\ (job'.pc = "inodes" => job'.i = 0)
        /\ job'.op = job.op /\ job'.path = job.path /\ job'.seed = job.seed
    <3>1. CASE job.try < MountTries
      <4> DEFINE z == 0
                 n == job.try + 1
      <4>1. z \in Nat /\ n \in Nat /\ job' = [job EXCEPT !.i = z, !.try = n]
        BY <1>4, <3>1, Parts DEF InodesRead, Jobs
      <4> HIDE DEF z, n
      <4>2. /\ job' \in Jobs /\ job'.pc = job.pc /\ job'.i = z
            /\ job'.op = job.op /\ job'.path = job.path /\ job'.seed = job.seed
        BY <4>1, Parts DEF Jobs
      <4> QED
        BY <1>2, <4>2 DEF z
    <3>2. CASE ~(job.try < MountTries)
      <4>1. job' = [job EXCEPT !.pc = "run"]
        BY <1>4, <3>2 DEF InodesRead
      <4> QED
        BY <4>1, Parts DEF Jobs
    <3> QED
      BY <3>1, <3>2
  <2>3. OpInv' /\ PlaceInv'
    BY <1>2, <1>3, <2>1, <2>2, Parts, GfsAssumption DEF OpInv, PlaceInv, JobInv, Slots, Unmounting, OnMounted
  <2>4. JobInv'
    BY <1>2, <2>1, <2>2, <2>3, Parts, JobFrame
  <2>5. DirectoryInv'
    BY <1>1, <1>2, <2>1, Parts, TablesFrame DEF BeingRemoved
  <2>6. TableInv'
    BY <1>2, <2>1, <2>2, Parts DEF TableInv
  <2>7. HostsInv'
    BY <1>2, <1>4 DEF HostsInv
  <2> QED
    BY <1>2, <2>4, <2>5, <2>6, <2>7 DEF GfsInv
<1>5. CASE call.rc = 0
  <2>1. inodes' = [inodes EXCEPT ![job.i] = call.val]
    BY <1>5 DEF InodesRead
  <2>2. call.val = DiskTable[job.i]
    <3>1. Wanted.type = "in" /\ Wanted.lba = InodeLba(job.i)
      BY <1>1, <1>2, Parts, WantedFacts
    <3>2. call.val = medium[InodeLba(job.i)]
      BY <1>1, <1>5, <3>1, EndedParts
    <3> QED
      BY <1>3, <3>2, Parts, DiskTableFacts
  <2>3. /\ inodes' \in [Slots -> Sector]
        /\ \A k \in Slots : inodes'[k] = IF k = job.i THEN DiskTable[k] ELSE inodes[k]
    BY <1>2, <1>3, <2>1, <2>2, Parts
  <2>4. \A p : InUse(inodes', p) \subseteq InUse(DiskTable, p)
    BY <1>3, <2>3, ClearedFacts DEF InUse
  <2>5. \A k \in 0 .. job.i - 1 : inodes'[k] = DiskTable[k]
    BY <1>3, <2>3, GfsAssumption DEF Slots
  <2>6. Sound(inodes') /\ \A k \in Slots : inodes'[k] \in {DiskTable[k], NoInode}
    BY <1>3, <2>3, Parts, ClearedFacts DEF Sound, TableInv
  <2>7. \A p \in Paths \ stale : \A i, j \in InUse(DiskTable, p) : i = j
    BY Parts DEF DirectoryInv, OneInode
  <2>8. \A p \in Paths \ stale : OneInode(p)'
    BY <1>2, <2>4, <2>7 DEF OneInode
  <2>9. CASE job.i = Inodes - 1
    <3>1. GoTo("run") /\ mounted' = TRUE
      BY <1>5, <2>9 DEF InodesRead
    <3>2. /\ job' \in Jobs /\ job'.pc = "run"
          /\ job'.op = job.op /\ job'.path = job.path /\ job'.seed = job.seed
      BY <3>1, Parts, GoToFacts DEF Places
    <3>3. OpInv' /\ PlaceInv'
      BY <1>3, <3>1, <3>2, Parts DEF OpInv, PlaceInv, JobInv, Unmounting, OnMounted
    <3>4. JobInv'
      BY <1>2, <2>3, <3>1, <3>2, <3>3, JobFrame
    <3>5. TableInv'
      BY <1>2, <2>6, <3>1, <3>2, Parts DEF TableInv
    <3>6. \A k \in Slots : inodes'[k] = DiskTable[k]
      BY <1>3, <2>3, <2>5, <2>9, LastSlot
    <3>7. \A p : InUse(inodes', p) = InUse(DiskTable, p)
      BY <3>6 DEF InUse
    <3>8. DirectoryInv'
      BY <1>1, <1>2, <2>8, <3>7 DEF DirectoryInv, Remembered
    <3>9. HostsInv'
      BY <1>1, <1>2, <1>3, <3>1, <3>2, Parts DEF HostsInv, HostsBusy
    <3> QED
      BY <1>2, <3>4, <3>5, <3>8, <3>9 DEF GfsInv
  <2>10. CASE job.i # Inodes - 1
    <3>1. NextSector /\ mounted' = mounted
      BY <1>5, <2>10 DEF InodesRead
    <3>2. /\ job' \in Jobs /\ job'.pc = "inodes" /\ job'.i = job.i + 1 /\ job'.i \in Slots
          /\ job'.op = job.op /\ job'.path = job.path /\ job'.seed = job.seed
      <4>1. job.i + 1 \in Slots
        BY <1>3, <2>10, GfsAssumption DEF Slots
      <4> QED
        BY <1>2, <3>1, <4>1, Parts, NextFacts
    <3>3. OpInv' /\ PlaceInv'
      BY <1>2, <1>3, <3>1, <3>2, Parts DEF OpInv, PlaceInv, JobInv, Unmounting, OnMounted
    <3>4. JobInv'
      BY <1>2, <2>3, <3>1, <3>2, <3>3, Parts, JobFrame
    <3>5. \A k \in 0 .. job'.i - 1 : inodes'[k] = DiskTable[k]
      <4>1. \A k \in 0 .. job'.i - 1 : k \in 0 .. job.i - 1 \/ k = job.i
        BY <1>3, <3>2
      <4> QED
        BY <1>3, <2>3, <2>5, <4>1
    <3>6. TableInv'
      BY <1>2, <1>3, <2>6, <3>1, <3>2, <3>5, Parts DEF TableInv
    <3>7. DirectoryInv'
      BY <1>1, <1>3, <2>8, <3>1 DEF DirectoryInv
    <3>8. HostsInv'
      BY <1>1, <1>2, <1>3, <3>1, <3>2, Parts DEF HostsInv
    <3> QED
      BY <1>2, <3>4, <3>6, <3>7, <3>8 DEF GfsInv
  <2> QED
    BY <2>9, <2>10
<1> QED
  BY <1>4, <1>5

LEMMA FormatStep ==
    ASSUME GfsInv, FormatWritten
    PROVE  GfsInv'
<1>1. PICK pc \in {"fmt_super", "fmt_inodes", "fmt_data"} : Ended(pc)
  BY DEF FormatWritten
<1>2. pc \in Transferring /\ UNCHANGED <<hosts, stale>>
  BY DEF FormatWritten, Transferring
<1>3. /\ job.pc = pc /\ UNCHANGED <<medium, errors, backend>> /\ backend # "none"
      /\ DiskTable' = DiskTable /\ DriverInv' /\ call' = Idle
      /\ errors = 0 => call.rc = 0
  BY <1>1, <1>2, EndedParts
<1>4. /\ ~mounted /\ job.seed = 0 /\ job.op # "none" /\ job.op # "lookup"
      /\ \A k \in Slots : inodes[k] \in {DiskTable[k], NoInode}
      /\ pc # "fmt_super" => inodes = Cleared
  BY <1>3, Parts DEF JobInv, OpInv, TableInv, Unmounting, Jobs
<1>5. inodes' = (IF pc = "fmt_super" THEN Cleared ELSE inodes) /\ inodes' = Cleared
  BY <1>3, <1>4 DEF FormatWritten
<1>6. inodes' \in [Slots -> Sector] /\ Sound(inodes') /\ \A k \in Slots : inodes'[k] = NoInode
  BY <1>5, ClearedFacts
<1>7. \A p \in Paths \ stale : OneInode(p)'
  BY <1>3, <1>5, ClearedFacts, Parts DEF DirectoryInv, OneInode
<1>8. CASE call.rc # 0
  <2>1. GoTo("run") /\ mounted' = mounted
    BY <1>8 DEF FormatWritten
  <2>2. /\ job' \in Jobs /\ job'.pc = "run"
        /\ job'.op = job.op /\ job'.path = job.path /\ job'.seed = job.seed
    BY <2>1, Parts, GoToFacts DEF Places
  <2>3. OpInv' /\ PlaceInv'
    BY <1>4, <2>1, <2>2, Parts DEF OpInv, PlaceInv, JobInv, Unmounting, OnMounted
  <2>4. JobInv'
    BY <1>3, <1>6, <2>1, <2>2, <2>3, Parts, JobFrame
  <2>5. TableInv' /\ DirectoryInv'
    BY <1>2, <1>3, <1>4, <1>6, <1>7, <2>1, <2>2, Parts DEF TableInv, DirectoryInv
  <2>6. HostsInv'
    BY <1>3, <1>8 DEF HostsInv
  <2> QED
    BY <1>3, <2>4, <2>5, <2>6 DEF GfsInv
<1>9. CASE call.rc = 0 /\ pc = "fmt_super"
  <2>1. GoTo("fmt_inodes") /\ mounted' = mounted
    BY <1>3, <1>9 DEF FormatWritten
  <2>2. /\ job' \in Jobs /\ job'.pc = "fmt_inodes" /\ job'.i = 0
        /\ job'.op = job.op /\ job'.path = job.path /\ job'.seed = job.seed
    BY <2>1, Parts, GoToFacts DEF Places, Unmounting
  <2>3. OpInv' /\ PlaceInv'
    BY <1>4, <2>1, <2>2, Parts, GfsAssumption DEF OpInv, PlaceInv, JobInv, Unmounting, OnMounted, Slots
  <2>4. JobInv'
    BY <1>3, <1>6, <2>1, <2>2, <2>3, Parts, JobFrame
  <2>5. TableInv' /\ DirectoryInv'
    BY <1>2, <1>3, <1>4, <1>5, <1>6, <1>7, <2>1, <2>2, Parts DEF TableInv, DirectoryInv
  <2>6. HostsInv'
    BY <1>2, <1>3, <1>4, <2>1, <2>2, Parts DEF HostsInv
  <2> QED
    BY <1>3, <2>4, <2>5, <2>6 DEF GfsInv
<1>10. CASE call.rc = 0 /\ pc = "fmt_inodes"
  <2>1. /\ (IF job.i = Inodes - 1 THEN GoTo("fmt_data") ELSE NextSector)
        /\ mounted' = mounted
    BY <1>3, <1>10 DEF FormatWritten
  <2>2. job.i \in Slots /\ \A k \in 0 .. job.i - 1 : DiskTable[k] = NoInode
    BY <1>3, <1>10, Parts DEF JobInv, PlaceInv, TableInv
  <2>3. DiskTable[job.i] = NoInode
    <3>1. Wanted = Write(InodeLba(job.i), inodes[job.i])
      BY <1>2, <1>3, <1>10, Parts, WantedFacts
    <3>2. medium[InodeLba(job.i)] = inodes[job.i]
      BY <1>1, <1>2, <1>10, <3>1, EndedParts DEF Write
    <3> QED
      BY <1>4, <1>10, <2>2, <3>2, ClearedFacts, Parts, DiskTableFacts
  <2>4. CASE job.i = Inodes - 1
    <3>1. \A k \in Slots : DiskTable[k] = NoInode
      BY <2>2, <2>3, <2>4, LastSlot
    <3>2. DiskTable = Cleared
      BY <3>1 DEF DiskTable, Cleared
    <3>3. /\ job' \in Jobs /\ job'.pc = "fmt_data" /\ job'.i = 0
          /\ job'.op = job.op /\ job'.path = job.path /\ job'.seed = job.seed
      BY <2>1, <2>4, Parts, GoToFacts DEF Places, Unmounting
    <3>4. 0 < Inodes * PerFile
      <4>1. 0 * PerFile + PerFile <= Inodes * PerFile /\ PerFile \in Nat /\ PerFile > 0
        BY GfsAssumption, Multiples
      <4> DEFINE end == Inodes * PerFile
      <4>2. PerFile <= end /\ end \in Nat
        BY <4>1, GfsAssumption
      <4> HIDE DEF end
      <4>3. 0 < end
        BY <4>1, <4>2
      <4> QED
        BY <4>3 DEF end
    <3>5. OpInv' /\ PlaceInv'
      BY <1>4, <2>1, <3>3, <3>4, Parts DEF OpInv, PlaceInv, JobInv, Unmounting, OnMounted
    <3>6. JobInv'
      BY <1>3, <1>6, <2>1, <3>3, <3>5, Parts, JobFrame
    <3>7. TableInv' /\ DirectoryInv'
      BY <1>2, <1>3, <1>4, <1>5, <1>6, <1>7, <2>1, <3>2, <3>3, Parts DEF TableInv, DirectoryInv
    <3>8. HostsInv'
      BY <1>2, <1>3, <1>4, <2>1, <3>3, Parts DEF HostsInv
    <3> QED
      BY <1>3, <3>6, <3>7, <3>8 DEF GfsInv
  <2>5. CASE job.i # Inodes - 1
    <3>1. /\ job' \in Jobs /\ job'.pc = "fmt_inodes" /\ job'.i = job.i + 1
          /\ job'.op = job.op /\ job'.path = job.path /\ job'.seed = job.seed
      BY <1>3, <1>10, <2>1, <2>5, Parts, NextFacts
    <3>2. job'.i \in Slots /\ \A k \in 0 .. job'.i - 1 : k \in 0 .. job.i - 1 \/ k = job.i
      BY <2>2, <2>5, <3>1, GfsAssumption DEF Slots
    <3>3. \A k \in 0 .. job'.i - 1 : DiskTable[k] = NoInode
      BY <2>2, <2>3, <3>2
    <3>4. OpInv' /\ PlaceInv'
      BY <1>4, <2>1, <3>1, <3>2, Parts DEF OpInv, PlaceInv, JobInv, Unmounting, OnMounted
    <3>5. JobInv'
      BY <1>3, <1>6, <2>1, <3>1, <3>4, Parts, JobFrame
    <3>6. TableInv' /\ DirectoryInv'
      BY <1>2, <1>3, <1>4, <1>5, <1>6, <1>7, <2>1, <3>1, <3>3, Parts DEF TableInv, DirectoryInv
    <3>7. HostsInv'
      BY <1>2, <1>3, <1>4, <2>1, <3>1, Parts DEF HostsInv
    <3> QED
      BY <1>3, <3>5, <3>6, <3>7 DEF GfsInv
  <2> QED
    BY <2>4, <2>5
<1>11. CASE call.rc = 0 /\ pc = "fmt_data"
  <2>1. DiskTable = Cleared
    BY <1>3, <1>11, Parts DEF TableInv
  <2>2. CASE job.i = Inodes * PerFile - 1
    <3>1. job' = [job EXCEPT !.pc = "seed", !.seed = 1] /\ mounted' = TRUE
      BY <1>3, <1>11, <2>2 DEF FormatWritten
    <3>2. /\ job' \in Jobs /\ job'.pc = "seed" /\ job'.seed = 1
          /\ job'.op = job.op /\ job'.path = job.path
      <4> DEFINE n == 1
      <4>1. n \in Nat /\ job' = [job EXCEPT !.pc = "seed", !.seed = n]
        BY <3>1
      <4> HIDE DEF n
      <4>2. /\ job' \in Jobs /\ job'.pc = "seed" /\ job'.seed = n
            /\ job'.op = job.op /\ job'.path = job.path
        BY <4>1, Parts DEF Jobs, OnMounted
      <4> QED
        BY <4>2 DEF n
    <3>3. OpInv' /\ PlaceInv'
      BY <1>4, <3>1, <3>2, Parts DEF OpInv, PlaceInv, JobInv, Unmounting
    <3>4. JobInv'
      BY <1>3, <1>6, <3>1, <3>2, <3>3, JobFrame
    <3>5. TableInv'
      BY <1>3, <1>6, <2>1, <3>1, <3>2, ClearedFacts DEF TableInv
    <3>6. DirectoryInv'
      BY <1>2, <1>3, <1>7, <2>1, ClearedFacts DEF DirectoryInv, Remembered
    <3>7. HostsInv'
      BY <1>2, <1>3, <1>4, <3>1, <3>2, Parts DEF HostsInv
    <3> QED
      BY <1>3, <3>4, <3>5, <3>6, <3>7 DEF GfsInv
  <2>3. CASE job.i # Inodes * PerFile - 1
    <3>1. NextSector /\ mounted' = mounted
      BY <1>3, <1>11, <2>3 DEF FormatWritten
    <3>2. /\ job' \in Jobs /\ job'.pc = "fmt_data" /\ job'.i = job.i + 1
          /\ job'.op = job.op /\ job'.path = job.path /\ job'.seed = job.seed
      BY <1>3, <1>11, <3>1, Parts, NextFacts
    <3>3. job'.i < Inodes * PerFile
      <4> DEFINE end == Inodes * PerFile
      <4>1. end \in Nat /\ job.i < end /\ job.i # end - 1 /\ job.i \in Nat
        BY <1>3, <1>11, <2>3, Parts, GfsAssumption DEF JobInv, PlaceInv, Jobs
      <4> HIDE DEF end
      <4>2. job'.i < end
        BY <3>2, <4>1
      <4> QED
        BY <4>2 DEF end
    <3>4. OpInv' /\ PlaceInv'
      BY <1>4, <3>1, <3>2, <3>3, Parts DEF OpInv, PlaceInv, JobInv, Unmounting, OnMounted
    <3>5. JobInv'
      BY <1>3, <1>6, <3>1, <3>2, <3>4, Parts, JobFrame
    <3>6. TableInv' /\ DirectoryInv'
      BY <1>2, <1>3, <1>4, <1>5, <1>6, <1>7, <2>1, <3>1, <3>2, Parts DEF TableInv, DirectoryInv
    <3>7. HostsInv'
      BY <1>2, <1>3, <1>4, <3>1, <3>2, Parts DEF HostsInv
    <3> QED
      BY <1>3, <3>5, <3>6, <3>7 DEF GfsInv
  <2> QED
    BY <2>2, <2>3
<1> QED
  BY <1>8, <1>9, <1>10, <1>11

LEMMA SpoilStep ==
    ASSUME GfsInv, NEW pc \in {"data", "store"}, Ended(pc), call.rc # 0, Spoil
    PROVE  GfsInv'
<1>1. pc \in Transferring /\ job.pc = pc
  BY EndedFacts, Parts DEF Transferring
<1>2. UNCHANGED <<medium, errors, backend>> /\ DriverInv' /\ call' = Idle /\ errors # 0
  BY <1>1, EndedParts
<1>3. /\ Return(Failed, unknown \cup {job.file}) /\ UNCHANGED <<mounted, inodes>>
      /\ stale \subseteq stale' /\ (Removing => job.file \in stale')
  BY DEF Spoil
<1>4. \A p : BeingRemoved(p) => p \in stale'
  BY <1>3 DEF BeingRemoved
<1> QED
  BY <1>1, <1>2, <1>3, <1>4, ReturnStep

LEMMA DataStep ==
    ASSUME GfsInv, DataWritten
    PROVE  GfsInv'
<1>1. Ended("data") /\ "data" \in Transferring
  BY DEF DataWritten, Transferring
<1>2. /\ job.pc = "data" /\ UNCHANGED <<medium, errors, backend>> /\ backend # "none"
      /\ DiskTable' = DiskTable /\ DriverInv' /\ call' = Idle
  BY <1>1, EndedParts
<1>3. /\ job.i \in Nat /\ job.op # "lookup" /\ mounted /\ job.op # "none" /\ job.file \in Paths
      /\ Len(job.bytes) \in Nat /\ job.i < Len(job.bytes)
  BY <1>2, Parts DEF JobInv, PlaceInv, OpInv, OnMounted, Jobs
<1>4. CASE call.rc # 0
  <2>1. Spoil
    BY <1>4 DEF DataWritten
  <2> QED
    BY <1>1, <1>4, <2>1, SpoilStep
<1>5. CASE call.rc = 0 /\ job.i + 1 < Len(job.bytes)
  <2>1. NextSector /\ UNCHANGED <<mounted, inodes, hosts, stale>>
    BY <1>5 DEF DataWritten
  <2>2. /\ job' \in Jobs /\ job'.pc = "data" /\ job'.i = job.i + 1
        /\ job'.op = job.op /\ job'.path = job.path /\ job'.seed = job.seed
        /\ job'.file = job.file /\ job'.bytes = job.bytes /\ job'.slot = job.slot
    BY <1>2, <2>1, Parts, NextFacts
  <2>3. OpInv' /\ PlaceInv'
    BY <1>2, <1>5, <2>1, <2>2, Parts DEF OpInv, PlaceInv, JobInv, Unmounting
  <2>4. JobInv'
    BY <1>2, <2>1, <2>2, <2>3, Parts, JobFrame
  <2>5. DirectoryInv' /\ Contained(inodes, HostsPath)' = Contained(inodes, HostsPath)
    BY <1>2, <2>1, Parts, TablesFrame DEF BeingRemoved
  <2>6. TableInv'
    BY <1>2, <2>1, <2>2, Parts DEF TableInv
  <2>7. HostsInv'
    BY <1>2, <2>1, <2>2, <2>5, Parts DEF HostsInv, HostsBusy
  <2> QED
    BY <1>2, <2>4, <2>5, <2>6, <2>7 DEF GfsInv
<1>6. CASE call.rc = 0 /\ ~(job.i + 1 < Len(job.bytes))
  <2>1. /\ GoTo("store") /\ UNCHANGED <<mounted, inodes, stale>>
        /\ hosts' = IF job.file = HostsPath THEN Unloaded ELSE hosts
    BY <1>6 DEF DataWritten
  <2>2. /\ job' \in Jobs /\ job'.pc = "store" /\ job'.i = 0
        /\ job'.op = job.op /\ job'.path = job.path /\ job'.seed = job.seed
        /\ job'.file = job.file /\ job'.bytes = job.bytes /\ job'.slot = job.slot
    BY <2>1, Parts, GoToFacts DEF Places, OnMounted
  <2>3. OpInv' /\ PlaceInv'
    BY <1>2, <1>3, <2>1, <2>2, Parts, GfsAssumption DEF OpInv, PlaceInv, JobInv, Unmounting, Slots
  <2>4. JobInv'
    BY <1>2, <2>1, <2>2, <2>3, Parts, JobFrame
  <2>5. DirectoryInv' /\ Contained(inodes, HostsPath)' = Contained(inodes, HostsPath)
    BY <1>2, <2>1, Parts, TablesFrame DEF BeingRemoved
  <2>6. TableInv'
    BY <1>2, <1>3, <2>1, <2>2, Parts DEF TableInv
  <2>7. HostsInv'
    BY <1>2, <1>3, <2>1, <2>2, <2>5, Parts DEF HostsInv, HostsBusy
  <2> QED
    BY <1>2, <2>4, <2>5, <2>6, <2>7 DEF GfsInv
<1> QED
  BY <1>4, <1>5, <1>6

LEMMA StoreStep ==
    ASSUME GfsInv, InodesStored
    PROVE  GfsInv'
<1>1. Ended("store") /\ "store" \in Transferring
  BY DEF InodesStored, Transferring
<1>2. /\ job.pc = "store" /\ UNCHANGED <<medium, errors, backend>> /\ backend # "none"
      /\ DiskTable' = DiskTable /\ DriverInv' /\ call' = Idle
  BY <1>1, EndedParts
<1>3. /\ job.i \in Slots /\ job.op # "lookup" /\ mounted
      /\ \A k \in 0 .. job.i - 1 : DiskTable[k] = inodes[k]
  BY <1>2, Parts DEF JobInv, PlaceInv, OpInv, OnMounted, TableInv
<1>4. call.rc = 0 => DiskTable[job.i] = inodes[job.i]
  <2>1. Wanted = Write(InodeLba(job.i), inodes[job.i])
    BY <1>1, <1>2, Parts, WantedFacts
  <2>2. call.rc = 0 => medium[InodeLba(job.i)] = inodes[job.i]
    BY <1>1, <2>1, EndedParts DEF Write
  <2> QED
    BY <1>3, <2>2, Parts, DiskTableFacts
<1>5. CASE call.rc # 0
  <2>1. Spoil
    BY <1>5 DEF InodesStored
  <2> QED
    BY <1>1, <1>5, <2>1, SpoilStep
<1>6. CASE call.rc = 0 /\ job.i < Inodes - 1
  <2>1. NextSector /\ UNCHANGED <<mounted, inodes, hosts, stale>>
    BY <1>6 DEF InodesStored
  <2>2. /\ job' \in Jobs /\ job'.pc = "store" /\ job'.i = job.i + 1
        /\ job'.op = job.op /\ job'.path = job.path /\ job'.seed = job.seed
        /\ job'.file = job.file /\ job'.bytes = job.bytes /\ job'.slot = job.slot
    BY <1>2, <2>1, Parts, NextFacts
  <2>3. job'.i \in Slots /\ \A k \in 0 .. job'.i - 1 : k \in 0 .. job.i - 1 \/ k = job.i
    BY <1>3, <1>6, <2>2, GfsAssumption DEF Slots
  <2>4. OpInv' /\ PlaceInv'
    BY <1>2, <2>1, <2>2, <2>3, Parts DEF OpInv, PlaceInv, JobInv, Unmounting
  <2>5. JobInv'
    BY <1>2, <2>1, <2>2, <2>4, Parts, JobFrame
  <2>6. DirectoryInv' /\ Contained(inodes, HostsPath)' = Contained(inodes, HostsPath)
    BY <1>2, <2>1, <2>2, Parts, TablesFrame DEF BeingRemoved, Removing
  <2>7. \A k \in 0 .. job'.i - 1 : DiskTable[k] = inodes[k]
    BY <1>3, <1>4, <1>6, <2>3
  <2>8. TableInv'
    BY <1>2, <1>3, <2>1, <2>2, <2>7, Parts DEF TableInv
  <2>9. HostsInv'
    BY <1>2, <2>1, <2>2, <2>6, Parts DEF HostsInv, HostsBusy
  <2> QED
    BY <1>2, <2>5, <2>6, <2>8, <2>9 DEF GfsInv
<1>7. CASE call.rc = 0 /\ ~(job.i < Inodes - 1)
  <2>1. Return([ok |-> TRUE, read |-> NoFile], {}) /\ UNCHANGED <<mounted, inodes, hosts, stale>>
    BY <1>7 DEF InodesStored
  <2>2. job.i = Inodes - 1
    BY <1>3, <1>7, GfsAssumption DEF Slots
  <2>3. \A k \in Slots : DiskTable[k] = inodes[k]
    BY <1>3, <1>4, <1>7, <2>2, LastSlot
  <2>4. \A p : InUse(DiskTable, p) \subseteq InUse(inodes, p)
    BY <2>3 DEF InUse
  <2>5. (errors = 0 /\ mounted /\ hosts' # Unloaded) => hosts' = Contained(inodes, HostsPath)
    BY <1>2, <1>3, <2>1, Parts DEF HostsInv, HostsBusy
  <2> QED
    BY <1>2, <2>1, <2>4, <2>5, ReturnStep
<1> QED
  BY <1>5, <1>6, <1>7

LEMMA ReadStep ==
    ASSUME GfsInv, DataRead
    PROVE  GfsInv'
<1>1. Ended("rdata") /\ "rdata" \in Transferring /\ UNCHANGED <<mounted, inodes, stale>>
  BY DEF DataRead, Transferring
<1>2. /\ job.pc = "rdata" /\ UNCHANGED <<medium, errors, backend>> /\ backend # "none"
      /\ DiskTable' = DiskTable /\ DriverInv' /\ call' = Idle /\ call.val \in Sector
      /\ errors = 0 => call.rc = 0
  BY <1>1, EndedParts
<1> DEFINE got == Append(job.bytes, call.val)
           size == inodes[job.slot].size
           d == inode_data_lba(job.slot)
<1>3. /\ job.i \in Nat /\ mounted /\ job.op # "none" /\ job.path \in Paths
      /\ job.slot \in InUse(inodes, job.path) /\ job.slot = Lowest(InUse(inodes, job.path))
      /\ job.bytes \in Seq(Sector) /\ Len(job.bytes) = job.i /\ job.i < size
      /\ job.op = "lookup" => job.path = HostsPath
      /\ job.slot \in Slots /\ size \in 0 .. PerFile
  BY <1>2, Parts, TableFacts DEF JobInv, PlaceInv, OpInv, OnMounted, Jobs
<1>4. got \in Seq(Sector) /\ Len(got) = job.i + 1 /\ got = [k \in 1 .. job.i + 1 |-> IF k = job.i + 1 THEN call.val ELSE job.bytes[k]]
  BY <1>2, <1>3
<1>5. (job.op = "lookup" /\ errors = 0) => got = [k \in 1 .. job.i + 1 |-> medium[d + k - 1]]
  <2> SUFFICES ASSUME job.op = "lookup", errors = 0
               PROVE  got = [k \in 1 .. job.i + 1 |-> medium[d + k - 1]]
    OBVIOUS
  <2>1. job.bytes = [k \in 1 .. job.i |-> medium[d + k - 1]]
    BY <1>2, Parts DEF HostsInv
  <2>2. call.val = medium[d + job.i]
    <3>1. Wanted.type = "in" /\ Wanted.lba = d + job.i
      BY <1>1, <1>2, Parts, WantedFacts
    <3> QED
      BY <1>1, <1>2, <3>1, EndedParts
  <2>3. d \in Nat
    BY <1>3, GfsAssumption DEF inode_data_lba, Slots
  <2> HIDE DEF d, got
  <2>4. d + (job.i + 1) - 1 = d + job.i
    BY <1>3, <2>3
  <2>5. ASSUME NEW k \in 1 .. job.i + 1
        PROVE  (IF k = job.i + 1 THEN call.val ELSE job.bytes[k]) = medium[d + k - 1]
    <3>1. CASE k = job.i + 1
      BY <2>2, <2>4, <3>1
    <3>2. CASE k # job.i + 1
      <4>1. k \in 1 .. job.i
        BY <1>3, <3>2
      <4> QED
        BY <2>1, <3>2, <4>1
    <3> QED
      BY <3>1, <3>2
  <2> QED
    BY <1>4, <2>5
<1>6. CASE call.rc # 0
  <2>1. Return(Failed, unknown) /\ errors # 0
    BY <1>2, <1>6 DEF DataRead
  <2> QED
    BY <1>1, <1>2, <2>1, ReturnStep DEF BeingRemoved
<1>7. CASE call.rc = 0 /\ Len(got) < size
  <2>1. job' = [job EXCEPT !.i = @ + 1, !.bytes = got] /\ UNCHANGED <<hosts, answer, unknown>>
    BY <1>7 DEF DataRead
  <2>2. /\ job' \in Jobs /\ job'.pc = "rdata" /\ job'.i = job.i + 1 /\ job'.bytes = got /\ job'.slot = job.slot
        /\ job'.op = job.op /\ job'.path = job.path /\ job'.seed = job.seed
    <3> DEFINE n == job.i + 1
    <3>1. n \in Nat /\ job' = [job EXCEPT !.i = n, !.bytes = got]
      BY <1>3, <2>1
    <3> HIDE DEF n, got
    <3>2. /\ job' \in Jobs /\ job'.pc = job.pc /\ job'.i = n /\ job'.bytes = got /\ job'.slot = job.slot
          /\ job'.op = job.op /\ job'.path = job.path /\ job'.seed = job.seed
      BY <1>4, <3>1, Parts DEF Jobs
    <3> QED
      BY <1>2, <3>2 DEF n
  <2> HIDE DEF got, size, d
  <2>3. OpInv'
    BY <1>1, <1>2, <2>1, <2>2, Parts DEF OpInv, JobInv, Unmounting
  <2>4. PlaceInv'
    BY <1>1, <1>3, <1>4, <1>7, <2>2 DEF PlaceInv, size
  <2>5. JobInv'
    BY <1>1, <1>2, <2>2, <2>3, <2>4, Parts, JobFrame
  <2>6. DirectoryInv' /\ Contained(inodes, HostsPath)' = Contained(inodes, HostsPath)
    BY <1>1, <1>2, Parts, TablesFrame DEF BeingRemoved
  <2>7. TableInv'
    BY <1>1, <1>2, <2>2, Parts DEF TableInv
  <2>8. (job'.op = "lookup" /\ errors' = 0)
          => job'.bytes = [k \in 1 .. job'.i |-> medium'[inode_data_lba(job'.slot) + k - 1]]
    BY <1>2, <1>5, <2>2 DEF d
  <2>9. HostsInv'
    BY <1>1, <1>2, <2>1, <2>2, <2>6, <2>8, Parts DEF HostsInv, HostsBusy
  <2> QED
    BY <1>2, <2>5, <2>6, <2>7, <2>9 DEF GfsInv
<1>8. CASE call.rc = 0 /\ ~(Len(got) < size)
  <2>1. /\ Return([ok |-> TRUE, read |-> got], unknown)
        /\ hosts' = IF job.op = "lookup" THEN got ELSE hosts
    BY <1>8 DEF DataRead
  <2>2. size = job.i + 1
    BY <1>3, <1>4, <1>8, GfsAssumption
  <2>3. (job.op = "lookup" /\ errors = 0) => got = Contained(inodes, HostsPath)
    <3> SUFFICES ASSUME job.op = "lookup", errors = 0 PROVE got = Contained(inodes, HostsPath)
      OBVIOUS
    <3>1. Contained(inodes, HostsPath) = [k \in 1 .. size |-> medium[d + k - 1]]
      BY <1>3 DEF Contained
    <3> QED
      BY <1>5, <2>2, <3>1
  <2>4. (errors = 0 /\ mounted /\ hosts' # Unloaded) => hosts' = Contained(inodes, HostsPath)
    BY <1>2, <2>1, <2>3, Parts DEF HostsInv, HostsBusy
  <2> QED
    BY <1>1, <1>2, <2>1, <2>4, ReturnStep DEF BeingRemoved
<1> QED
  BY <1>6, <1>7, <1>8

LEMMA CrashStep ==
    ASSUME GfsInv, Crash
    PROVE  GfsInv'
<1>1. /\ DiskCrash /\ mounted' = FALSE /\ inodes' = Cleared /\ hosts' = Unloaded
      /\ job' = [NoJob EXCEPT !.pc = "off"] /\ stale' = stale
  BY DEF Crash
<1>2. /\ UNCHANGED <<medium, errors>> /\ backend' = "none" /\ call' = Idle /\ req' = NoRequest
      /\ posted' = 0 /\ work' = <<>> /\ unseen' = 0
  BY <1>1 DEF DiskCrash
<1>3. DriverInv'
  <2>1. call' \in Calls /\ call'.st = "idle"
    BY <1>2 DEF Calls, Idle
  <2>2. DiskTypes'
    BY <1>2, <2>1, Parts, NoRequestIsRequest DEF DiskTypes
  <2> QED
    BY <1>2, <2>1, <2>2 DEF DriverInv, OneChain
<1>4. job' \in Jobs /\ job'.pc = "off" /\ job'.op = "none" /\ job'.seed = 0
  BY <1>1, NoJobIsJob DEF Jobs, Unmounting
<1>5. OpInv' /\ PlaceInv'
  BY <1>1, <1>4 DEF OpInv, PlaceInv, OnMounted, FileOps
<1>6. JobInv'
  BY <1>1, <1>2, <1>4, <1>5, ClearedFacts, JobFrame DEF Transferring
<1>7. DiskTable' = DiskTable
  BY <1>2 DEF DiskTable
<1>8. TableInv'
  BY <1>1, <1>4, <1>7, ClearedFacts, Parts DEF TableInv
<1>9. DirectoryInv'
  BY <1>1, <1>7, ClearedFacts, Parts DEF DirectoryInv, OneInode
<1>10. HostsInv'
  BY <1>1, <1>2, <1>4 DEF HostsInv
<1> QED
  BY <1>3, <1>6, <1>8, <1>9, <1>10 DEF GfsInv

LEMMA NextInv ==
    ASSUME GfsInv, [Next]_vars
    PROVE  GfsInv'
<1>1. CASE Boot
  BY <1>1, BootStep
<1>2. CASE Call
  <2>1. Contents \subseteq Seq(Sector) /\ <<>> \in Seq(Sector)
    BY SectorAssumption
  <2>2. CASE WriteFile
    BY <2>1, <2>2, StartStep DEF WriteFile, FileOps
  <2>3. CASE ReadFile
    BY <2>1, <2>3, StartStep DEF ReadFile, FileOps
  <2>4. CASE DeleteFile
    BY <2>1, <2>4, StartStep DEF DeleteFile, FileOps
  <2>5. CASE hosts_load_once
    BY <2>5, LookupStep
  <2> QED
    BY <1>2, <2>2, <2>3, <2>4, <2>5 DEF Call
<1>3. CASE Step
  BY <1>3, MountStep, RunStep, SeedStep, TransferStep, SuperStep, InodesStep, FormatStep,
     DataStep, StoreStep, ReadStep DEF Step
<1>4. CASE Device
  BY <1>4, DeviceStep DEF Device
<1>5. CASE Crash
  BY <1>5, CrashStep
<1>6. CASE UNCHANGED vars
  <2>1. /\ UNCHANGED diskVars /\ UNCHANGED <<medium, errors, backend, call>>
        /\ UNCHANGED <<inodes, job, mounted, stale, hosts>>
    BY <1>6 DEF vars, diskVars, gfsVars
  <2>2. DriverInv'
    BY <2>1, Parts, DriverFrame
  <2>3. JobInv'
    <3>1. Wanted' = Wanted
      BY <2>1 DEF Wanted
    <3> QED
      BY <2>1, <3>1, Parts DEF JobInv, GfsTypes, TransferInv, OpInv, PlaceInv
  <2>4. /\ DirectoryInv' /\ DiskTable' = DiskTable
        /\ Contained(inodes, HostsPath)' = Contained(inodes, HostsPath)
    BY <2>1, Parts, TablesFrame DEF BeingRemoved, Removing
  <2>5. TableInv' /\ HostsInv'
    BY <2>1, <2>4, Parts DEF TableInv, HostsInv, HostsBusy
  <2> QED
    BY <2>2, <2>3, <2>4, <2>5 DEF GfsInv
<1> QED
  BY <1>1, <1>2, <1>3, <1>4, <1>5, <1>6 DEF Next

-----------------------------------------------------------------------------
(***************************************************************************)
(* The theorems                                                            *)
(***************************************************************************)
(* The state of GFS, its driver and the disk is consistent in every        *)
(* reachable state: at most one request of the driver is under way         *)
(* (virtio_blk.c, disk.c), and the table of inodes in memory and the one   *)
(* on the disk agree as far as the call in progress has come (gfs.c).      *)
THEOREM GfsInvariance == Spec => []GfsInv
<1>1. Init => GfsInv
  BY InitInv
<1>2. GfsInv /\ [Next]_vars => GfsInv'
  BY NextInv
<1> QED
  BY <1>1, <1>2, PTL DEF Spec

(* No name stands twice in the directory of gfs.c, whatever transfers fail *)
(* and whenever the machine goes down, unless a removal of that file has   *)
(* failed.                                                                 *)
THEOREM DirectoryUniqueHolds == Spec => []DirectoryUnique
<1>1. GfsInv => DirectoryUnique
  BY DEF GfsInv, DirectoryInv, OneInode, DirectoryUnique
<1> QED
  BY <1>1, GfsInvariance, PTL

(* As long as no transfer has failed, the hosts table of dns.c is what a   *)
(* program would read from /etc/hosts.                                     *)
THEOREM HostsCurrentHolds == Spec => []HostsCurrent
<1>1. GfsInv => HostsCurrent
  BY DEF GfsInv, HostsInv, HostsBusy, HostsCurrent, JobInv, OpInv
<1> QED
  BY <1>1, GfsInvariance, PTL

-----------------------------------------------------------------------------
(***************************************************************************)
(* The invariant                                                           *)
(***************************************************************************)
Formatted == medium[SuperLba] = SuperMark

(* A disk without a superblock has no files, and a disk is formatted only  *)
(* when it has none.                                                       *)
FormatInv ==
    /\ ~Formatted => /\ DiskTable = Cleared /\ ~mounted
                     /\ job.pc \notin {"inodes", "fmt_inodes", "fmt_data"}
    /\ job.pc \in {"fmt_super", "fmt_inodes", "fmt_data"} => DiskTable = Cleared

(* A superblock that is on the disk is missed once for every transfer that *)
(* failed, at most.                                                        *)
TriesInv ==
    /\ errors <= MaxErrors
    /\ (Formatted /\ job.pc = "super") =>
          /\ errors >= job.try - 1
          /\ (call.st = "wait" /\ (call.try > 1 \/ (unseen = 1 /\ req.status # "ok")))
                => errors >= job.try
          /\ (call.st = "done" /\ call.rc # 0) => errors >= job.try

(* The two tables have the same of a file.                                 *)
Synced(p) == /\ InUse(inodes, p) = InUse(DiskTable, p)
             /\ \A i \in InUse(inodes, p) : inodes[i] = DiskTable[i]

DataOnDisk(n) == \A k \in 1 .. n : medium[inode_data_lba(job.slot) + (k - 1)] = job.bytes[k]

(* What a change has done so far, and a read found.                        *)
PutInv ==
    (job.pc = "data" \/ (job.pc = "store" /\ ~Removing)) =>
      /\ job.bytes \in Contents /\ Len(job.bytes) \in 1 .. PerFile
      /\ job.slot # 0 /\ job.slot = Lowest(InUse(inodes, job.file))
      /\ inodes[job.slot] = [path |-> job.file, size |-> Len(job.bytes)]
      /\ DataOnDisk(IF job.pc = "data" THEN job.i ELSE Len(job.bytes))

ChangeInv ==
    /\ job.op = "write" => job.data \in Contents
    /\ PutInv
    /\ (job.pc = "store" /\ Removing /\ job.file \notin stale) => InUse(inodes, job.file) = {}
    /\ job.pc = "rdata" => DataOnDisk(job.i)

(* A file that is not being changed and not in doubt is on the disk as it  *)
(* is in memory.                                                           *)
SyncInv == mounted => \A p \in Paths \ (unknown \cup Changing) : Synced(p)

StoreInv == FormatInv /\ TriesInv /\ ChangeInv /\ SyncInv

Refines == [Abstract!Next]_(Abstract!vars)

-----------------------------------------------------------------------------
(***************************************************************************)
(* The mapping                                                             *)
(***************************************************************************)
LEMMA OnDiskTable ==
    ASSUME FormatInv
    PROVE  OnDisk = DiskTable
BY DEF FormatInv, Formatted, OnDisk, DiskTable

LEMMA SameFile ==
    ASSUME NEW tab, NEW tab2, NEW p, InUse(tab2, p) = InUse(tab, p),
           \A i \in InUse(tab, p) : tab2[i] = tab[i]
    PROVE  Contained(tab2, p) = Contained(tab, p)
<1>1. CASE InUse(tab, p) = {}
  BY <1>1 DEF Contained
<1>2. CASE InUse(tab, p) # {}
  <2>1. Lowest(InUse(tab, p)) \in InUse(tab, p)
    BY <1>2, TableFacts, LowestSlot
  <2> QED
    BY <1>2, <2>1 DEF Contained
<1> QED
  BY <1>1, <1>2

\* What a program reads of a file is what a program may have written.
LEMMA ContainedFacts ==
    ASSUME DiskTypes, NEW tab, Sound(tab), NEW p
    PROVE  Contained(tab, p) \in Readable \cup {NoFile}
<1>1. CASE InUse(tab, p) = {}
  BY <1>1 DEF Contained
<1>2. CASE InUse(tab, p) # {}
  <2> DEFINE slot == Lowest(InUse(tab, p))
             n == tab[slot].size
             d == inode_data_lba(slot)
  <2>1. slot \in InUse(tab, p) /\ slot \in Slots
    BY <1>2, TableFacts, LowestSlot
  <2>2. n \in 1 .. PerFile /\ PerFile \in Nat
    <3>1. Valid(tab[slot]) /\ n \in 0 .. PerFile
      BY <2>1, TableFacts
    <3>2. n # 0 /\ PerFile \in Nat
      BY <2>1, <3>1, GfsAssumption DEF Sound
    <3> HIDE DEF n
    <3> QED
      BY <3>1, <3>2
  <2>3. d \in Nat
    BY <2>1, GfsAssumption DEF inode_data_lba, Slots
  <2>4. Contained(tab, p) = [k \in 1 .. n |-> medium[d + k - 1]]
    BY <1>2 DEF Contained
  <2>5. ASSUME NEW k \in 1 .. n
        PROVE  medium[d + k - 1] \in Sector
    <3>1. k - 1 \in 0 .. PerFile - 1
      BY <2>2
    <3>2. d + (k - 1) \in Lba
      BY <2>1, <3>1, DataSectors
    <3> HIDE DEF d, n
    <3>3. d + (k - 1) = d + k - 1
      BY <2>2, <2>3
    <3> QED
      BY <3>2, <3>3 DEF DiskTypes
  <2> HIDE DEF d, n
  <2>6. Contained(tab, p) \in [1 .. n -> Sector]
    BY <2>4, <2>5
  <2> QED
    BY <2>2, <2>6 DEF Readable
<1> QED
  BY <1>1, <1>2

LEMMA QuietDisk ==
    ASSUME medium' = medium
    PROVE  /\ Formatted' = Formatted /\ DiskTable' = DiskTable
           /\ \A p : Contained(OnDisk, p)' = Contained(OnDisk, p)
           /\ \A p : Contained(DiskTable, p)' = Contained(DiskTable, p)
BY DEF Formatted, DiskTable, OnDisk, Contained

LEMMA StutterStep ==
    ASSUME UNCHANGED <<answer, stale, unknown>>, Changing' = Changing,
           Changing # {} => job'.file = job.file /\ job'.bytes = job.bytes,
           \A p \in Paths \ (unknown \cup Changing) : Contained(OnDisk, p)' = Contained(OnDisk, p)
    PROVE  Refines
<1>1. Files' = Files
  BY DEF Files
<1>2. Pending' = Pending
  BY DEF Pending, Removing
<1> QED
  BY <1>1, <1>2 DEF Refines, Abstract!vars

\* An operation fails that has not begun to change a file.
LEMMA FailStep ==
    ASSUME UNCHANGED <<medium, stale, unknown>>, Changing = {}, Changing' = {}, answer' = Failed
    PROVE  Refines
<1>1. Files' = Files
  BY QuietDisk DEF Files
<1>2. Pending = [path |-> NoFile, to |-> NoFile] /\ Pending' = Pending
  BY DEF Pending
<1> QED
  BY <1>1, <1>2 DEF Refines, Abstract!Next, Abstract!Fail, Abstract!NoChange, Abstract!Failed, Failed

\* The volume is mounted, or formatted.
LEMMA MountedStep ==
    ASSUME GfsInv, FormatInv, UNCHANGED <<medium, answer, stale>>, Changing = {}, Changing' = {},
           unknown' = {}
    PROVE  Refines
<1>1. \A p \in Paths : Files'[p] = Contained(OnDisk, p)
  BY QuietDisk DEF Files
<1>2. \A p \in Paths : Contained(OnDisk, p) \in Readable \cup {NoFile}
  BY Parts, OnDiskTable, ContainedFacts DEF TableInv
<1>3. Files' \in [Paths -> Readable \cup {NoFile}]
  BY <1>1, <1>2 DEF Files
<1>4. \A p \in Paths : Files[p] # Unknown => Files'[p] = Files[p]
  BY <1>1 DEF Files
<1>5. Pending = [path |-> NoFile, to |-> NoFile] /\ Pending' = Pending
  BY DEF Pending
<1> QED
  BY <1>3, <1>4, <1>5 DEF Refines, Abstract!Next, Abstract!Mount, Abstract!Resolve, Abstract!Settled, Abstract!NoChange

-----------------------------------------------------------------------------
(***************************************************************************)
(* Steps that leave the disk alone                                         *)
(***************************************************************************)
LEMMA RestStep ==
    ASSUME StoreInv, UNCHANGED <<medium, errors>>, call' = Idle,
           job'.pc \notin {"data", "store", "rdata"},
           job'.op = "write" => job'.data \in Contents,
           (Formatted /\ job'.pc = "super") => errors >= job'.try - 1,
           (mounted' \/ job'.pc \in {"inodes", "fmt_inodes", "fmt_data"}) => Formatted,
           job'.pc \in {"fmt_super", "fmt_inodes", "fmt_data"} => DiskTable = Cleared,
           mounted' => \A p \in Paths \ unknown' : Synced(p)'
    PROVE  StoreInv' /\ Changing' = {}
<1>1. Formatted' = Formatted /\ DiskTable' = DiskTable
  BY QuietDisk
<1>2. FormatInv'
  BY <1>1 DEF FormatInv, StoreInv
<1>3. TriesInv'
  BY <1>1 DEF TriesInv, StoreInv, Idle
<1>4. ChangeInv'
  BY DEF ChangeInv, PutInv
<1>5. Changing' = {}
  BY DEF Changing
<1>6. SyncInv'
  BY <1>5 DEF SyncInv
<1> QED
  BY <1>2, <1>3, <1>4, <1>5, <1>6 DEF StoreInv

LEMMA KeptSync ==
    ASSUME StoreInv, UNCHANGED <<medium, inodes>>, mounted, unknown \cup Changing \subseteq unknown'
    PROVE  \A p \in Paths \ unknown' : Synced(p)'
BY QuietDisk DEF StoreInv, SyncInv, Synced

\* The call returns, with what it has changed in doubt, or safe.
LEMMA ReturnStore ==
    ASSUME GfsInv, StoreInv, NEW ans, NEW doubt, Return(ans, doubt), job.pc \notin Unmounting,
           UNCHANGED <<medium, errors, mounted>>, call' = Idle,
           mounted => \A p \in Paths \ doubt : Synced(p)'
    PROVE  StoreInv' /\ Changing' = {} /\ answer' = ans /\ unknown' = doubt
<1>1. answer' = ans /\ unknown' = doubt
  BY DEF Return
<1>2. /\ job'.pc \in {"seed", "idle"}
      /\ job'.op = "write" => job'.data = job.data /\ job.op = "write"
  <2>1. CASE job.seed > 0
    <3> DEFINE n == job.seed + 1
    <3>1. job' = [job EXCEPT !.pc = "seed", !.seed = n]
      BY <2>1 DEF Return
    <3> HIDE DEF n
    <3> QED
      BY <3>1, Parts DEF Jobs
  <2>2. CASE ~(job.seed > 0)
    BY <2>2, NoJobIsJob DEF Return
  <2> QED
    BY <2>1, <2>2
<1>3. job'.op = "write" => job'.data \in Contents
  BY <1>2 DEF StoreInv, ChangeInv
<1>4. mounted' => Formatted
  BY DEF StoreInv, FormatInv
<1>5. StoreInv' /\ Changing' = {}
  BY <1>1, <1>2, <1>3, <1>4, RestStep
<1> QED
  BY <1>1, <1>5

LEMMA StartStore ==
    ASSUME GfsInv, StoreInv, NEW op \in FileOps, NEW p \in Paths, NEW d \in Seq(Sector),
           op = "write" => d \in Contents, Start(op, p, d)
    PROVE  StoreInv' /\ Refines
<1>1. /\ job.pc = "idle" /\ UNCHANGED <<diskVars, mounted, inodes, hosts, unknown, stale>>
      /\ UNCHANGED <<medium, errors, call>> /\ answer' = Failed
  BY DEF Start, diskVars
<1>2. job'.pc \in {"run", "mount"} /\ job'.op = op /\ job'.data = d
  BY DEF Start, NoJob
<1>3. call' = Idle /\ Changing = {}
  BY <1>1, Parts DEF Transferring, Changing
<1>4. mounted' => Formatted
  BY <1>1 DEF StoreInv, FormatInv
<1>5. mounted' => \A q \in Paths \ unknown' : Synced(q)'
  BY <1>1, <1>3, KeptSync
<1>6. StoreInv' /\ Changing' = {}
  BY <1>1, <1>2, <1>3, <1>4, <1>5, RestStep
<1> QED
  BY <1>1, <1>3, <1>6, FailStep

LEMMA LookupStore ==
    ASSUME GfsInv, StoreInv, hosts_load_once
    PROVE  StoreInv' /\ Refines
<1>1. /\ job.pc = "idle" /\ UNCHANGED <<diskVars, mounted, inodes, unknown, stale>>
      /\ UNCHANGED <<medium, errors, call>> /\ answer' = Failed
  BY DEF hosts_load_once, diskVars
<1>2. job'.pc \in {"run", "idle"} /\ (job'.op = "write" => job'.data \in Contents)
  BY <1>1 DEF hosts_load_once, NoJob, StoreInv, ChangeInv
<1>3. call' = Idle /\ Changing = {}
  BY <1>1, Parts DEF Transferring, Changing
<1>4. mounted' => Formatted
  BY <1>1 DEF StoreInv, FormatInv
<1>5. mounted' => \A q \in Paths \ unknown' : Synced(q)'
  BY <1>1, <1>3, KeptSync
<1>6. StoreInv' /\ Changing' = {}
  BY <1>1, <1>2, <1>3, <1>4, <1>5, RestStep
<1> QED
  BY <1>1, <1>3, <1>6, FailStep

LEMMA BootStore ==
    ASSUME GfsInv, StoreInv, Boot
    PROVE  StoreInv' /\ Refines
<1>1. /\ job.pc = "off" /\ ~mounted /\ UNCHANGED <<mounted, answer, unknown, stale>>
      /\ UNCHANGED <<medium, errors, call>> /\ call = Idle
  BY Parts DEF Boot, JobInv, OpInv, Unmounting, Transferring, disk_init, diskVars
<1>2. job'.pc = "mount" /\ job'.op = "boot"
  BY DEF Boot, NoJob
<1>3. StoreInv' /\ Changing' = {}
  BY <1>1, <1>2, RestStep
<1>4. Changing = {}
  BY <1>1 DEF Changing
<1> QED
  BY <1>1, <1>3, <1>4, QuietDisk, StutterStep

LEMMA MountStore ==
    ASSUME GfsInv, StoreInv, gfs_init
    PROVE  StoreInv' /\ Refines
<1>1. /\ job.pc = "mount" /\ ~mounted' /\ UNCHANGED <<answer, unknown, stale>>
      /\ UNCHANGED <<medium, errors, call>> /\ call = Idle
  BY Parts DEF gfs_init, Transferring, diskVars
<1>2. /\ job'.pc \in {"run", "super"} /\ job'.op = job.op /\ job'.data = job.data /\ job'.try = 1
  BY Parts DEF gfs_init, Jobs
<1>3. errors >= 1 - 1
  BY Parts DEF DiskTypes
<1>4. job'.op = "write" => job'.data \in Contents
  BY <1>2 DEF StoreInv, ChangeInv
<1>5. StoreInv' /\ Changing' = {}
  BY <1>1, <1>2, <1>3, <1>4, RestStep
<1>6. Changing = {}
  BY <1>1 DEF Changing
<1> QED
  BY <1>1, <1>5, <1>6, QuietDisk, StutterStep

LEMMA RefuseStore ==
    ASSUME GfsInv, StoreInv, Refuse, UNCHANGED <<diskVars, mounted, stale>>, job.pc \in {"run", "seed"}
    PROVE  StoreInv' /\ Refines
<1>1. /\ Return(Failed, unknown) /\ UNCHANGED <<medium, errors, inodes, mounted, stale, call>>
      /\ job.pc \notin Unmounting
  BY DEF Refuse, diskVars, Unmounting
<1>2. call' = Idle /\ Changing = {}
  BY <1>1, Parts DEF Transferring, Changing
<1>3. mounted => \A p \in Paths \ unknown : Synced(p)'
  <2>1. mounted => \A p \in Paths \ unknown : Synced(p)
    BY <1>2 DEF StoreInv, SyncInv
  <2> QED
    BY <1>1, <2>1, QuietDisk DEF Synced
<1>4. StoreInv' /\ Changing' = {} /\ answer' = Failed /\ unknown' = unknown
  BY <1>1, <1>2, <1>3, ReturnStore
<1> QED
  BY <1>1, <1>2, <1>4, FailStep

-----------------------------------------------------------------------------
(***************************************************************************)
(* The first part of a change, and of a read                               *)
(***************************************************************************)
LEMMA PlaceStep ==
    ASSUME StoreInv, UNCHANGED <<medium, errors, mounted>>, mounted, call' = Idle,
           job'.pc \in {"data", "store", "rdata"}, ChangeInv', SyncInv'
    PROVE  StoreInv'
<1>1. Formatted' = Formatted /\ Formatted
  BY QuietDisk DEF StoreInv, FormatInv
<1>2. FormatInv' /\ TriesInv'
  BY <1>1 DEF FormatInv, TriesInv, StoreInv
<1> QED
  BY <1>2 DEF StoreInv

LEMMA BeginStep ==
    ASSUME NEW p \in Paths, NEW c \in Contents \cup {NoFile},
           Changing = {}, Changing' = {p}, job'.file = p,
           c = IF job'.bytes = <<>> THEN NoFile ELSE job'.bytes,
           UNCHANGED <<medium, unknown, answer, stale>>
    PROVE  Refines
<1>1. Pending = [path |-> NoFile, to |-> NoFile] /\ Pending' = [path |-> p, to |-> c]
  BY DEF Pending, Removing
<1>2. Files' = [Files EXCEPT ![p] = Unknown]
  BY QuietDisk DEF Files
<1> QED
  BY <1>1, <1>2 DEF Refines, Abstract!Next, Abstract!Begin, Abstract!NoChange

\* The two tables keep the same of every file but the one that is changed.
LEMMA ChangedSync ==
    ASSUME StoreInv, mounted, Changing = {}, NEW p, Changing' = {p}, UNCHANGED <<medium, unknown>>,
           \A q : q # p => InUse(inodes', q) = InUse(inodes, q),
           \A q : q # p => \A s \in InUse(inodes, q) : inodes'[s] = inodes[s]
    PROVE  SyncInv'
BY QuietDisk DEF StoreInv, SyncInv, Synced

LEMMA BeginWriteStore ==
    ASSUME GfsInv, StoreInv, NEW p \in Paths, NEW d \in Contents, BeginWrite(p, d), mounted,
           job.pc \in {"run", "seed"}, UNCHANGED <<diskVars, mounted, stale>>
    PROVE  StoreInv' /\ Refines
<1>0. d \in Seq(Sector)
  BY SectorAssumption
<1>1. CASE Len(d) \notin 1 .. PerFile \/ find_inode(p) \cup find_free_inode = {}
  BY <1>1, RefuseStore DEF BeginWrite
<1>2. CASE Len(d) \in 1 .. PerFile /\ find_inode(p) \cup find_free_inode # {}
  <2> DEFINE found == IF find_inode(p) # {} THEN find_inode(p) ELSE find_free_inode
             slot == Lowest(found)
             new == [path |-> p, size |-> Len(d)]
  <2>1. /\ inodes' = [inodes EXCEPT ![slot] = new]
        /\ job' = [job EXCEPT !.pc = "data", !.file = p, !.bytes = d, !.slot = slot, !.i = 0]
        /\ UNCHANGED <<answer, unknown>>
    BY <1>2 DEF BeginWrite
  <2>2. found # {} /\ found \subseteq Slots
    BY <1>2, TableFacts DEF find_inode, find_free_inode
  <2>3. slot \in found /\ slot \in Slots
    BY <2>2, LowestSlot
  <2>4. slot # 0
    <3>1. \A s \in find_inode(p) : s # 0
      BY TableFacts, Parts DEF find_inode, TableInv, Sound
    <3> QED
      BY <2>3, <3>1 DEF find_free_inode
  <2>5. slot \in find_inode(p) \/ (find_inode(p) = {} /\ slot \in find_free_inode)
    BY <2>3
  <2>6. InUse(inodes', p) = InUse(inodes, p) \cup {slot}
    <3> HIDE DEF slot
    <3>1. Valid(new) /\ new.path = p
      BY <1>2, GfsAssumption DEF Valid
    <3>2. \A s \in Slots : inodes'[s] = IF s = slot THEN new ELSE inodes[s]
      BY <2>1, Parts
    <3> HIDE DEF new
    <3> QED
      BY <2>3, <3>1, <3>2 DEF InUse
  <2>7. slot = Lowest(InUse(inodes', p))
    <3>1. CASE find_inode(p) # {}
      <4>1. InUse(inodes', p) = find_inode(p)
        BY <2>3, <2>6, <3>1 DEF find_inode
      <4> QED
        BY <3>1, <4>1
    <3>2. CASE find_inode(p) = {}
      <4>1. InUse(inodes', p) = {slot}
        BY <2>6, <3>2 DEF find_inode
      <4> HIDE DEF slot
      <4>2. Lowest({slot}) \in {slot}
        BY <2>3, LowestSlot
      <4> QED
        BY <4>1, <4>2
    <3> QED
      BY <3>1, <3>2
  <2> HIDE DEF slot
  <2>8. /\ job' \in Jobs /\ job'.pc = "data" /\ job'.file = p /\ job'.bytes = d /\ job'.slot = slot
        /\ job'.i = 0 /\ job'.op = job.op /\ job'.data = job.data
    BY <1>0, <2>1, <2>3, Parts DEF Jobs, OnMounted
  <2>9. UNCHANGED <<medium, errors, call, mounted, stale>>
    BY DEF diskVars
  <2>10. call' = Idle /\ Changing = {} /\ Changing' = {p}
    BY <2>8, <2>9, Parts DEF Transferring, Changing
  <2>11. /\ inodes'[slot] = new
         /\ \A q : q # p => InUse(inodes', q) = InUse(inodes, q)
         /\ \A q : q # p => \A s \in InUse(inodes, q) : inodes'[s] = inodes[s]
    BY <1>2, <2>1, <2>3, <2>4, <2>5, <2>8, <2>9, PutInode
  <2>12. SyncInv'
    BY <2>1, <2>9, <2>10, <2>11, ChangedSync
  <2>13. ChangeInv'
    <3>1. 1 .. job'.i = {}
      BY <2>8
    <3>2. PutInv'
      BY <1>2, <2>4, <2>7, <2>8, <2>11, <3>1 DEF PutInv, DataOnDisk
    <3> QED
      BY <2>8, <3>2 DEF ChangeInv, StoreInv
  <2>14. StoreInv'
    BY <2>8, <2>9, <2>10, <2>12, <2>13, PlaceStep
  <2>15. Refines
    <3>1. job'.bytes # <<>>
      BY <1>2, <2>8
    <3> QED
      BY <2>1, <2>8, <2>9, <2>10, <3>1, BeginStep
  <2> QED
    BY <2>14, <2>15
<1> QED
  BY <1>1, <1>2

LEMMA BeginDeleteStore ==
    ASSUME GfsInv, StoreInv, mounted, job.pc = "run", job.op = "delete", find_inode(job.path) # {},
           inodes' = [inodes EXCEPT ![Lowest(find_inode(job.path))] = NoInode],
           job' = [job EXCEPT !.pc = "store", !.file = job.path, !.bytes = <<>>, !.i = 0],
           UNCHANGED <<diskVars, mounted, hosts, stale, answer, unknown>>
    PROVE  StoreInv' /\ Refines
<1> DEFINE slot == Lowest(find_inode(job.path))
           p == job.path
<1>1. slot \in InUse(inodes, p) /\ slot \in Slots
  BY TableFacts, LowestSlot DEF find_inode
<1>2. p \in Paths
  BY Parts DEF JobInv, OpInv, FileOps
<1>3. inodes' = [inodes EXCEPT ![slot] = NoInode]
  OBVIOUS
<1>4. UNCHANGED <<medium, errors, call, mounted, stale, unknown, answer>>
  BY DEF diskVars
<1> HIDE DEF slot
<1>5. \A s \in Slots : inodes'[s] = IF s = slot THEN NoInode ELSE inodes[s]
  BY <1>1, <1>3, Parts
<1>6. /\ job'.pc = "store" /\ job'.file = p /\ job'.bytes = <<>>
      /\ job'.op = "delete"
  BY Parts DEF Jobs
<1> HIDE DEF p
<1>7. call' = Idle /\ Changing = {} /\ Changing' = {p}
  BY <1>4, <1>6, Parts DEF Transferring, Changing
<1>8. \A q : InUse(inodes', q) = InUse(inodes, q) \ {slot}
  BY <1>1, <1>5, ClearedFacts DEF InUse
<1>9. ASSUME NEW q, q # p
      PROVE  InUse(inodes', q) = InUse(inodes, q) /\ \A s \in InUse(inodes, q) : inodes'[s] = inodes[s]
  <2>1. slot \notin InUse(inodes, q)
    BY <1>1, <1>9 DEF InUse
  <2>2. InUse(inodes', q) = InUse(inodes, q)
    BY <1>8, <2>1
  <2> QED
    BY <1>5, <2>1, <2>2, TableFacts
<1>10. SyncInv'
  BY <1>4, <1>7, <1>9, ChangedSync
<1>11. p \notin stale => InUse(inodes', p) = {}
  <2>1. p \notin stale => OneInode(p)
    BY <1>2, Parts DEF DirectoryInv
  <2> QED
    BY <1>1, <1>8, <2>1 DEF OneInode
<1>12. ChangeInv'
  BY <1>4, <1>6, <1>11 DEF ChangeInv, PutInv, Removing
<1>13. StoreInv'
  BY <1>4, <1>6, <1>7, <1>10, <1>12, PlaceStep
<1>14. Refines
  BY <1>2, <1>4, <1>6, <1>7, BeginStep
<1> QED
  BY <1>13, <1>14

LEMMA BeginReadStore ==
    ASSUME GfsInv, StoreInv, mounted, job.pc = "run", job.op \in {"read", "lookup"}, find_inode(job.path) # {},
           job' = [job EXCEPT !.pc = "rdata", !.slot = Lowest(find_inode(job.path)), !.i = 0, !.bytes = <<>>],
           UNCHANGED <<diskVars, mounted, inodes, hosts, stale, answer, unknown>>
    PROVE  StoreInv' /\ Refines
<1>1. UNCHANGED <<medium, errors, call, mounted, stale, unknown, answer, inodes>>
  BY DEF diskVars
<1>2. job'.pc = "rdata" /\ job'.i = 0 /\ job'.op = job.op
  BY Parts DEF Jobs
<1>3. call' = Idle /\ Changing = {} /\ Changing' = {}
  BY <1>1, <1>2, Parts DEF Transferring, Changing
<1>4. SyncInv'
  BY <1>1, <1>3, KeptSync DEF SyncInv
<1>5. ChangeInv'
  <2>1. 1 .. job'.i = {}
    BY <1>2
  <2> QED
    BY <1>2, <2>1 DEF ChangeInv, PutInv, DataOnDisk
<1>6. StoreInv'
  BY <1>1, <1>2, <1>3, <1>4, <1>5, PlaceStep
<1> QED
  BY <1>1, <1>3, <1>6, QuietDisk, StutterStep

LEMMA RunStore ==
    ASSUME GfsInv, StoreInv, Run
    PROVE  StoreInv' /\ Refines
<1>1. /\ job.pc = "run" /\ UNCHANGED <<diskVars, mounted, hosts, stale>> /\ job.op \in {"boot"} \cup FileOps
      /\ UNCHANGED <<medium, errors, call>>
  BY Parts DEF Run, Jobs, JobInv, OpInv, diskVars
<1>2. CASE job.op = "boot"
  <2>1. job' = NoJob /\ UNCHANGED <<inodes, answer, unknown>>
    BY <1>2 DEF Run
  <2>2. call' = Idle /\ Changing = {}
    BY <1>1, Parts DEF Transferring, Changing
  <2>3. mounted' => Formatted /\ \A q \in Paths \ unknown' : Synced(q)'
    BY <1>1, <2>1, <2>2, KeptSync DEF StoreInv, FormatInv
  <2>4. StoreInv' /\ Changing' = {}
    BY <1>1, <2>1, <2>2, <2>3, NoJobIsJob, RestStep
  <2> QED
    BY <1>1, <2>1, <2>2, <2>4, QuietDisk, StutterStep
<1>3. CASE job.op # "boot" /\ ~mounted
  <2>1. Refuse
    BY <1>3 DEF Run
  <2> QED
    BY <1>1, <2>1, RefuseStore
<1>4. CASE job.op = "write" /\ mounted
  <2>1. BeginWrite(job.path, job.data)
    BY <1>4 DEF Run
  <2>2. job.path \in Paths /\ job.data \in Contents
    BY <1>4, Parts DEF JobInv, OpInv, FileOps, StoreInv, ChangeInv
  <2> QED
    BY <1>1, <1>4, <2>1, <2>2, BeginWriteStore
<1>5. CASE job.op \in {"read", "lookup", "delete"} /\ mounted /\ find_inode(job.path) = {}
  <2>1. Refuse
    BY <1>5 DEF Run
  <2> QED
    BY <1>1, <2>1, RefuseStore
<1>6. CASE job.op = "delete" /\ mounted /\ find_inode(job.path) # {}
  <2>1. /\ inodes' = [inodes EXCEPT ![Lowest(find_inode(job.path))] = NoInode]
        /\ job' = [job EXCEPT !.pc = "store", !.file = job.path, !.bytes = <<>>, !.i = 0]
        /\ UNCHANGED <<answer, unknown>>
    BY <1>6 DEF Run
  <2> QED
    BY <1>1, <1>6, <2>1, BeginDeleteStore
<1>7. CASE job.op \in {"read", "lookup"} /\ mounted /\ find_inode(job.path) # {}
  <2>1. /\ job' = [job EXCEPT !.pc = "rdata", !.slot = Lowest(find_inode(job.path)), !.i = 0, !.bytes = <<>>]
        /\ UNCHANGED <<inodes, answer, unknown>>
    BY <1>7 DEF Run
  <2> QED
    BY <1>1, <1>7, <2>1, BeginReadStore
<1> QED
  BY <1>1, <1>2, <1>3, <1>4, <1>5, <1>6, <1>7, Parts DEF FileOps

LEMMA SeedStore ==
    ASSUME GfsInv, StoreInv, Seed
    PROVE  StoreInv' /\ Refines
<1>1. /\ job.pc = "seed" /\ UNCHANGED <<diskVars, mounted, hosts, stale>>
      /\ mounted /\ job.seed > 0 /\ job.seed \in Nat /\ UNCHANGED <<medium, errors, call>>
  BY Parts DEF Seed, JobInv, OpInv, OnMounted, Jobs, diskVars
<1>2. CASE job.seed <= Len(Defaults) /\ find_inode(Defaults[job.seed].path) = {}
  <2> DEFINE f == Defaults[job.seed]
  <2>1. BeginWrite(f.path, f.data)
    BY <1>1, <1>2, SectorAssumption DEF Seed
  <2>2. f \in [path : Paths, data : Contents]
    <3> DEFINE R == [path : Paths, data : Contents]
    <3>1. Defaults \in Seq(R)
      BY SectorAssumption
    <3> HIDE DEF R
    <3>2. Len(Defaults) \in Nat
      BY <3>1
    <3>3. job.seed \in 1 .. Len(Defaults)
      BY <1>1, <1>2, <3>2
    <3>4. Defaults[job.seed] \in R
      BY <3>1, <3>3
    <3> QED
      BY <3>4 DEF R
  <2>3. f.path \in Paths /\ f.data \in Contents
    BY <2>2
  <2> QED
    BY <1>1, <2>1, <2>3, BeginWriteStore
<1>3. CASE ~(job.seed <= Len(Defaults) /\ find_inode(Defaults[job.seed].path) = {})
  <2>1. /\ \/ job' = [job EXCEPT !.pc = "run", !.seed = 0]
           \/ job' = [job EXCEPT !.seed = job.seed + 1]
        /\ UNCHANGED <<inodes, answer, unknown>>
    BY <1>1, <1>3, SectorAssumption DEF Seed
  <2>2. job'.pc \in {"run", "seed"} /\ job'.op = job.op /\ job'.data = job.data
    BY <1>1, <2>1, Parts DEF Jobs
  <2>3. call' = Idle /\ Changing = {}
    BY <1>1, Parts DEF Transferring, Changing
  <2>4. mounted' => Formatted /\ \A q \in Paths \ unknown' : Synced(q)'
    BY <1>1, <2>1, <2>3, KeptSync DEF StoreInv, FormatInv
  <2>5. job'.op = "write" => job'.data \in Contents
    BY <2>2 DEF StoreInv, ChangeInv
  <2>6. StoreInv' /\ Changing' = {}
    BY <1>1, <2>1, <2>2, <2>3, <2>4, <2>5, RestStep
  <2> QED
    BY <1>1, <2>1, <2>3, <2>6, QuietDisk, StutterStep
<1> QED
  BY <1>2, <1>3

-----------------------------------------------------------------------------
(***************************************************************************)
(* The ends of transfers: mounting                                         *)
(***************************************************************************)
LEMMA DataKept ==
    ASSUME job \in Jobs, NEW pc, GoTo(pc) \/ NextSector
    PROVE  job'.data = job.data /\ job'.op = job.op
BY DEF GoTo, NextSector, Jobs

\* The superblock is given up only on a disk that has none.
LEMMA SuperStore ==
    ASSUME MaxErrors < MountTries, GfsInv, StoreInv, SuperRead
    PROVE  StoreInv' /\ Refines
<1>1. Ended("super") /\ UNCHANGED <<mounted, inodes, answer, unknown, stale>> /\ "super" \in Transferring
  BY DEF SuperRead, Transferring
<1>2. /\ job.pc = "super" /\ UNCHANGED <<medium, errors>> /\ call.st = "done" /\ call' = Idle
      /\ call.rc = 0 => call.val = medium[SuperLba]
  <2>1. Wanted.type = "in" /\ Wanted.lba = SuperLba
    BY <1>1, Parts, EndedParts, WantedFacts
  <2> QED
    BY <1>1, <2>1, EndedParts
<1>3. ~mounted' /\ Changing = {}
  BY <1>1, <1>2, Parts DEF JobInv, OpInv, Unmounting, Changing
<1>4. Formatted /\ ~(call.rc = 0 /\ call.val = SuperMark) => errors >= job.try
  BY <1>2 DEF Formatted, StoreInv, TriesInv
<1>5. job.try \in Nat /\ errors \in Nat /\ MountTries \in Nat /\ errors <= MaxErrors /\ MaxErrors \in Nat
  BY Parts, GfsAssumption, DiskAssumption DEF DiskTypes, Jobs, StoreInv, TriesInv
<1>6. /\ job'.pc \in {"super", "inodes", "fmt_super"} /\ job'.op = job.op /\ job'.data = job.data
      /\ job'.pc = "inodes" => Formatted
      /\ (Formatted /\ job'.pc = "super") => errors >= job'.try - 1
      /\ job'.pc = "fmt_super" => ~Formatted
  <2>1. CASE call.rc = 0 /\ call.val = SuperMark
    <3> DEFINE z == 0
    <3>1. job' = [job EXCEPT !.pc = "inodes", !.i = z, !.try = 1]
      BY <2>1 DEF SuperRead
    <3> HIDE DEF z
    <3> QED
      BY <1>2, <2>1, <3>1, Parts DEF Jobs, Formatted
  <2>2. CASE ~(call.rc = 0 /\ call.val = SuperMark) /\ job.try < MountTries
    <3> DEFINE n == job.try + 1
    <3>1. job' = [job EXCEPT !.try = n]
      BY <2>2 DEF SuperRead
    <3>2. Formatted => errors >= n - 1
      BY <1>4, <1>5, <2>2
    <3> HIDE DEF n
    <3> QED
      BY <1>2, <3>1, <3>2, Parts DEF Jobs
  <2>3. CASE ~(call.rc = 0 /\ call.val = SuperMark) /\ ~(job.try < MountTries)
    <3>1. job' = [job EXCEPT !.pc = "fmt_super"]
      BY <2>3 DEF SuperRead
    <3>2. ~Formatted
      BY <1>4, <1>5, <2>3
    <3> QED
      BY <3>1, <3>2, Parts DEF Jobs
  <2> QED
    BY <2>1, <2>2, <2>3
<1>7. /\ job'.op = "write" => job'.data \in Contents
      /\ job'.pc \in {"fmt_super", "fmt_inodes", "fmt_data"} => DiskTable = Cleared
  BY <1>6 DEF StoreInv, ChangeInv, FormatInv
<1>8. StoreInv' /\ Changing' = {}
  BY <1>2, <1>3, <1>6, <1>7, RestStep
<1> QED
  BY <1>1, <1>2, <1>3, <1>8, QuietDisk, StutterStep

LEMMA InodesStore ==
    ASSUME GfsInv, StoreInv, InodesRead
    PROVE  StoreInv' /\ Refines
<1>1. Ended("inodes") /\ UNCHANGED <<answer, stale>> /\ "inodes" \in Transferring
  BY DEF InodesRead, Transferring
<1>2. /\ job.pc = "inodes" /\ UNCHANGED <<medium, errors>> /\ DiskTable' = DiskTable /\ call' = Idle
  BY <1>1, EndedParts
<1>3. /\ job.i \in Slots /\ ~mounted /\ Changing = {} /\ Formatted
      /\ \A k \in 0 .. job.i - 1 : inodes[k] = DiskTable[k]
      /\ job.op = "write" => job.data \in Contents
  BY <1>2, Parts DEF JobInv, PlaceInv, OpInv, TableInv, Unmounting, Changing, StoreInv, FormatInv, ChangeInv
<1>4. CASE call.rc = 0 /\ job.i = Inodes - 1
  <2>1. inodes' = [inodes EXCEPT ![job.i] = call.val] /\ GoTo("run") /\ mounted' = TRUE /\ unknown' = {}
    BY <1>4 DEF InodesRead
  <2>2. call.val = DiskTable[job.i]
    <3>1. Wanted.type = "in" /\ Wanted.lba = InodeLba(job.i)
      BY <1>1, <1>2, Parts, WantedFacts
    <3>2. call.val = medium[InodeLba(job.i)]
      BY <1>1, <1>4, <3>1, EndedParts
    <3> QED
      BY <1>3, <3>2, Parts, DiskTableFacts
  <2>3. \A k \in Slots : inodes'[k] = DiskTable[k]
    BY <1>3, <1>4, <2>1, <2>2, Parts, LastSlot
  <2>4. \A p \in Paths : Synced(p)'
    BY <1>2, <2>3 DEF Synced, InUse
  <2>5. job'.pc = "run" /\ (job'.op = "write" => job'.data \in Contents)
    <3>1. job'.pc = "run"
      BY <2>1, Parts DEF GoTo, Jobs
    <3> QED
      BY <1>3, <2>1, <3>1, Parts, DataKept
  <2>6. StoreInv' /\ Changing' = {}
    BY <1>2, <1>3, <2>4, <2>5, RestStep
  <2> QED
    BY <1>1, <1>2, <1>3, <2>1, <2>6, MountedStep DEF StoreInv
<1>5. CASE ~(call.rc = 0 /\ job.i = Inodes - 1)
  <2>1. /\ UNCHANGED <<mounted, unknown>>
        /\ \/ job' = [job EXCEPT !.i = 0, !.try = job.try + 1]
           \/ job' = [job EXCEPT !.pc = "run"]
           \/ NextSector
    BY <1>5 DEF InodesRead
  <2>2. job'.pc \in {"inodes", "run"} /\ job'.op = job.op /\ job'.data = job.data
    <3>1. CASE job' = [job EXCEPT !.i = 0, !.try = job.try + 1]
      <4> DEFINE n == job.try + 1
                 z == 0
      <4>1. job' = [job EXCEPT !.i = z, !.try = n]
        BY <3>1
      <4> HIDE DEF n, z
      <4> QED
        BY <1>2, <4>1, Parts DEF Jobs
    <3>2. CASE job' = [job EXCEPT !.pc = "run"]
      BY <3>2, Parts DEF Jobs
    <3>3. CASE NextSector
      BY <1>2, <3>3, Parts, NextFacts, DataKept
    <3> QED
      BY <2>1, <3>1, <3>2, <3>3
  <2>3. StoreInv' /\ Changing' = {}
    BY <1>2, <1>3, <2>1, <2>2, RestStep
  <2> QED
    BY <1>1, <1>2, <1>3, <2>1, <2>3, QuietDisk, StutterStep
<1> QED
  BY <1>4, <1>5

LEMMA FormatStore ==
    ASSUME GfsInv, StoreInv, FormatWritten
    PROVE  StoreInv' /\ Refines
<1>1. PICK pc \in {"fmt_super", "fmt_inodes", "fmt_data"} : Ended(pc)
  BY DEF FormatWritten
<1>2. pc \in Transferring /\ UNCHANGED <<answer, stale>>
  BY DEF FormatWritten, Transferring
<1>3. /\ job.pc = pc /\ UNCHANGED <<medium, errors>> /\ DiskTable' = DiskTable /\ call' = Idle
  BY <1>1, <1>2, EndedParts
<1>4. /\ ~mounted /\ Changing = {} /\ DiskTable = Cleared
      /\ pc # "fmt_super" => Formatted
      /\ job.op = "write" => job.data \in Contents
  BY <1>3, Parts DEF JobInv, OpInv, Unmounting, Changing, StoreInv, FormatInv, ChangeInv
<1>5. call.rc = 0 /\ pc = "fmt_super" => Formatted
  <2> HAVE call.rc = 0 /\ pc = "fmt_super"
  <2>1. Wanted = Write(SuperLba, SuperMark)
    BY <1>2, <1>3, Parts, WantedFacts
  <2>2. medium[SuperLba] = SuperMark
    BY <1>1, <1>2, <2>1, EndedParts DEF Write
  <2> QED
    BY <2>2 DEF Formatted
<1>6. CASE call.rc = 0 /\ pc = "fmt_data" /\ job.i = Inodes * PerFile - 1
  <2>1. job' = [job EXCEPT !.pc = "seed", !.seed = 1] /\ mounted' = TRUE /\ unknown' = {} /\ inodes' = inodes
    BY <1>3, <1>6 DEF FormatWritten
  <2>2. job'.pc = "seed" /\ job'.op = job.op /\ job'.data = job.data
    BY <2>1, Parts DEF Jobs
  <2>3. inodes = Cleared
    BY <1>3, <1>6, Parts DEF TableInv
  <2>4. \A p \in Paths : Synced(p)'
    BY <1>3, <1>4, <2>1, <2>3 DEF Synced
  <2>5. StoreInv' /\ Changing' = {}
    BY <1>3, <1>4, <1>6, <2>2, <2>4, RestStep
  <2> QED
    BY <1>2, <1>3, <1>4, <2>1, <2>5, MountedStep DEF StoreInv
<1>7. CASE ~(call.rc = 0 /\ pc = "fmt_data" /\ job.i = Inodes * PerFile - 1)
  <2>1. /\ UNCHANGED <<mounted, unknown>>
        /\ \/ GoTo("run")
           \/ GoTo("fmt_inodes") /\ call.rc = 0
           \/ GoTo("fmt_data") /\ pc = "fmt_inodes"
           \/ NextSector /\ pc # "fmt_super"
    BY <1>3, <1>7 DEF FormatWritten
  <2>2. /\ job'.pc \in {"run", "fmt_inodes", "fmt_data"}
        /\ job'.pc \in {"fmt_inodes", "fmt_data"} => Formatted
        /\ job'.op = job.op /\ job'.data = job.data
    <3>1. CASE NextSector /\ pc # "fmt_super"
      BY <1>3, <1>4, <3>1, Parts, NextFacts, DataKept
    <3>2. CASE GoTo("run")
      BY <3>2, Parts, GoToFacts, DataKept DEF Places
    <3>3. CASE GoTo("fmt_inodes") /\ call.rc = 0
      BY <1>4, <1>5, <3>3, Parts, GoToFacts, DataKept DEF Places, Unmounting
    <3>4. CASE GoTo("fmt_data") /\ pc = "fmt_inodes"
      BY <1>4, <3>4, Parts, GoToFacts, DataKept DEF Places, Unmounting
    <3> QED
      BY <2>1, <3>1, <3>2, <3>3, <3>4
  <2>3. StoreInv' /\ Changing' = {}
    BY <1>3, <1>4, <2>1, <2>2, RestStep
  <2> QED
    BY <1>2, <1>3, <1>4, <2>1, <2>3, QuietDisk, StutterStep
<1> QED
  BY <1>6, <1>7

-----------------------------------------------------------------------------
(***************************************************************************)
(* The ends of transfers: changes and reads                                *)
(***************************************************************************)
LEMMA SpoilStore ==
    ASSUME GfsInv, StoreInv, NEW pc \in {"data", "store"}, Ended(pc), Spoil
    PROVE  StoreInv' /\ Refines
<1>1. pc \in Transferring
  BY DEF Transferring
<1>2. /\ job.pc = pc /\ UNCHANGED <<medium, errors>> /\ call' = Idle
  BY <1>1, EndedParts
<1>3. /\ Return(Failed, unknown \cup {job.file}) /\ UNCHANGED <<mounted, inodes>>
      /\ stale' = IF Removing THEN stale \cup {job.file} ELSE stale
  BY DEF Spoil
<1>4. Changing = {job.file} /\ job.file \in Paths /\ job.bytes \in Seq(Sector) /\ job.pc \notin Unmounting
  BY <1>2, Parts DEF Changing, JobInv, PlaceInv, Jobs, Unmounting
<1>5. mounted => \A p \in Paths \ (unknown \cup {job.file}) : Synced(p)'
  <2>1. mounted => \A p \in Paths \ (unknown \cup {job.file}) : Synced(p)
    BY <1>4 DEF StoreInv, SyncInv
  <2> QED
    BY <1>2, <1>3, <2>1, QuietDisk DEF Synced
<1>6. StoreInv' /\ Changing' = {} /\ answer' = Failed /\ unknown' = unknown \cup {job.file}
  BY <1>2, <1>3, <1>4, <1>5, ReturnStore
<1>7. Files' = Files
  BY <1>2, <1>4, <1>6, QuietDisk DEF Files
<1>8. /\ Pending' = [path |-> NoFile, to |-> NoFile]
      /\ Pending = [path |-> job.file, to |-> IF Removing THEN NoFile ELSE job.bytes]
  BY <1>4, <1>6 DEF Pending
<1>9. Pending.path = job.file /\ Pending.path # NoFile /\ (Pending.to = NoFile <=> Removing)
  BY <1>4, <1>8, SectorAssumption
<1>10. stale' = IF Pending # [path |-> NoFile, to |-> NoFile] /\ Pending.to = NoFile
                THEN stale \cup {Pending.path} ELSE stale
  <2>1. Pending # [path |-> NoFile, to |-> NoFile]
    BY <1>9
  <2> QED
    BY <1>3, <1>9, <2>1
<1>11. Refines
  BY <1>6, <1>7, <1>8, <1>10 DEF Refines, Abstract!Next, Abstract!Fail, Abstract!NoChange, Abstract!Failed, Failed
<1> QED
  BY <1>6, <1>11

\* The call goes on with the next sector, or from the data to the table.
LEMMA OnwardStep ==
    ASSUME GfsInv, StoreInv, NEW pc \in {"data", "store"}, Ended(pc), job' \in Jobs,
           job'.pc \in {"data", "store"}, job'.file = job.file, job'.bytes = job.bytes,
           ChangeInv', UNCHANGED <<mounted, inodes, answer, unknown, stale>>
    PROVE  StoreInv' /\ Refines
<1>1. pc \in Transferring
  BY DEF Transferring
<1>2. /\ job.pc = pc /\ UNCHANGED <<medium, errors>> /\ call' = Idle
  BY <1>1, EndedParts
<1>3. Changing = {job.file} /\ Changing' = Changing /\ mounted
  BY <1>2, Parts DEF Changing, JobInv, OpInv, OnMounted
<1>4. SyncInv'
  BY <1>2, <1>3, QuietDisk DEF SyncInv, Synced, StoreInv
<1>5. StoreInv'
  BY <1>2, <1>3, <1>4, PlaceStep
<1> QED
  BY <1>2, <1>3, <1>5, QuietDisk, StutterStep

LEMMA DataStore ==
    ASSUME GfsInv, StoreInv, DataWritten
    PROVE  StoreInv' /\ Refines
<1>1. Ended("data") /\ "data" \in Transferring
  BY DEF DataWritten, Transferring
<1>2. /\ job.pc = "data" /\ UNCHANGED <<medium, errors>> /\ call' = Idle
  BY <1>1, EndedParts
<1>3. /\ job.i \in Nat /\ job.bytes \in Seq(Sector) /\ job.i < Len(job.bytes) /\ job.slot \in Slots
      /\ PutInv /\ (job.op = "write" => job.data \in Contents)
  BY <1>2, Parts DEF JobInv, PlaceInv, Jobs, StoreInv, ChangeInv
<1> DEFINE d == inode_data_lba(job.slot)
<1>4. call.rc = 0 => medium[d + job.i] = job.bytes[job.i + 1]
  <2>1. Wanted = Write(d + job.i, job.bytes[job.i + 1])
    BY <1>2 DEF Wanted
  <2> QED
    BY <1>1, <2>1, EndedParts DEF Write
<1>5. call.rc = 0 => \A k \in 1 .. job.i + 1 : medium[d + (k - 1)] = job.bytes[k]
  <2> SUFFICES ASSUME call.rc = 0, NEW k \in 1 .. job.i + 1
               PROVE  medium[d + (k - 1)] = job.bytes[k]
    OBVIOUS
  <2>1. CASE k = job.i + 1
    <3>1. k - 1 = job.i
      BY <1>3, <2>1
    <3> QED
      BY <1>4, <2>1, <3>1
  <2>2. CASE k # job.i + 1
    <3>1. k \in 1 .. job.i
      BY <1>3, <2>2
    <3> QED
      BY <1>2, <1>3, <3>1 DEF PutInv, DataOnDisk
  <2> QED
    BY <2>1, <2>2
<1>6. CASE call.rc # 0
  <2>1. Spoil
    BY <1>6 DEF DataWritten
  <2> QED
    BY <1>1, <2>1, SpoilStore
<1>7. CASE call.rc = 0
  <2>1. /\ UNCHANGED <<mounted, inodes, answer, unknown, stale>>
        /\ \/ NextSector
           \/ GoTo("store") /\ ~(job.i + 1 < Len(job.bytes))
    BY <1>7 DEF DataWritten
  <2>2. /\ job' \in Jobs /\ job'.op = job.op /\ job'.data = job.data
        /\ job'.file = job.file /\ job'.bytes = job.bytes /\ job'.slot = job.slot
        /\ \/ job'.pc = "data" /\ job'.i = job.i + 1
           \/ job'.pc = "store" /\ Len(job.bytes) = job.i + 1
    <3>1. CASE NextSector
      BY <1>2, <3>1, Parts, NextFacts, DataKept
    <3>2. CASE GoTo("store") /\ ~(job.i + 1 < Len(job.bytes))
      <4>1. Len(job.bytes) = job.i + 1
        BY <1>3, <3>2
      <4> QED
        BY <3>2, <4>1, Parts, GoToFacts, DataKept DEF Places, OnMounted
    <3> QED
      BY <2>1, <3>1, <3>2
  <2>3. PutInv'
    <3>1. DataOnDisk(IF job.pc = "data" THEN job.i ELSE Len(job.bytes))'
      BY <1>2, <1>5, <1>7, <2>2 DEF DataOnDisk
    <3> QED
      BY <1>2, <1>3, <2>1, <2>2, <3>1 DEF PutInv
  <2>4. job'.bytes # <<>>
    BY <1>3, <2>2
  <2>5. ChangeInv'
    BY <1>3, <2>2, <2>3, <2>4 DEF ChangeInv, Removing
  <2> QED
    BY <1>1, <2>1, <2>2, <2>5, OnwardStep
<1> QED
  BY <1>6, <1>7

\* What a file holds, sector by sector.
LEMMA HeldData ==
    ASSUME NEW tab, NEW p, NEW slot \in Slots, slot \in InUse(tab, p), slot = Lowest(InUse(tab, p)),
           NEW b \in Seq(Sector), tab[slot].size = Len(b),
           \A k \in 1 .. Len(b) : medium[inode_data_lba(slot) + (k - 1)] = b[k]
    PROVE  Contained(tab, p) = b
<1> DEFINE d == inode_data_lba(slot)
           n == Len(b)
<1>1. d \in Nat /\ n \in Nat
  BY GfsAssumption DEF inode_data_lba, Slots
<1>2. Contained(tab, p) = [k \in 1 .. n |-> medium[d + k - 1]]
  BY DEF Contained
<1>3. b = [k \in 1 .. n |-> b[k]]
  OBVIOUS
<1>4. ASSUME NEW k \in 1 .. n
      PROVE  medium[d + k - 1] = b[k]
  <2>1. medium[d + (k - 1)] = b[k]
    OBVIOUS
  <2> HIDE DEF d, n
  <2>2. d + (k - 1) = d + k - 1
    BY <1>1
  <2> QED
    BY <2>1, <2>2
<1> HIDE DEF d, n
<1> QED
  BY <1>2, <1>3, <1>4

LEMMA StoredStore ==
    ASSUME GfsInv, StoreInv, InodesStored
    PROVE  StoreInv' /\ Refines
<1>1. Ended("store") /\ "store" \in Transferring
  BY DEF InodesStored, Transferring
<1>2. /\ job.pc = "store" /\ UNCHANGED <<medium, errors>> /\ DiskTable' = DiskTable /\ call' = Idle
  BY <1>1, EndedParts
<1>3. /\ job.i \in Slots /\ \A k \in 0 .. job.i - 1 : DiskTable[k] = inodes[k]
      /\ Changing = {job.file} /\ job.file \in Paths /\ job.pc \notin Unmounting
      /\ job.bytes \in Seq(Sector) /\ ChangeInv /\ FormatInv
  BY <1>2, Parts DEF JobInv, PlaceInv, TableInv, Changing, Unmounting, Jobs, StoreInv
<1>4. CASE call.rc # 0
  <2>1. Spoil
    BY <1>4 DEF InodesStored
  <2> QED
    BY <1>1, <2>1, SpoilStore
<1>5. CASE call.rc = 0 /\ job.i < Inodes - 1
  <2>1. NextSector /\ UNCHANGED <<mounted, inodes, answer, unknown, stale>>
    BY <1>5 DEF InodesStored
  <2>2. /\ job' \in Jobs /\ job'.op = job.op /\ job'.data = job.data /\ job'.pc = "store"
        /\ job'.file = job.file /\ job'.bytes = job.bytes /\ job'.slot = job.slot
    BY <1>2, <2>1, Parts, NextFacts, DataKept
  <2>3. ChangeInv'
    <3>1. PutInv'
      BY <1>2, <1>3, <2>1, <2>2 DEF ChangeInv, PutInv, DataOnDisk, Removing
    <3> QED
      BY <1>2, <1>3, <2>1, <2>2, <3>1 DEF ChangeInv, Removing
  <2> QED
    BY <1>1, <2>1, <2>2, <2>3, OnwardStep
<1>6. CASE call.rc = 0 /\ ~(job.i < Inodes - 1)
  <2>1. Return([ok |-> TRUE, read |-> NoFile], {}) /\ UNCHANGED <<mounted, inodes, stale>>
    BY <1>6 DEF InodesStored
  <2>2. job.i = Inodes - 1
    BY <1>3, <1>6, GfsAssumption DEF Slots
  <2>3. DiskTable[job.i] = inodes[job.i]
    <3>1. Wanted = Write(InodeLba(job.i), inodes[job.i])
      BY <1>1, <1>2, Parts, WantedFacts
    <3>2. medium[InodeLba(job.i)] = inodes[job.i]
      BY <1>1, <1>6, <3>1, EndedParts DEF Write
    <3> QED
      BY <1>3, <3>2, Parts, DiskTableFacts
  <2>4. \A k \in Slots : DiskTable[k] = inodes[k]
    BY <1>3, <2>2, <2>3, LastSlot
  <2>5. \A p : InUse(DiskTable, p) = InUse(inodes, p)
    BY <2>4 DEF InUse
  <2>6. \A p \in Paths : Synced(p)'
    BY <1>2, <2>1, <2>4, <2>5, TableFacts DEF Synced
  <2>7. StoreInv' /\ Changing' = {} /\ answer' = [ok |-> TRUE, read |-> NoFile] /\ unknown' = {}
    BY <1>2, <1>3, <2>1, <2>6, ReturnStore
  <2>8. \A p \in Paths : Files'[p] = Contained(DiskTable, p)
    BY <1>2, <1>3, <2>7, QuietDisk, OnDiskTable DEF Files
  <2>9. \A p \in Paths : Contained(DiskTable, p) \in Readable \cup {NoFile}
    BY Parts, ContainedFacts DEF TableInv
  <2>10. Files' \in [Paths -> Readable \cup {NoFile}]
    BY <2>8, <2>9 DEF Files
  <2>11. \A p \in Paths : Files[p] # Unknown => Files'[p] = Files[p]
    BY <1>3, <2>8, OnDiskTable DEF Files
  <2>12. /\ Pending = [path |-> job.file, to |-> IF Removing THEN NoFile ELSE job.bytes]
         /\ Pending' = [path |-> NoFile, to |-> NoFile]
    BY <1>3, <2>7 DEF Pending
  <2>13. Pending # [path |-> NoFile, to |-> NoFile]
    BY <1>3, <2>12, SectorAssumption
  <2>14. Files'[job.file] = Pending.to \/ (Pending.to = NoFile /\ job.file \in stale)
    <3>1. CASE Removing
      <4>1. job.file \notin stale => Contained(DiskTable, job.file) = NoFile
        BY <1>2, <1>3, <2>5, <3>1 DEF ChangeInv, Contained
      <4> QED
        BY <1>3, <2>8, <2>12, <3>1, <4>1
    <3>2. CASE ~Removing
      <4>1. /\ job.slot = Lowest(InUse(inodes, job.file)) /\ job.slot \in Slots
            /\ inodes[job.slot] = [path |-> job.file, size |-> Len(job.bytes)]
            /\ Len(job.bytes) \in 1 .. PerFile
            /\ \A k \in 1 .. Len(job.bytes) : medium[inode_data_lba(job.slot) + (k - 1)] = job.bytes[k]
        BY <1>2, <1>3, <3>2, Parts DEF ChangeInv, PutInv, DataOnDisk, Jobs
      <4>2. job.slot \in InUse(inodes, job.file)
        <5>1. Valid([path |-> job.file, size |-> Len(job.bytes)])
          BY <1>3, <4>1, GfsAssumption DEF Valid
        <5> QED
          BY <4>1, <5>1 DEF InUse
      <4>3. Contained(DiskTable, job.file) = job.bytes
        <5>1. /\ job.slot \in InUse(DiskTable, job.file) /\ job.slot = Lowest(InUse(DiskTable, job.file))
              /\ DiskTable[job.slot].size = Len(job.bytes) /\ job.bytes \in Seq(Sector) /\ job.slot \in Slots
          BY <1>3, <2>4, <2>5, <4>1, <4>2
        <5> QED
          BY <4>1, <5>1, HeldData
      <4> QED
        BY <1>3, <2>8, <2>12, <3>2, <4>3
    <3> QED
      BY <3>1, <3>2
  <2>15. Pending.path = job.file
    BY <2>12
  <2>16. Refines
    BY <2>1, <2>7, <2>10, <2>11, <2>12, <2>13, <2>14, <2>15
       DEF Refines, Abstract!Next, Abstract!Succeed, Abstract!Resolve, Abstract!Settled, Abstract!NoChange, Abstract!Ok
  <2> QED
    BY <2>7, <2>16
<1> QED
  BY <1>4, <1>5, <1>6

LEMMA ReadStore ==
    ASSUME GfsInv, StoreInv, DataRead
    PROVE  StoreInv' /\ Refines
<1>1. Ended("rdata") /\ "rdata" \in Transferring /\ UNCHANGED <<mounted, inodes, stale>>
  BY DEF DataRead, Transferring
<1>2. /\ job.pc = "rdata" /\ UNCHANGED <<medium, errors>> /\ call' = Idle /\ call.val \in Sector
  BY <1>1, EndedParts
<1> DEFINE got == Append(job.bytes, call.val)
           size == inodes[job.slot].size
           d == inode_data_lba(job.slot)
<1>3. /\ job.i \in Nat /\ mounted /\ job.path \in Paths
      /\ job.slot \in InUse(inodes, job.path) /\ job.slot = Lowest(InUse(inodes, job.path))
      /\ job.bytes \in Seq(Sector) /\ Len(job.bytes) = job.i /\ job.i < size
      /\ job.slot \in Slots /\ size \in 0 .. PerFile /\ PerFile \in Nat
      /\ job.op = "write" => job.data \in Contents
      /\ \A k \in 1 .. job.i : medium[d + (k - 1)] = job.bytes[k]
  BY <1>2, Parts, TableFacts, GfsAssumption
     DEF JobInv, PlaceInv, OpInv, OnMounted, Jobs, StoreInv, ChangeInv, DataOnDisk
<1>4. got \in Seq(Sector) /\ Len(got) = job.i + 1
      /\ \A k \in 1 .. job.i + 1 : got[k] = IF k = job.i + 1 THEN call.val ELSE job.bytes[k]
  BY <1>2, <1>3
<1>5. Changing = {} /\ job.pc \notin Unmounting
  BY <1>2 DEF Changing, Unmounting
<1>6. mounted => \A p \in Paths \ unknown : Synced(p)
  BY <1>5 DEF StoreInv, SyncInv
<1>7. \A p \in Paths : Synced(p)' <=> Synced(p)
  BY <1>1, <1>2, QuietDisk DEF Synced
<1> HIDE DEF got, size, d
<1>8. call.rc = 0 => \A k \in 1 .. job.i + 1 : medium[d + (k - 1)] = got[k]
  <2> SUFFICES ASSUME call.rc = 0, NEW k \in 1 .. job.i + 1
               PROVE  medium[d + (k - 1)] = got[k]
    OBVIOUS
  <2>1. CASE k = job.i + 1
    <3>1. Wanted.type = "in" /\ Wanted.lba = d + job.i
      BY <1>1, <1>2, Parts, WantedFacts DEF d
    <3>2. call.val = medium[d + job.i]
      BY <1>1, <3>1, EndedParts
    <3>3. k - 1 = job.i
      BY <1>3, <2>1
    <3> QED
      BY <1>4, <2>1, <3>2, <3>3
  <2>2. CASE k # job.i + 1
    <3>1. k \in 1 .. job.i
      BY <1>3, <2>2
    <3> QED
      BY <1>3, <1>4, <2>2, <3>1
  <2> QED
    BY <2>1, <2>2
<1>9. CASE call.rc # 0
  <2>1. Return(Failed, unknown)
    BY <1>9 DEF DataRead
  <2>2. StoreInv' /\ Changing' = {} /\ answer' = Failed /\ unknown' = unknown
    BY <1>1, <1>2, <1>5, <1>6, <1>7, <2>1, ReturnStore
  <2> QED
    BY <1>1, <1>2, <1>5, <2>2, FailStep
<1>10. CASE call.rc = 0 /\ Len(got) < size
  <2>1. job' = [job EXCEPT !.i = job.i + 1, !.bytes = got] /\ UNCHANGED <<answer, unknown>>
    BY <1>10 DEF DataRead, got, size
  <2>2. /\ job'.pc = "rdata" /\ job'.i = job.i + 1 /\ job'.bytes = got /\ job'.slot = job.slot
        /\ job'.op = job.op /\ job'.data = job.data
    <3> DEFINE n == job.i + 1
    <3>1. job' = [job EXCEPT !.i = n, !.bytes = got]
      BY <2>1
    <3> HIDE DEF n
    <3>2. /\ job'.pc = job.pc /\ job'.i = n /\ job'.bytes = got /\ job'.slot = job.slot
          /\ job'.op = job.op /\ job'.data = job.data
      BY <3>1, Parts DEF Jobs
    <3> QED
      BY <1>2, <3>2 DEF n
  <2>3. Changing' = {}
    BY <2>2 DEF Changing
  <2>4. ChangeInv'
    <3>1. DataOnDisk(job.i)'
      BY <1>2, <1>8, <1>10, <2>2 DEF DataOnDisk, d
    <3> QED
      BY <1>3, <2>2, <3>1 DEF ChangeInv, PutInv
  <2>5. SyncInv'
    BY <1>1, <1>6, <1>7, <2>1, <2>3 DEF SyncInv
  <2>6. StoreInv'
    BY <1>1, <1>2, <1>3, <2>2, <2>4, <2>5, PlaceStep
  <2> QED
    BY <1>1, <1>2, <1>5, <2>1, <2>3, <2>6, QuietDisk, StutterStep
<1>11. CASE call.rc = 0 /\ ~(Len(got) < size)
  <2>1. Return([ok |-> TRUE, read |-> got], unknown)
    BY <1>11 DEF DataRead, got, size
  <2>2. StoreInv' /\ Changing' = {} /\ answer' = [ok |-> TRUE, read |-> got] /\ unknown' = unknown
    BY <1>1, <1>2, <1>5, <1>6, <1>7, <2>1, ReturnStore
  <2>3. size = Len(got) /\ Len(got) \in 1 .. PerFile
    BY <1>3, <1>4, <1>11
  <2>4. Contained(inodes, job.path) = got
    BY <1>3, <1>4, <1>8, <1>11, <2>3, HeldData DEF d, size
  <2>5. job.path \notin unknown => Contained(OnDisk, job.path) = got
    <3> HAVE job.path \notin unknown
    <3>1. Synced(job.path) /\ OnDisk = DiskTable
      BY <1>3, <1>6, OnDiskTable DEF StoreInv
    <3>2. Contained(DiskTable, job.path) = Contained(inodes, job.path)
      BY <3>1, SameFile DEF Synced
    <3> QED
      BY <2>4, <3>1, <3>2
  <2>6. Files[job.path] \in {got, Unknown}
    BY <1>3, <1>5, <2>5 DEF Files
  <2>7. got \in Readable
    <3>1. got \in [1 .. Len(got) -> Sector]
      BY <1>4
    <3> QED
      BY <2>3, <3>1 DEF Readable
  <2>8. Files' = Files
    BY <1>2, <1>5, <2>2, QuietDisk DEF Files
  <2>9. Pending = [path |-> NoFile, to |-> NoFile] /\ Pending' = Pending
    BY <1>5, <2>2 DEF Pending
  <2>10. Refines
    BY <1>1, <1>3, <2>2, <2>6, <2>7, <2>8, <2>9
       DEF Refines, Abstract!Next, Abstract!Read, Abstract!NoChange, Abstract!Ok
  <2> QED
    BY <2>2, <2>10
<1> QED
  BY <1>9, <1>10, <1>11

-----------------------------------------------------------------------------
(***************************************************************************)
(* Crashes and transfers                                                   *)
(***************************************************************************)
LEMMA CrashStore ==
    ASSUME GfsInv, StoreInv, Crash
    PROVE  StoreInv' /\ Refines
<1>1. /\ UNCHANGED <<medium, errors, answer, stale>> /\ ~mounted' /\ call' = Idle
      /\ job' = [NoJob EXCEPT !.pc = "off"]
      /\ unknown' = unknown \cup Changing
  BY DEF Crash, DiskCrash, Changing
<1>2. job'.pc = "off" /\ job'.op = "none"
  BY <1>1 DEF NoJob
<1>3. StoreInv' /\ Changing' = {}
  BY <1>1, <1>2, RestStep
<1>4. Files' = Files
  BY <1>1, <1>3, QuietDisk DEF Files
<1>5. Pending' = [path |-> NoFile, to |-> NoFile]
  BY <1>3 DEF Pending
<1> QED
  BY <1>1, <1>3, <1>4, <1>5 DEF Refines, Abstract!Next, Abstract!Crash, Abstract!NoChange

LEMMA TransferStore ==
    ASSUME GfsInv, StoreInv, Transfer
    PROVE  StoreInv' /\ Refines
<1>1. /\ job.pc \in Transferring /\ disk_call(Wanted)
      /\ UNCHANGED <<mounted, inodes, job, answer, unknown, stale>> /\ UNCHANGED <<medium, errors>>
  BY DEF Transfer, gfsVars, disk_call
<1>2. backend \in {"virtio", "ide"} /\ call = Idle /\ unseen' = unseen /\ unseen = 0
  BY <1>1, Parts DEF disk_call, DiskTypes, DriverInv, OneChain, Idle
<1>3. \/ call' = [st |-> "wait", r |-> Wanted, try |-> 1]
      \/ call' = [st |-> "pio", r |-> Wanted]
  BY <1>1, <1>2 DEF disk_call
<1>4. TriesInv'
  BY <1>1, <1>2, <1>3, QuietDisk DEF TriesInv, StoreInv
<1>5. Changing' = Changing
  BY <1>1 DEF Changing
<1>6. FormatInv'
  BY <1>1, QuietDisk DEF FormatInv, StoreInv
<1>7. ChangeInv'
  BY <1>1 DEF ChangeInv, PutInv, DataOnDisk, Removing, StoreInv
<1>8. SyncInv'
  BY <1>1, <1>5, QuietDisk DEF SyncInv, Synced, StoreInv
<1>9. Refines
  BY <1>1, <1>5, QuietDisk, StutterStep
<1> QED
  BY <1>4, <1>6, <1>7, <1>8, <1>9 DEF StoreInv

\* A transfer that fails costs an error.
LEMMA TriesStep ==
    ASSUME GfsInv, TriesInv, DiskStep, job' = job, job.pc = "super" => Formatted' = Formatted
    PROVE  TriesInv'
<1>1. errors \in Nat /\ MaxErrors \in Nat /\ job.try \in Nat
  BY Parts, DiskAssumption DEF DiskTypes, Jobs
<1>2. call.st = "wait" => call.try \in Nat /\ call.try >= 1
  BY Parts, CallFields DEF DiskTypes
<1>3. CASE DeviceFetch
  <2>1. UNCHANGED <<errors, call, unseen, req>>
    BY <1>3 DEF DeviceFetch
  <2> QED
    BY <2>1 DEF TriesInv
<1>4. CASE DeviceComplete
  <2>1. call' = call /\ (\/ errors' = errors /\ req'.status = "ok"
                         \/ errors' = errors + 1 /\ errors < MaxErrors)
    BY <1>4, Parts DEF DeviceComplete, DiskTypes
  <2>2. CASE errors' = errors /\ req'.status = "ok"
    BY <2>1, <2>2 DEF TriesInv
  <2>3. CASE errors' = errors + 1 /\ errors < MaxErrors
    BY <1>1, <2>1, <2>3 DEF TriesInv
  <2> QED
    BY <2>1, <2>2, <2>3
<1>5. CASE wait_used
  <2>1. /\ call.st = "wait" /\ unseen = 1 /\ unseen' = 0 /\ errors' = errors
    BY <1>5, Parts DEF wait_used, DriverInv, OneChain
  <2>2. CASE req.status = "ok"
    <3>1. call'.st = "done" /\ call'.rc = 0
      BY <1>5, <2>2 DEF wait_used, Finish
    <3> QED
      BY <2>1, <3>1 DEF TriesInv
  <2>3. CASE req.status # "ok"
    BY <2>1, <2>3 DEF TriesInv
  <2> QED
    BY <2>2, <2>3
<1>6. CASE ide_transfer
  <2>1. call.st = "pio" /\ call'.st = "done"
        /\ (\/ errors' = errors /\ call'.rc = 0
            \/ errors' = errors + 1 /\ errors < MaxErrors)
    BY <1>6 DEF ide_transfer, Finish
  <2> QED
    BY <1>1, <2>1 DEF TriesInv
<1> QED
  BY <1>3, <1>4, <1>5, <1>6 DEF DiskStep

\* A sector outside the sectors of a file, and outside its inode, is not part of the file.
LEMMA DiskFile ==
    ASSUME DiskTypes, Sound(DiskTable), NEW l \in Lba, NEW v \in Sector, NEW p,
           medium' = [medium EXCEPT ![l] = v],
           InUse(DiskTable', p) = InUse(DiskTable, p),
           \A s \in InUse(DiskTable, p) : DiskTable'[s] = DiskTable[s],
           \A s \in InUse(DiskTable, p), k \in 0 .. PerFile - 1 : inode_data_lba(s) + k # l
    PROVE  Contained(DiskTable, p)' = Contained(DiskTable, p)
<1>1. CASE InUse(DiskTable, p) = {}
  BY <1>1 DEF Contained
<1>2. CASE InUse(DiskTable, p) # {}
  <2> DEFINE slot == Lowest(InUse(DiskTable, p))
             n == DiskTable[slot].size
             d == inode_data_lba(slot)
  <2>1. slot \in InUse(DiskTable, p) /\ slot \in Slots
    BY <1>2, TableFacts, LowestSlot
  <2>2. n \in 0 .. PerFile /\ PerFile \in Nat /\ d \in Nat
    <3>1. n \in 0 .. PerFile
      BY <2>1, TableFacts
    <3>2. PerFile \in Nat /\ d \in Nat
      BY <2>1, GfsAssumption DEF inode_data_lba, Slots
    <3> QED
      BY <3>1, <3>2
  <2>3. ASSUME NEW k \in 1 .. n
        PROVE  medium'[d + k - 1] = medium[d + k - 1]
    <3>1. k - 1 \in 0 .. PerFile - 1
      BY <2>2
    <3>2. d + (k - 1) \in Lba /\ d + (k - 1) # l
      BY <2>1, <3>1, DataSectors
    <3> HIDE DEF d, n
    <3>3. d + (k - 1) = d + k - 1
      BY <2>2
    <3> QED
      BY <3>2, <3>3 DEF DiskTypes
  <2>4. Contained(DiskTable, p) = [k \in 1 .. n |-> medium[d + k - 1]]
    BY <1>2 DEF Contained
  <2>5. Contained(DiskTable, p)' = [k \in 1 .. n |-> medium'[d + k - 1]]
    <3>1. Lowest(InUse(DiskTable', p)) = slot /\ InUse(DiskTable', p) # {} /\ DiskTable'[slot].size = n
      BY <1>2, <2>1
    <3> HIDE DEF slot
    <3> QED
      BY <3>1 DEF Contained
  <2> HIDE DEF d, n
  <2> QED
    BY <2>3, <2>4, <2>5
<1> QED
  BY <1>1, <1>2

LEMMA MappedFile ==
    ASSUME FormatInv, FormatInv', NEW p, Contained(DiskTable, p)' = Contained(DiskTable, p)
    PROVE  Contained(OnDisk, p)' = Contained(OnDisk, p)
<1>1. OnDisk = DiskTable
  BY OnDiskTable
<1>2. OnDisk' = DiskTable'
  BY DEF FormatInv, Formatted, OnDisk, DiskTable
<1>3. Contained(OnDisk, p)' = Contained(DiskTable, p)'
  BY <1>2 DEF Contained
<1> QED
  BY <1>1, <1>3

\* The device writes a sector of a file that is being written.
LEMMA DataSectorStep ==
    ASSUME GfsInv, StoreInv, job.pc = "data", call.r = Wanted, UNCHANGED gfsVars,
           medium' = [medium EXCEPT ![Wanted.lba] = Wanted.val]
    PROVE  /\ FormatInv' /\ ChangeInv' /\ SyncInv'
           /\ \A p \in Paths \ (unknown \cup Changing) : Contained(OnDisk, p)' = Contained(OnDisk, p)
<1> DEFINE l == Wanted.lba
           v == Wanted.val
<1>1. UNCHANGED <<mounted, inodes, job, unknown, stale>> /\ Changing' = Changing /\ Changing = {job.file}
  BY DEF gfsVars, Changing
<1>2. /\ l = inode_data_lba(job.slot) + job.i /\ job.i \in 0 .. PerFile - 1
      /\ l \in Lba /\ v \in Sector
      /\ job.slot \in Slots /\ job.slot # 0 /\ mounted /\ job.i \in Nat /\ PerFile \in Nat
      /\ inodes[job.slot].path = job.file /\ job.i < Len(job.bytes)
      /\ FormatInv /\ ChangeInv /\ SyncInv /\ PutInv /\ Formatted
  BY Parts, WantedFacts, GfsAssumption
     DEF Transferring, Request, JobInv, PlaceInv, OpInv, OnMounted, GfsTypes, Jobs, StoreInv, ChangeInv, FormatInv
<1>3. medium' = [medium EXCEPT ![l] = v] /\ DiskTypes /\ Sound(DiskTable)
  BY Parts DEF TableInv
<1>4. l # SuperLba
  <2> DEFINE e == Inodes * PerFile
  <2>1. e \in Nat /\ l \in DataBase .. DataBase + e - 1 /\ DataBase \in Nat /\ DataBase > SuperLba
    BY <1>2, DataSectors, GfsAssumption
  <2> HIDE DEF l, e
  <2> QED
    BY <2>1 DEF SuperLba
<1>5. \A i \in Slots : l # InodeLba(i)
  BY <1>2, DataSectors
<1>6. \A s \in Slots, k \in 0 .. PerFile - 1 : inode_data_lba(s) + k = l => s = job.slot /\ k = job.i
  BY <1>2, DataSectors
<1> HIDE DEF l, v
<1>7. DiskTable' = DiskTable
  BY <1>2, <1>3, <1>5, DiskTableStep
<1>8. Formatted'
  BY <1>2, <1>3, <1>4, InodeSectors, GfsAssumption DEF Formatted, DiskTypes, Slots
<1>9. FormatInv'
  BY <1>8, <1>1, <1>2 DEF FormatInv
<1>10. SyncInv'
  BY <1>1, <1>2, <1>7 DEF SyncInv, Synced
<1>11. ChangeInv'
  <2>1. ASSUME NEW k \in 1 .. job.i
        PROVE  medium'[inode_data_lba(job.slot) + (k - 1)] = medium[inode_data_lba(job.slot) + (k - 1)]
    <3>1. k - 1 \in 0 .. PerFile - 1 /\ k - 1 # job.i
      BY <1>2
    <3>2. inode_data_lba(job.slot) + (k - 1) # l /\ inode_data_lba(job.slot) + (k - 1) \in Lba
      BY <1>2, <1>6, <3>1, DataSectors
    <3> QED
      BY <1>3, <3>2 DEF DiskTypes
  <2>2. DataOnDisk(job.i)'
    BY <1>1, <1>2, <2>1 DEF PutInv, DataOnDisk
  <2>3. PutInv'
    BY <1>1, <1>2, <2>2 DEF PutInv
  <2> QED
    BY <1>1, <1>2, <2>3 DEF ChangeInv, Removing
<1>12. ASSUME NEW p \in Paths \ (unknown \cup Changing)
       PROVE  Contained(OnDisk, p)' = Contained(OnDisk, p)
  <2>1. Synced(p) /\ p # job.file
    BY <1>1, <1>2 DEF SyncInv
  <2>2. ASSUME NEW s \in InUse(DiskTable, p), NEW k \in 0 .. PerFile - 1
        PROVE  inode_data_lba(s) + k # l
    <3>1. s \in Slots /\ inodes[s].path = p
      <4>1. s \in InUse(inodes, p)
        BY <2>1 DEF Synced
      <4> QED
        BY <4>1 DEF InUse
    <3> QED
      BY <1>2, <1>6, <2>1, <3>1
  <2>3. InUse(DiskTable', p) = InUse(DiskTable, p) /\ \A s \in InUse(DiskTable, p) : DiskTable'[s] = DiskTable[s]
    BY <1>7
  <2>4. Contained(DiskTable, p)' = Contained(DiskTable, p)
    <3>1. l \in Lba /\ v \in Sector
      BY <1>2
    <3> QED
      BY <1>3, <2>2, <2>3, <3>1, DiskFile
  <2> QED
    BY <1>2, <1>9, <2>4, MappedFile
<1> QED
  BY <1>9, <1>10, <1>11, <1>12

\* The device writes a sector of the table of inodes.
LEMMA StoreSectorStep ==
    ASSUME GfsInv, StoreInv, job.pc = "store", call.r = Wanted, UNCHANGED gfsVars,
           medium' = [medium EXCEPT ![Wanted.lba] = Wanted.val]
    PROVE  /\ FormatInv' /\ ChangeInv' /\ SyncInv'
           /\ \A p \in Paths \ (unknown \cup Changing) : Contained(OnDisk, p)' = Contained(OnDisk, p)
<1> DEFINE l == Wanted.lba
           v == Wanted.val
<1>1. UNCHANGED <<mounted, inodes, job, unknown, stale>> /\ Changing' = Changing /\ Changing = {job.file}
  BY DEF gfsVars, Changing
<1>2. /\ l = InodeLba(job.i) /\ v = inodes[job.i] /\ job.i \in Slots /\ l \in Lba /\ v \in Sector
      /\ mounted /\ FormatInv /\ ChangeInv /\ SyncInv /\ Formatted
      /\ job.slot \in Slots /\ PerFile \in Nat
  BY Parts, WantedFacts, GfsAssumption
     DEF Transferring, Request, Write, JobInv, PlaceInv, OpInv, OnMounted, Jobs, StoreInv, FormatInv
<1>3. medium' = [medium EXCEPT ![l] = v] /\ DiskTypes /\ Sound(DiskTable)
  BY Parts DEF TableInv
<1>4. l # SuperLba /\ SuperLba \in Lba
  BY <1>2, InodeSectors
<1>5. \A s \in Slots, k \in 0 .. PerFile - 1 : s # 0 => inode_data_lba(s) + k # l
  BY <1>2, DataSectors
<1> HIDE DEF l, v
<1>6. \A i \in Slots : DiskTable'[i] = IF i = job.i THEN inodes[i] ELSE DiskTable[i]
  <2>1. \A i \in Slots : InodeLba(i) = l <=> i = job.i
    BY <1>2, InodeSectors
  <2>2. \A i \in Slots : DiskTable'[i] = IF InodeLba(i) = l THEN v ELSE DiskTable[i]
    BY <1>2, <1>3, DiskTableStep
  <2> QED
    BY <1>2, <2>1, <2>2
<1>7. FormatInv'
  <2>1. Formatted'
    BY <1>2, <1>3, <1>4 DEF Formatted, DiskTypes
  <2> QED
    BY <1>1, <1>2, <2>1 DEF FormatInv
<1>8. ASSUME NEW p \in Paths \ (unknown \cup Changing)
      PROVE  /\ InUse(DiskTable', p) = InUse(DiskTable, p) /\ Synced(p) /\ Synced(p)'
             /\ \A s \in InUse(DiskTable, p) : DiskTable'[s] = DiskTable[s]
  <2>1. Synced(p)
    BY <1>2 DEF SyncInv
  <2>2. InUse(DiskTable', p) = InUse(DiskTable, p)
    <3>1. InUse(inodes, p) = InUse(DiskTable, p)
      BY <2>1 DEF Synced
    <3>2. \A s \in Slots : s \in InUse(DiskTable', p) <=> s \in InUse(DiskTable, p)
      BY <1>6, <3>1 DEF InUse
    <3> QED
      BY <3>2, TableFacts
  <2>3. \A s \in InUse(DiskTable, p) : DiskTable'[s] = DiskTable[s] /\ DiskTable'[s] = inodes[s]
    BY <1>6, <2>1, TableFacts DEF Synced
  <2> QED
    BY <1>1, <2>1, <2>2, <2>3 DEF Synced
<1>9. SyncInv'
  BY <1>1, <1>8 DEF SyncInv
<1>10. ChangeInv'
  <2>1. PutInv'
    <3> SUFFICES ASSUME ~Removing PROVE PutInv'
      BY <1>1 DEF PutInv, Removing
    <3>1. /\ Len(job.bytes) \in 1 .. PerFile /\ job.slot # 0 /\ PutInv
          /\ \A k \in 1 .. Len(job.bytes) : medium[inode_data_lba(job.slot) + (k - 1)] = job.bytes[k]
      BY <1>2 DEF ChangeInv, PutInv, DataOnDisk
    <3>2. ASSUME NEW k \in 1 .. Len(job.bytes)
          PROVE  medium'[inode_data_lba(job.slot) + (k - 1)] = medium[inode_data_lba(job.slot) + (k - 1)]
      <4>1. k - 1 \in 0 .. PerFile - 1
        BY <1>2, <3>1
      <4>2. inode_data_lba(job.slot) + (k - 1) # l /\ inode_data_lba(job.slot) + (k - 1) \in Lba
        BY <1>2, <1>5, <3>1, <4>1, DataSectors
      <4> QED
        BY <1>3, <4>2 DEF DiskTypes
    <3>3. DataOnDisk(Len(job.bytes))'
      BY <1>1, <3>1, <3>2 DEF DataOnDisk
    <3> QED
      BY <1>1, <3>1, <3>3 DEF PutInv, Removing
  <2> QED
    BY <1>1, <1>2, <2>1 DEF ChangeInv, Removing
<1>11. ASSUME NEW p \in Paths \ (unknown \cup Changing)
       PROVE  Contained(OnDisk, p)' = Contained(OnDisk, p)
  <2>1. \A s \in InUse(DiskTable, p), k \in 0 .. PerFile - 1 : inode_data_lba(s) + k # l
    BY <1>3, <1>5, TableFacts DEF Sound
  <2>2. InUse(DiskTable', p) = InUse(DiskTable, p) /\ \A s \in InUse(DiskTable, p) : DiskTable'[s] = DiskTable[s]
    BY <1>8
  <2>3. Contained(DiskTable, p)' = Contained(DiskTable, p)
    <3>1. l \in Lba /\ v \in Sector
      BY <1>2
    <3> QED
      BY <1>3, <2>1, <2>2, <3>1, DiskFile
  <2> QED
    BY <1>2, <1>7, <2>3, MappedFile
<1> QED
  BY <1>7, <1>9, <1>10, <1>11

\* The device writes while the disk is formatted.
LEMMA FormatSectorStep ==
    ASSUME GfsInv, StoreInv, job.pc \in {"fmt_super", "fmt_inodes", "fmt_data"}, call.r = Wanted,
           UNCHANGED gfsVars, medium' = [medium EXCEPT ![Wanted.lba] = Wanted.val]
    PROVE  /\ FormatInv' /\ ChangeInv' /\ SyncInv'
           /\ \A p : Contained(OnDisk, p)' = Contained(OnDisk, p)
<1> DEFINE l == Wanted.lba
           v == Wanted.val
<1>1. UNCHANGED <<mounted, inodes, job, unknown, stale>>
  BY DEF gfsVars
<1>2. /\ Wanted \in Request /\ l \in Lba /\ v \in Sector /\ FormatInv /\ ChangeInv /\ DiskTable = Cleared /\ ~mounted
      /\ job.pc # "fmt_super" => Formatted /\ inodes = Cleared
  BY Parts, WantedFacts DEF Transferring, Request, StoreInv, FormatInv, JobInv, OpInv, Unmounting, TableInv
<1>3. medium' = [medium EXCEPT ![l] = v] /\ DiskTypes
  BY Parts
<1>4. Formatted' /\ DiskTable' = Cleared
  <2>1. CASE job.pc = "fmt_super"
    <3>1. l = SuperLba /\ v = SuperMark
      BY <2>1, Parts, WantedFacts DEF Transferring, Write
    <3> HIDE DEF l, v
    <3>2. DiskTable' = DiskTable
      BY <1>2, <1>3, <3>1, DiskTableStep, InodeSectors
    <3>3. Formatted'
      BY <1>2, <1>3, <3>1 DEF Formatted, DiskTypes
    <3> QED
      BY <1>2, <3>2, <3>3
  <2>2. CASE job.pc # "fmt_super"
    <3>1. v = NoInode /\ l # SuperLba /\ SuperLba \in Lba
      <4>1. CASE job.pc = "fmt_inodes"
        <5>1. job.i \in Slots /\ l = InodeLba(job.i) /\ v = inodes[job.i]
          BY <4>1, Parts, WantedFacts DEF Transferring, Write, JobInv, PlaceInv
        <5> QED
          BY <1>2, <4>1, <5>1, ClearedFacts, InodeSectors
      <4>2. CASE job.pc = "fmt_data"
        <5>1. l = DataBase + job.i /\ v = Blank /\ job.i \in Nat
          BY <4>2, Parts, WantedFacts DEF Transferring, Write, Jobs
        <5>2. 0 \in Slots
          BY GfsAssumption DEF Slots
        <5>3. SuperLba \in Lba /\ DataBase \in Nat /\ DataBase > SuperLba
          BY <5>2, InodeSectors, GfsAssumption
        <5> HIDE DEF l, v
        <5> QED
          BY <5>1, <5>3 DEF SuperLba, NoInode
      <4> QED
        BY <2>2, <4>1, <4>2
    <3> HIDE DEF l, v
    <3>2. Formatted'
      BY <1>2, <1>3, <2>2, <3>1 DEF Formatted, DiskTypes
    <3>3. \A i \in Slots : DiskTable'[i] = NoInode
      <4>1. \A i \in Slots : DiskTable'[i] = IF InodeLba(i) = l THEN v ELSE DiskTable[i]
        BY <1>2, <1>3, DiskTableStep
      <4> QED
        BY <1>2, <3>1, <4>1, ClearedFacts
    <3>4. DiskTable' = Cleared
      BY <3>3 DEF DiskTable, Cleared
    <3> QED
      BY <3>2, <3>4
  <2> QED
    BY <2>1, <2>2
<1>5. FormatInv'
  BY <1>1, <1>4 DEF FormatInv
<1>6. ChangeInv' /\ SyncInv'
  BY <1>1, <1>2 DEF ChangeInv, PutInv, SyncInv
<1>7. ASSUME NEW p
      PROVE  Contained(OnDisk, p)' = Contained(OnDisk, p)
  <2>1. Contained(DiskTable, p) = NoFile /\ Contained(DiskTable, p)' = NoFile
    BY <1>2, <1>4, ClearedFacts DEF Contained
  <2> QED
    BY <1>2, <1>5, <2>1, MappedFile
<1> QED
  BY <1>5, <1>6, <1>7

LEMMA DeviceStore ==
    ASSUME GfsInv, StoreInv, DiskStep, UNCHANGED gfsVars
    PROVE  StoreInv' /\ Refines
<1>1. /\ UNCHANGED <<mounted, inodes, job, answer, unknown, stale>> /\ Changing' = Changing
      /\ FormatInv /\ TriesInv /\ ChangeInv /\ SyncInv
  BY DEF gfsVars, Changing, StoreInv
<1>2. TransferEffect
  BY Parts, DeviceEffect
<1>3. job.pc \in Transferring /\ call.r = Wanted
  BY <1>2, Parts DEF TransferEffect, JobInv, TransferInv
<1>4. CASE medium' = medium
  <2>1. FormatInv'
    BY <1>1, <1>4, QuietDisk DEF FormatInv
  <2>2. TriesInv'
    BY <1>1, <1>4, QuietDisk, TriesStep
  <2>3. ChangeInv'
    BY <1>1, <1>4 DEF ChangeInv, PutInv, DataOnDisk, Removing
  <2>4. SyncInv'
    BY <1>1, <1>4, QuietDisk DEF SyncInv, Synced
  <2>5. Refines
    BY <1>1, <1>4, QuietDisk, StutterStep
  <2> QED
    BY <2>1, <2>2, <2>3, <2>4, <2>5 DEF StoreInv
<1>5. CASE call.r.type = "out" /\ medium' = [medium EXCEPT ![call.r.lba] = call.r.val]
  <2>1. job.pc \in {"fmt_super", "fmt_inodes", "fmt_data", "store", "data"}
    BY <1>3, <1>5, Parts, WantedFacts DEF Transferring
  <2>2. medium' = [medium EXCEPT ![Wanted.lba] = Wanted.val]
    BY <1>3, <1>5
  <2>3. /\ FormatInv' /\ ChangeInv' /\ SyncInv'
        /\ \A p \in Paths \ (unknown \cup Changing) : Contained(OnDisk, p)' = Contained(OnDisk, p)
    <3>1. CASE job.pc = "data"
      BY <1>3, <2>2, <3>1, DataSectorStep
    <3>2. CASE job.pc = "store"
      BY <1>3, <2>2, <3>2, StoreSectorStep
    <3>3. CASE job.pc \in {"fmt_super", "fmt_inodes", "fmt_data"}
      BY <1>3, <2>2, <3>3, FormatSectorStep
    <3> QED
      BY <2>1, <3>1, <3>2, <3>3
  <2>4. TriesInv'
    BY <1>1, <2>1, TriesStep
  <2>5. Refines
    BY <1>1, <2>3, StutterStep
  <2> QED
    BY <2>3, <2>4, <2>5 DEF StoreInv
<1> QED
  BY <1>2, <1>4, <1>5 DEF TransferEffect

-----------------------------------------------------------------------------
(***************************************************************************)
(* The theorem                                                             *)
(***************************************************************************)
LEMMA StoreInit == Init => StoreInv /\ Abstract!Init
<1> SUFFICES ASSUME Init PROVE StoreInv /\ Abstract!Init
  OBVIOUS
<1>1. /\ medium = [l \in Lba |-> Blank] /\ mounted = FALSE /\ inodes = Cleared /\ answer = Failed
      /\ unknown = {} /\ stale = {} /\ job = [NoJob EXCEPT !.pc = "off"] /\ errors = 0 /\ call = Idle
  BY DEF Init, DiskInit
<1>2. job.pc = "off" /\ job.op = "none"
  BY <1>1 DEF NoJob
<1>3. DiskTable = Cleared
  BY <1>1, InodeSectors DEF DiskTable, Cleared, NoInode
<1>4. StoreInv
  <2>1. FormatInv
    BY <1>1, <1>2, <1>3 DEF FormatInv
  <2>2. TriesInv
    BY <1>1, <1>2, DiskAssumption DEF TriesInv
  <2>3. ChangeInv /\ SyncInv
    BY <1>1, <1>2 DEF ChangeInv, PutInv, SyncInv
  <2> QED
    BY <2>1, <2>2, <2>3 DEF StoreInv
<1>5. Files = [p \in Paths |-> NoFile]
  <2>1. OnDisk = Cleared /\ Changing = {}
    BY <1>2, <1>3, <1>4, OnDiskTable DEF Changing, StoreInv
  <2>2. \A p : Contained(OnDisk, p) = NoFile
    BY <2>1, ClearedFacts DEF Contained
  <2> QED
    BY <1>1, <2>1, <2>2 DEF Files
<1>6. Pending = [path |-> NoFile, to |-> NoFile]
  BY <1>2 DEF Pending, Changing
<1> QED
  BY <1>1, <1>4, <1>5, <1>6 DEF Abstract!Init, Abstract!NoChange, Abstract!Failed, Failed

LEMMA StoreNext ==
    ASSUME MaxErrors < MountTries, GfsInv, StoreInv, [Next]_vars
    PROVE  StoreInv' /\ Refines
<1>1. CASE Boot
  BY <1>1, BootStore
<1>2. CASE Call
  <2>1. Contents \subseteq Seq(Sector) /\ <<>> \in Seq(Sector)
    BY SectorAssumption
  <2>2. CASE WriteFile
    BY <2>1, <2>2, StartStore DEF WriteFile, FileOps
  <2>3. CASE ReadFile
    BY <2>1, <2>3, StartStore DEF ReadFile, FileOps
  <2>4. CASE DeleteFile
    BY <2>1, <2>4, StartStore DEF DeleteFile, FileOps
  <2>5. CASE hosts_load_once
    BY <2>5, LookupStore
  <2> QED
    BY <1>2, <2>2, <2>3, <2>4, <2>5 DEF Call
<1>3. CASE Step
  BY <1>3, MountStore, RunStore, SeedStore, TransferStore, SuperStore, InodesStore, FormatStore,
     DataStore, StoredStore, ReadStore DEF Step
<1>4. CASE Device
  BY <1>4, DeviceStore DEF Device
<1>5. CASE Crash
  BY <1>5, CrashStore
<1>6. CASE UNCHANGED vars
  <2>1. /\ UNCHANGED <<medium, errors, call, unseen, req>>
        /\ UNCHANGED <<inodes, job, mounted, answer, unknown, stale>> /\ Changing' = Changing
    BY <1>6 DEF vars, diskVars, gfsVars, Changing
  <2>2. FormatInv' /\ TriesInv'
    BY <2>1, QuietDisk DEF FormatInv, TriesInv, StoreInv
  <2>3. ChangeInv'
    BY <2>1 DEF ChangeInv, PutInv, DataOnDisk, Removing, StoreInv
  <2>4. SyncInv'
    BY <2>1, QuietDisk DEF SyncInv, Synced, StoreInv
  <2>5. Refines
    BY <2>1, QuietDisk, StutterStep
  <2> QED
    BY <2>2, <2>3, <2>4, <2>5 DEF StoreInv
<1> QED
  BY <1>1, <1>2, <1>3, <1>4, <1>5, <1>6 DEF Next

(* GFS (gfs.c, on the drivers of virtio_blk.c and disk.c) is a FileStore,  *)
(* whatever transfers fail and whenever the machine goes down, unless      *)
(* every try of one mount fails, when gfs_init formats the disk.           *)
THEOREM FileStoreImplemented ==
    ASSUME MaxErrors < MountTries
    PROVE  Spec => ImplementsFileStore
<1>1. Init => StoreInv /\ Abstract!Init
  BY StoreInit
<1>2. GfsInv /\ StoreInv /\ [Next]_vars => StoreInv' /\ [Abstract!Next]_(Abstract!vars)
  BY StoreNext DEF Refines
<1> QED
  BY <1>1, <1>2, GfsInvariance, PTL DEF Spec, ImplementsFileStore, Abstract!Spec

===============================================================================
