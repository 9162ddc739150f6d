------------------------------ MODULE VirtioBlk ------------------------------
(***************************************************************************)
(* The disk of Grid OS: the virtio-blk driver (src/kernel/virtio_blk.c),   *)
(* its dispatch and the ATA driver (src/kernel/disk.c), and the device     *)
(* behind them.                                                            *)
(*                                                                         *)
(* The driver has ONE request: a header, a data buffer and a status byte   *)
(* that every descriptor chain it posts points to.  The device takes the   *)
(* chains posted in the avail ring (DeviceFetch, which reads the header)   *)
(* and completes them in any order (DeviceComplete, which moves the data   *)
(* between the buffer and the medium).  A caller of disk_read and          *)
(* disk_write waits until call.st is "done".                               *)
(***************************************************************************)
EXTENDS Integers, Sequences

CONSTANTS
    Machines,   \* the disks a machine may have: "virtio", "ide", both or none
    Lba,        \* the sectors of the disk
    Sector,     \* what a sector can hold
    Blank,      \* a sector of zeroes
    Attempts,   \* requests made for one transfer (3 in the source)
    MaxErrors   \* bound: transfers the device reports as failed, in all

ASSUME DiskAssumption ==
    /\ Machines \subseteq SUBSET {"virtio", "ide"}
    /\ Blank \in Sector
    /\ Attempts \in Nat \ {0}
    /\ MaxErrors \in Nat

VARIABLES
    disks,      \* the disks of this machine
    medium,     \* Lba -> Sector: survives a crash
    errors,     \* transfers that failed so far
    backend,    \* disk.c: the driver in use, or "none" before disk_init
    req,        \* virtio_blk.c: req_hdr, data_buf and req_status
    posted,     \* chains in the avail ring the device has not fetched
    work,       \* headers of the chains the device is carrying out
    unseen,     \* used->idx - last_used_idx
    call        \* the transfer the kernel is waiting for

diskVars == <<disks, medium, errors, backend, req, posted, work, unseen, call>>

Idle == [st |-> "idle"]
NoRequest == [type |-> "in", lba |-> CHOOSE l \in Lba : TRUE,
              buf |-> Blank, status |-> "pending"]

Read(l) == [type |-> "in", lba |-> l, val |-> Blank]
Write(l, v) == [type |-> "out", lba |-> l, val |-> v]

DiskInit ==
    /\ disks \in Machines
    /\ errors = 0
    /\ backend = "none"
    /\ req = NoRequest
    /\ posted = 0
    /\ work = <<>>
    /\ unseen = 0
    /\ call = Idle

(* disk_init: virtio is probed first, then IDE, and a second call does     *)
(* nothing.  setup_queue empties the rings.                                *)
disk_init ==
    /\ call = Idle
    /\ IF backend # "none"
       THEN UNCHANGED diskVars
       ELSE /\ backend' = IF "virtio" \in disks THEN "virtio" ELSE
                          IF "ide" \in disks THEN "ide" ELSE "none"
            /\ req' = NoRequest
            /\ posted' = 0
            /\ work' = <<>>
            /\ unseen' = 0
            /\ UNCHANGED <<disks, medium, errors, call>>

(* The part of submit_request before it waits: the shared request is       *)
(* filled (the buffer only by a write) and one more chain is posted.       *)
FillRequest(r) ==
    /\ req' = [type |-> r.type, lba |-> r.lba, status |-> "pending",
               buf |-> IF r.type = "out" THEN r.val ELSE req.buf]
    /\ posted' = posted + 1

Finish(rc, v) == call' = [st |-> "done", r |-> call.r, rc |-> rc, val |-> v]

(* disk_read and disk_write, up to the first wait.                         *)
disk_call(r) ==
    /\ call = Idle
    /\ CASE backend = "virtio" ->
              /\ call' = [st |-> "wait", r |-> r, try |-> 1]
              /\ FillRequest(r)
         [] backend = "ide" ->
              /\ call' = [st |-> "pio", r |-> r]
              /\ UNCHANGED <<req, posted>>
         [] OTHER ->
              /\ call' = [st |-> "done", r |-> r, rc |-> -1, val |-> r.val]
              /\ UNCHANGED <<req, posted>>
    /\ UNCHANGED <<disks, medium, errors, backend, work, unseen>>

(* The device takes a chain: it reads the header there is now.             *)
DeviceFetch ==
    /\ posted > 0
    /\ posted' = posted - 1
    /\ work' = Append(work, [type |-> req.type, lba |-> req.lba])
    /\ UNCHANGED <<disks, medium, errors, backend, req, unseen, call>>

Without(s, i) == [j \in 1..(Len(s) - 1) |-> IF j < i THEN s[j] ELSE s[j + 1]]

(* The device ends a chain, in any order: data, status byte, used ring.    *)
DeviceComplete ==
    \E i \in 1..Len(work) :
        /\ work' = Without(work, i)
        /\ unseen' = unseen + 1
        /\ \/ /\ req' = [req EXCEPT !.status = "ok",
                              !.buf = IF work[i].type = "in"
                                      THEN medium[work[i].lba] ELSE @]
              /\ medium' = IF work[i].type = "out"
                           THEN [medium EXCEPT ![work[i].lba] = req.buf]
                           ELSE medium
              /\ UNCHANGED errors
           \/ /\ errors < MaxErrors
              /\ errors' = errors + 1
              /\ req' = [req EXCEPT !.status = "error"]
              /\ UNCHANGED medium
        /\ UNCHANGED <<disks, backend, posted, call>>

(* One attempt ended with rc # 0: virtio_blk_read and virtio_blk_write try *)
(* again, as often as Attempts allows.                                     *)
Again ==
    IF call.try < Attempts
    THEN call' = [call EXCEPT !.try = @ + 1] /\ FillRequest(call.r)
    ELSE Finish(-1, call.r.val) /\ UNCHANGED <<req, posted>>

(* wait_used sees used->idx move: last_used_idx is set to it, whatever the *)
(* number of completions, and the status byte decides.                     *)
wait_used ==
    /\ call.st = "wait"
    /\ unseen > 0
    /\ unseen' = 0
    /\ IF req.status = "ok"
       THEN Finish(0, IF call.r.type = "in" THEN req.buf ELSE call.r.val)
            /\ UNCHANGED <<req, posted>>
       ELSE Again
    /\ UNCHANGED <<disks, medium, errors, backend, work>>

(* wait_used gives up after its poll budget, with nothing completed.       *)
Timeout ==
    /\ call.st = "wait"
    /\ unseen = 0
    /\ Again
    /\ UNCHANGED <<disks, medium, errors, backend, work, unseen>>

(* ide_transfer: the drive never gets ready, and nothing is transferred;   *)
(* or it does, and what it makes of a written sector is not looked at.     *)
ide_transfer ==
    /\ call.st = "pio"
    /\ \/ /\ errors < MaxErrors
          /\ errors' = errors + 1
          /\ Finish(-1, call.r.val)
          /\ UNCHANGED medium
       \/ /\ Finish(0, IF call.r.type = "in" THEN medium[call.r.lba]
                       ELSE call.r.val)
          /\ medium' = IF call.r.type = "out"
                       THEN [medium EXCEPT ![call.r.lba] = call.r.val]
                       ELSE medium
          /\ UNCHANGED errors
    /\ UNCHANGED <<disks, backend, req, posted, work, unseen>>

(* What goes on while the kernel waits for a transfer.                     *)
DiskStep == DeviceFetch \/ DeviceComplete \/ wait_used \/ ide_transfer
SlowDiskStep == DiskStep \/ Timeout

(* Power is lost or the machine is reset: the medium is what remains.      *)
DiskCrash ==
    /\ backend' = "none"
    /\ req' = NoRequest
    /\ posted' = 0
    /\ work' = <<>>
    /\ unseen' = 0
    /\ call' = Idle
    /\ UNCHANGED <<disks, medium, errors>>
==============================================================================
