------------------------------ MODULE SlowDisk -------------------------------
(***************************************************************************)
(* The drivers of VirtioBlk with a device that may be slower than the poll *)
(* budget of wait_used, and one caller that reads and writes any sector.   *)
(***************************************************************************)
EXTENDS VirtioBlk

CONSTANT a      \* something a program writes

Init == DiskInit /\ medium = [l \in Lba |-> Blank]

Ask == \E l \in Lba, v \in Sector \ {Blank} : disk_call(Read(l)) \/ disk_call(Write(l, v))

Take ==
    /\ call.st = "done"
    /\ call' = Idle
    /\ UNCHANGED <<disks, medium, errors, backend, req, posted, work, unseen>>

Next == (backend = "none" /\ disk_init) \/ (backend # "none" /\ Ask) \/ Take \/ SlowDiskStep

Spec == Init /\ [][Next]_diskVars

(* virtio_blk.c:340: "Only one request is ever outstanding (submit_request *)
(* runs under cli/sti), so a completion is unambiguously ours and          *)
(* req_status holds its result."  A transfer that succeeded has then been  *)
(* carried out: what was read is, and what was written is now, in the      *)
(* sector that was asked for.                                              *)
CompletionIsOurs ==
    (call.st = "done" /\ call.rc = 0) => call.val = medium[call.r.lba]
==============================================================================
