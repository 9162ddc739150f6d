------------------------------ MODULE FileStore ------------------------------
(***************************************************************************)
(* What GFS promises to the rest of the kernel: a map from paths to        *)
(* contents that a crash leaves alone, except for the file an operation    *)
(* was changing, and for files whose last change was reported as failed.   *)
(* Such a file is `unknown' until an operation succeeds or the volume is   *)
(* mounted again.  A file whose removal ever failed may have an older copy *)
(* that a later, successful removal brings back: it is `stale'.            *)
(***************************************************************************)
CONSTANTS
    Paths,
    Contents,       \* what programs write
    Anything,       \* what an unknown file may turn out to hold, Contents included
    NoFile, Unknown

VARIABLES
    files,      \* path -> contents, NoFile or Unknown
    pending,    \* the change being made: [path, to], or NoChange
    answer,     \* of the last operation: ok, and the contents for a read
    stale       \* files whose removal ever failed

vars == <<files, pending, answer, stale>>

Settled == Anything \cup {NoFile}
NoChange == [path |-> NoFile, to |-> NoFile]
Ok(c) == [ok |-> TRUE, read |-> c]
Failed == [ok |-> FALSE, read |-> NoFile]

Init ==
    /\ files = [p \in Paths |-> NoFile]
    /\ pending = NoChange
    /\ answer = Failed
    /\ stale = {}

(* Every unknown file becomes something; no other file changes.            *)
Resolve ==
    /\ files' \in [Paths -> Settled]
    /\ \A p \in Paths : files[p] # Unknown => files'[p] = files[p]

(* The first effect of a change on memory or on the disk.                  *)
Begin ==
    /\ pending = NoChange
    /\ \E p \in Paths, c \in Contents \cup {NoFile} :
          /\ pending' = [path |-> p, to |-> c]
          /\ files' = [files EXCEPT ![p] = Unknown]
    /\ UNCHANGED <<answer, stale>>

(* A change succeeds: its file is as asked (unless it is a removal and the *)
(* file is stale), and no file is unknown.                                 *)
Succeed ==
    /\ pending # NoChange
    /\ Resolve
    /\ \/ files'[pending.path] = pending.to
       \/ pending.to = NoFile /\ pending.path \in stale
    /\ pending' = NoChange
    /\ answer' = Ok(NoFile)
    /\ UNCHANGED stale

(* An operation fails, after some effect on its own file or without any.   *)
Fail ==
    /\ UNCHANGED files
    /\ pending' = NoChange
    /\ answer' = Failed
    /\ stale' = IF pending # NoChange /\ pending.to = NoFile
                THEN stale \cup {pending.path} ELSE stale

(* A crash in the middle of a change.                                      *)
Crash == pending' = NoChange /\ UNCHANGED <<files, answer, stale>>

Read ==
    /\ pending = NoChange
    /\ \E p \in Paths, c \in Anything :
          files[p] \in {c, Unknown} /\ answer' = Ok(c)
    /\ UNCHANGED <<files, pending, stale>>

(* The volume is mounted: what is on the disk now is what there is.        *)
Mount == pending = NoChange /\ Resolve /\ UNCHANGED <<pending, answer, stale>>

Next == Begin \/ Succeed \/ Fail \/ Crash \/ Read \/ Mount

Spec == Init /\ [][Next]_vars
==============================================================================
