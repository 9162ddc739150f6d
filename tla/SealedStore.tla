----------------------------- MODULE SealedStore ------------------------------
(***************************************************************************)
(* What a sealed record on a disk promises: it is never taken for anything *)
(* but a content the machine meant to save.  A save goes through states    *)
(* where nothing valid is stored, and a crash may leave it in one; but     *)
(* what is found at the next start is the content of the save that was     *)
(* interrupted, or of the one before it, or nothing.                       *)
(***************************************************************************)
CONSTANTS
    Contents,   \* what can be saved
    Nothing,    \* no valid record
    Reliable    \* the disk can always be read

VARIABLES
    working,    \* the content in memory
    stored,     \* the content a start would find, or Nothing
    meant,      \* the content of the last save begun, or Nothing
    phase,      \* "off", "up" or "saving"
    accepted,   \* the last start took its content from the disk
    saved       \* outcome of the last save since the start

vars == <<working, stored, meant, phase, accepted, saved>>

Init ==
    /\ working \in Contents /\ stored \in Contents \cup {Nothing}
    /\ meant \in Contents \cup {Nothing}
    /\ phase = "off" /\ accepted = FALSE /\ saved = "none"

\* A start that accepts the record has its content; it may also have to
\* save it again, in a newer form.  When the disk fails to give some of it,
\* what it gives may still be recognised as what the last save meant.
Start ==
    /\ phase = "off" /\ phase' \in {"up", "saving"}
    /\ working' # Nothing
    /\ \/ working' = stored
       \/ ~Reliable /\ working' = meant
    /\ accepted' = TRUE
    /\ UNCHANGED <<stored, meant, saved>>

StartWithout ==
    /\ phase = "off" /\ phase' = "up"
    /\ Reliable => stored = Nothing
    /\ working' \in Contents
    /\ accepted' = FALSE
    /\ UNCHANGED <<stored, meant, saved>>

Edit ==
    /\ phase = "up" /\ phase' \in {"up", "saving"}
    /\ working' \in Contents
    /\ UNCHANGED <<stored, meant, accepted, saved>>

\* One write of a save: the record becomes unreadable, or reads as the new
\* content, or still as the old one.
Write ==
    /\ phase = "saving" /\ phase' = "saving"
    /\ stored' \in {stored, Nothing, working} /\ meant' \in {meant, working}
    /\ UNCHANGED <<working, accepted, saved>>

\* A save that says it succeeded has stored the content.
EndSave ==
    /\ phase = "saving" /\ phase' = "up"
    /\ \/ saved' = "ok" /\ stored' = working
       \/ saved' = "failed" /\ stored' \in {stored, Nothing, working}
    /\ meant' \in {meant, working}
    /\ UNCHANGED <<working, accepted>>

Crash ==
    /\ phase # "off" /\ phase' = "off"
    /\ accepted' = FALSE /\ saved' = "none"
    /\ working' \in Contents
    /\ UNCHANGED <<stored, meant>>

Next == Start \/ StartWithout \/ Edit \/ Write \/ EndSave \/ Crash

Spec == Init /\ [][Next]_vars
==============================================================================
