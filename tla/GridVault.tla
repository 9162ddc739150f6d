------------------------------ MODULE GridVault -------------------------------
(***************************************************************************)
(* The Grid Vault of kernel/storage.c: a checksummed record in memory and  *)
(* its copy on the disk, a signature sector and three more, written one at *)
(* a time.  With it the two states it persists: the ISO zone, which the    *)
(* timer interrupt goes on changing, and the identity disc of disc.c.      *)
(*                                                                         *)
(* The checksum is taken to have no collisions: it is what it covers.  It  *)
(* covers the record but for its last four bytes, which are the tail of    *)
(* the last entry's value and are alone in the third sector.  The identity *)
(* and cycle count, saved and restored whole, are left out.                *)
(***************************************************************************)
EXTENDS IsoZone, FiniteSets

CONSTANTS
    VaultEntries,   \* VAULT_ENTRIES: 8 in the code
    Keys,           \* keys a user can put
    Values,         \* values a user can put, as records of a front and a tail
    XpMax,          \* bound on the experience points earned since power-on
    Nothing,        \* no valid record
    LegacyDisk,     \* the disk may hold a vault of version 5
    ReadsFail       \* a disk read may fail

VARIABLES
    vault,      \* the record in memory
    disk,       \* the signature's version and the record's sectors
    task,       \* what the kernel is doing
    purpose,    \* why it is doing it
    step,       \* how far it has come
    saved,      \* result of the last sync or migration since power-on
    loaded,     \* whether storage_init has taken the disk's record
    disc_xp     \* disc.c's counters, level and points as one total

job == <<task, purpose, step>>
vars == <<zone, vault, disk, job, saved, loaded, disc_xp>>

Slots == 1 .. VaultEntries

ASSUME VaultAssumption ==
    /\ VaultEntries \in Nat /\ VaultEntries >= 2
    /\ Values \subseteq [front : Nat, tail : Nat]
    /\ XpMax \in Nat /\ LegacyDisk \in BOOLEAN /\ ReadsFail \in BOOLEAN

AllKeys == Keys \cup {"", "disc_xp", "disc_entity"}
Entry == [key : AllKeys, front : Nat, tail : Nat]

\* An entry not in use, whose bytes nothing reads.
NoEntry == [key |-> "", front |-> 0, tail |-> 0]

Zeroed == [version |-> 0, sum |-> <<>>, isos |-> [i \in IsoIds |-> NoIso],
           entries |-> [n \in Slots |-> NoEntry]]

------------------------------------------------------------------------------
(***************************************************************************)
(* The record                                                              *)
(***************************************************************************)
\* Mutant: the checksum leaves the ISOs out.
CoveredEntries(v) == [version |-> v.version, isos |-> [i \in IsoIds |-> NoIso],
                      entries |-> [v.entries EXCEPT ![VaultEntries].tail = 0]]

\* What the checksum is computed over.
Covered(v) == [version |-> v.version, isos |-> v.isos,
               entries |-> [v.entries EXCEPT ![VaultEntries].tail = 0]]

vault_valid_version(v, version) == v.version = version /\ v.sum = <<Covered(v)>>
vault_valid(v) == vault_valid_version(v, 6)
Sealed(v) == [v EXCEPT !.sum = <<Covered(v)>>]

\* The sectors an entry lies in: the header, the ISOs and the first entry
\* share sector 0, and the end of the last value is alone in sector 2.
EntrySector(n) == IF n = 1 THEN 0 ELSE 1
TailSector(n) == IF n = VaultEntries THEN 2 ELSE EntrySector(n)

\* `to' with the bytes of some sectors taken from `from'.
Copied(sectors, from, to) ==
    LET source(s) == IF s \in sectors THEN from ELSE to
    IN  [source(0) EXCEPT !.entries =
            [n \in Slots |-> [key |-> source(EntrySector(n)).entries[n].key,
                              front |-> source(EntrySector(n)).entries[n].front,
                              tail |-> source(TailSector(n)).entries[n].tail]]]

\* vault_put_raw: the entry of that key, else the first one not in use.
Holders(v, key) == {n \in Slots : v.entries[n].key = key}
Targets(v, key) == IF Holders(v, key) # {} THEN Holders(v, key) ELSE Holders(v, "")

vault_put_raw(v, key, value) ==
    [v EXCEPT !.entries =
        [n \in Slots |->
            IF n \in Targets(v, key) /\ \A m \in Targets(v, key) : n <= m
            THEN [key |-> key, front |-> value.front, tail |-> value.tail]
            ELSE v.entries[n]]]

\* storage_put reseals the record, unless it was full.
storage_put(v, key, value) ==
    IF Targets(v, key) = {} THEN v ELSE Sealed(vault_put_raw(v, key, value))

Number(n) == [front |-> n, tail |-> 0]

------------------------------------------------------------------------------
(***************************************************************************)
(* Power-on: disc_init, then storage_init with its reads                   *)
(***************************************************************************)
\* disc_init finds an empty vault and puts the default entity in it.
AfterDiscInit == storage_put(Zeroed, "disc_entity", Number(0))

\* The sectors storage_load_disk wants for a signature's version.
Wanted(version) ==
    CASE version = 6 -> {0, 1, 2} [] version = 5 -> {0, 1} [] OTHER -> {}

\* Mutant: a version 5 record keeps its version number when it is loaded.
MigratedAsIs(v) == Sealed(v)

migrate_vault_v5_to_v6(v) == Sealed([v EXCEPT !.version = 6])

\* How many sectors are read before a read fails; -1: not even the signature.
Readable == IF ReadsFail THEN -1 .. 3 ELSE {3}

Boot(n) ==
    LET version == IF n >= 0 THEN disk.sig ELSE 0
        read == {s \in Wanted(version) : s < n}
        found == Copied(read, disk.body, AfterDiscInit)
        old == version = 5 /\ read = Wanted(5) /\ vault_valid_version(found, 5)
    IN  /\ task = "off"
        /\ disc_xp' = 0
        /\ \/ /\ old
              /\ vault' = migrate_vault_v5_to_v6(found)
              /\ task' = "sign" /\ purpose' = "migrate" /\ step' = 0
              /\ UNCHANGED <<zone, loaded>>
           \/ /\ ~old
              /\ vault' = found
              /\ zone' = IF vault_valid(found) THEN found.isos ELSE zone
              /\ loaded' = IF vault_valid(found) THEN "accepted" ELSE "refused"
              /\ task' = "idle" /\ purpose' = "none" /\ step' = 0
        /\ UNCHANGED <<disk, saved>>

\* Power is lost or the machine is reset.
Crash ==
    /\ task # "off"
    /\ task' = "off" /\ purpose' = "none" /\ step' = 0
    /\ vault' = Zeroed
    /\ zone' = [i \in IsoIds |-> NoIso]
    /\ saved' = "none" /\ loaded' = "none" /\ disc_xp' = 0
    /\ UNCHANGED disk

------------------------------------------------------------------------------
(***************************************************************************)
(* Commands at the prompt, and the timer                                   *)
(***************************************************************************)
Idle == task = "idle"

Put(key, value) ==
    /\ Idle
    /\ vault' = storage_put(vault, key, value)
    /\ UNCHANGED <<zone, disk, job, saved, loaded, disc_xp>>

\* disc_add_xp and disc_save; the new total need not find an entry.
AddXp ==
    /\ Idle /\ disc_xp < XpMax
    /\ disc_xp' = disc_xp + 1
    /\ vault' = storage_put(vault, "disc_xp", Number(disc_xp'))
    /\ UNCHANGED <<zone, disk, job, saved, loaded>>

ZoneCommand ==
    /\ Idle /\ ZoneNext
    /\ UNCHANGED <<vault, disk, job, saved, loaded, disc_xp>>

\* The timer interrupt with the autopilot on; interrupts are off until
\* storage_init has returned.
AutopilotTick ==
    /\ task # "off" /\ purpose # "migrate"
    /\ iso_autopilot_step
    /\ UNCHANGED <<vault, disk, job, saved, loaded, disc_xp>>

------------------------------------------------------------------------------
(***************************************************************************)
(* storage_snapshot, alone (`vault save', `vault export') or for a sync    *)
(***************************************************************************)
SnapshotBegins(why) ==
    /\ Idle
    /\ vault' = [vault EXCEPT !.version = 6]
    /\ task' = "capture" /\ purpose' = why /\ step' = 1
    /\ UNCHANGED <<zone, disk, saved, loaded, disc_xp>>

\* capture_iso_state copies one slot of the zone: the genome first ...
CaptureGenome(i) ==
    /\ task = "capture" /\ step = 2 * i - 1
    /\ vault' = [vault EXCEPT !.isos[i] =
                    IF Used(i) THEN [@ EXCEPT !.genome = zone[i].genome] ELSE NoIso]
    /\ step' = step + 1
    /\ UNCHANGED <<zone, disk, task, purpose, saved, loaded, disc_xp>>

\* ... and then the generation and the state.
CaptureRest(i) ==
    /\ task = "capture" /\ step = 2 * i
    /\ vault' = [vault EXCEPT !.isos[i] =
                    IF Used(i) THEN [zone[i] EXCEPT !.genome = vault.isos[i].genome] ELSE NoIso]
    /\ step' = step + 1
    /\ UNCHANGED <<zone, disk, task, purpose, saved, loaded, disc_xp>>

SnapshotEnds ==
    /\ task = "capture" /\ step > 2 * IsoSlots
    /\ vault' = Sealed(vault)
    /\ task' = IF purpose = "sync" THEN "sign" ELSE "idle"
    /\ purpose' = IF purpose = "sync" THEN "sync" ELSE "none"
    /\ step' = 0
    /\ UNCHANGED <<zone, disk, saved, loaded, disc_xp>>

------------------------------------------------------------------------------
(***************************************************************************)
(* storage_write_vault_sectors: the signature, then the three sectors      *)
(***************************************************************************)
\* The end of a sync, or of a migration inside storage_init, which restores
\* the record whether or not it could be written.
Finish(result) ==
    /\ saved' = result
    /\ task' = "idle" /\ purpose' = "none" /\ step' = 0
    /\ IF purpose = "migrate"
       THEN zone' = vault.isos /\ loaded' = "accepted"
       ELSE UNCHANGED <<zone, loaded>>

Signed == [disk EXCEPT !.sig = 6]

SectorWritten(s) == [disk EXCEPT !.body = Copied({s}, vault, @)]

write_disk_signature ==
    /\ task = "sign"
    /\ disk' = Signed
    /\ task' = "write" /\ step' = 0
    /\ UNCHANGED <<zone, vault, purpose, saved, loaded, disc_xp>>

WriteSector ==
    /\ task = "write"
    /\ disk' = SectorWritten(step)
    /\ \/ /\ step < 2 /\ step' = step + 1
          /\ UNCHANGED <<zone, task, purpose, saved, loaded>>
       \/ step = 2 /\ Finish("ok")
    /\ UNCHANGED <<vault, disc_xp>>

\* A write that fails, with or without reaching the disk, ends the save.
WriteFails ==
    /\ \/ task = "sign" /\ disk' \in {disk, Signed}
       \/ task = "write" /\ disk' \in {disk, SectorWritten(step)}
    /\ Finish("failed")
    /\ UNCHANGED <<vault, disc_xp>>

------------------------------------------------------------------------------
(***************************************************************************)
(* storage_import_serial clears the record before it reads any line        *)
(***************************************************************************)
ImportBegins ==
    /\ Idle
    /\ vault' = [vault EXCEPT !.version = 6, !.isos = [i \in IsoIds |-> NoIso],
                              !.entries = [n \in Slots |-> NoEntry]]
    /\ task' = "import" /\ purpose' = "import" /\ step' = 0
    /\ UNCHANGED <<zone, disk, saved, loaded, disc_xp>>

\* A VAULT: or an ISO: line as another Grid OS exported it.
ImportNode(key, value) ==
    /\ task = "import"
    /\ vault' = vault_put_raw(vault, key, value)
    /\ UNCHANGED <<zone, disk, job, saved, loaded, disc_xp>>

ImportIso(i, genome, generation) ==
    /\ task = "import"
    /\ generation > 0 => genome_valid(genome)
    /\ vault' = [vault EXCEPT !.isos[i] = [state |-> "ACTIVE", generation |-> generation,
                                           genome |-> genome]]
    /\ UNCHANGED <<zone, disk, job, saved, loaded, disc_xp>>

ImportEnds ==
    /\ task = "import"
    /\ vault' = Sealed(vault)
    /\ zone' = vault.isos
    /\ task' = "idle" /\ purpose' = "none" /\ UNCHANGED step
    /\ UNCHANGED <<disk, saved, loaded, disc_xp>>

\* No header, or no END in 512 attempts.
ImportFails ==
    /\ task = "import"
    /\ task' = "idle" /\ purpose' = "none" /\ UNCHANGED step
    /\ UNCHANGED <<zone, vault, disk, saved, loaded, disc_xp>>

------------------------------------------------------------------------------
\* A disk never used, or one written by a version 5 kernel.
LegacyBody ==
    Sealed([vault_put_raw(Zeroed, "disc_entity", Number(0)) EXCEPT !.version = 5])

Init ==
    /\ IsoInit
    /\ vault = Zeroed
    /\ \/ disk = [sig |-> 0, body |-> Zeroed]
       \/ LegacyDisk /\ disk = [sig |-> 5, body |-> LegacyBody]
    /\ task = "off" /\ purpose = "none" /\ step = 0
    /\ saved = "none" /\ loaded = "none" /\ disc_xp = 0

Save == write_disk_signature \/ WriteSector \/ WriteFails

Snapshot ==
    \/ \E why \in {"save", "sync"} : SnapshotBegins(why)
    \/ \E i \in IsoIds : CaptureGenome(i) \/ CaptureRest(i)
    \/ SnapshotEnds

Import ==
    \/ ImportBegins \/ ImportEnds \/ ImportFails
    \/ \E key \in Keys, value \in Values : ImportNode(key, value)
    \/ \E i \in IsoIds, genome \in Genome, generation \in 0 .. GenerationMax :
          ImportIso(i, genome, generation)

Next ==
    \/ \E n \in Readable : Boot(n)
    \/ \E key \in Keys, value \in Values : Put(key, value)
    \/ AddXp \/ ZoneCommand \/ AutopilotTick
    \/ Snapshot \/ Save \/ Import \/ Crash

Spec == Init /\ [][Next]_vars

------------------------------------------------------------------------------
(***************************************************************************)
(* What the vault promises                                                 *)
(***************************************************************************)
Contents == [isos : [IsoIds -> [state : IsoStates, generation : 0 .. GenerationMax, genome : Genome]],
             entries : [Slots -> Entry]]

ASSUME NothingAssumption == Nothing \notin Contents

\* The part of a record its checksum covers.
CoveredContent(v) == [isos |-> v.isos, entries |-> Covered(v).entries]

\* What storage_load_disk would find on the disk as it is.
DiskIsAccepted ==
    \E version \in {5, 6} : disk.sig = version /\ vault_valid_version(disk.body, version)
CoveredOnDisk == IF DiskIsAccepted THEN CoveredContent(disk.body) ELSE Nothing

\* The content the checksum on the disk was computed for.
Meant ==
    IF disk.body.sum = <<>> THEN Nothing
    ELSE [isos |-> disk.body.sum[1].isos, entries |-> disk.body.sum[1].entries]

Phase == CASE task = "off" -> "off" [] task \in {"sign", "write"} -> "saving" [] OTHER -> "up"

\* The vault keeps its contents as a sealed store does: neither a crash between
\* two sectors, nor a write that fails half-way, nor the upgrade from version 5
\* makes storage_init accept a content nobody saved; and a save that returns 0
\* is found at the next boot.
Covering == INSTANCE SealedStore
                WITH working <- CoveredContent(vault), stored <- CoveredOnDisk,
                     meant <- Meant, phase <- Phase,
                     accepted <- task # "off" /\ loaded # "refused",
                     Reliable <- ~ReadsFail
RecordAtomic == Covering!Spec
==============================================================================
