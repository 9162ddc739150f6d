---------------------------- MODULE GridVaultProofs ----------------------------
(***************************************************************************)
(* The Grid Vault implements the sealed store, for every number of entries *)
(* and ISOs, all keys and values, and any pattern of reads that fail.      *)
(***************************************************************************)
EXTENDS GridVault, TLAPS

Iso == [state : IsoStates, generation : 0 .. GenerationMax, genome : Genome]
IsoTable == [IsoIds -> Iso]
EntryTable == [Slots -> Entry]
Version == {0, 5, 6}
Seal == {<<>>} \cup {<<c>> : c \in [version : Version, isos : IsoTable, entries : EntryTable]}
Record == [version : Version, sum : Seal, isos : IsoTable, entries : EntryTable]

------------------------------------------------------------------------------
(***************************************************************************)
(* Records                                                                 *)
(***************************************************************************)
LEMMA ZeroedIsRecord == Zeroed \in Record /\ NoIso \in Iso /\ NoEntry \in Entry
<1>1. NoEntry \in Entry
  BY DEF NoEntry, Entry, AllKeys
<1>2. NoIso \in Iso
  BY IsoAssumption DEF NoIso, Iso, IsoStates, Genome, Byte
<1> QED
  BY <1>1, <1>2 DEF Zeroed, Record, Version, Seal, IsoTable, EntryTable

\* The checksum of a record does not depend on the checksum it carries.
LEMMA CoveredFacts ==
    ASSUME NEW v \in Record
    PROVE  /\ Covered(v) = [version |-> v.version, isos |-> v.isos,
                            entries |-> Covered(v).entries]
           /\ Covered(v) \in [version : Version, isos : IsoTable, entries : EntryTable]
           /\ CoveredContent(v) \in Contents
           /\ CoveredContent(v) # Nothing
<1>1. [v.entries EXCEPT ![VaultEntries].tail = 0] \in EntryTable
  BY DEF Record, EntryTable, Entry
<1>2. CoveredContent(v) \in Contents
  BY <1>1 DEF CoveredContent, Contents, Covered, Record, IsoTable, EntryTable, Iso
<1> QED
  BY <1>1, <1>2, NothingAssumption DEF Covered, Record

LEMMA SealedFacts ==
    ASSUME NEW v \in Record
    PROVE  /\ Sealed(v) \in Record
           /\ Sealed(v).version = v.version /\ Sealed(v).isos = v.isos
           /\ Sealed(v).sum = <<Covered(Sealed(v))>>
           /\ Covered(Sealed(v)) = Covered(v)
<1>1. /\ Sealed(v) = [version |-> v.version, sum |-> <<Covered(v)>>,
                      isos |-> v.isos, entries |-> v.entries]
  BY DEF Sealed, Record
<1>2. Covered(Sealed(v)) = Covered(v)
  BY <1>1 DEF Covered
<1>3. <<Covered(v)>> \in Seal
  BY CoveredFacts DEF Seal
<1> QED
  BY <1>1, <1>2, <1>3 DEF Record

LEMMA PutFacts ==
    ASSUME NEW v \in Record, NEW key \in AllKeys, NEW value \in [front : Nat, tail : Nat]
    PROVE  /\ vault_put_raw(v, key, value) \in Record
           /\ vault_put_raw(v, key, value).version = v.version
           /\ storage_put(v, key, value) \in Record
           /\ storage_put(v, key, value).version = v.version
<1>1. /\ vault_put_raw(v, key, value) \in Record
      /\ vault_put_raw(v, key, value).version = v.version
  <2> DEFINE new == [n \in Slots |->
                        IF n \in Targets(v, key) /\ \A m \in Targets(v, key) : n <= m
                        THEN [key |-> key, front |-> value.front, tail |-> value.tail]
                        ELSE v.entries[n]]
  <2>1. new \in EntryTable
    BY DEF EntryTable, Entry, Record
  <2>2. vault_put_raw(v, key, value) = [v EXCEPT !.entries = new]
    BY DEF vault_put_raw
  <2> QED
    BY <2>1, <2>2 DEF Record
<1> QED
  BY <1>1, SealedFacts DEF storage_put

------------------------------------------------------------------------------
(***************************************************************************)
(* Copying sectors                                                         *)
(***************************************************************************)
LEMMA CopiedFacts ==
    ASSUME NEW from \in Record, NEW to \in Record, NEW S
    PROVE  /\ Copied(S, from, to) \in Record
           /\ 0 \in S => /\ Copied(S, from, to).version = from.version
                         /\ Copied(S, from, to).sum = from.sum
                         /\ Copied(S, from, to).isos = from.isos
           /\ 0 \notin S => /\ Copied(S, from, to).version = to.version
                            /\ Copied(S, from, to).sum = to.sum
                            /\ Copied(S, from, to).isos = to.isos
           /\ \A n \in Slots :
                /\ EntrySector(n) \in S =>
                     /\ Copied(S, from, to).entries[n].key = from.entries[n].key
                     /\ Copied(S, from, to).entries[n].front = from.entries[n].front
                /\ EntrySector(n) \notin S =>
                     /\ Copied(S, from, to).entries[n].key = to.entries[n].key
                     /\ Copied(S, from, to).entries[n].front = to.entries[n].front
                /\ Copied(S, from, to).entries[n].tail =
                     IF TailSector(n) \in S THEN from.entries[n].tail ELSE to.entries[n].tail
<1> DEFINE source(s) == IF s \in S THEN from ELSE to
           new == [n \in Slots |-> [key |-> source(EntrySector(n)).entries[n].key,
                                    front |-> source(EntrySector(n)).entries[n].front,
                                    tail |-> source(TailSector(n)).entries[n].tail]]
<1>1. \A s : source(s) \in Record
  OBVIOUS
<1>2. new \in EntryTable
  BY <1>1 DEF Record, EntryTable, Entry
<1>3. Copied(S, from, to) = [source(0) EXCEPT !.entries = new]
  BY DEF Copied
<1>4. Copied(S, from, to) = [version |-> source(0).version, sum |-> source(0).sum,
                             isos |-> source(0).isos, entries |-> new]
  BY <1>1, <1>3 DEF Record
<1> HIDE DEF new
<1>5. Copied(S, from, to) \in Record
  BY <1>1, <1>2, <1>4 DEF Record
<1>6. \A n \in Slots :
        /\ new[n].key = source(EntrySector(n)).entries[n].key
        /\ new[n].front = source(EntrySector(n)).entries[n].front
        /\ new[n].tail = source(TailSector(n)).entries[n].tail
  BY DEF new
<1>7. \A n \in Slots :
        /\ EntrySector(n) \in S => source(EntrySector(n)) = from
        /\ EntrySector(n) \notin S => source(EntrySector(n)) = to
        /\ TailSector(n) \in S => source(TailSector(n)) = from
        /\ TailSector(n) \notin S => source(TailSector(n)) = to
  OBVIOUS
<1>8. /\ 0 \in S => source(0) = from
      /\ 0 \notin S => source(0) = to
  OBVIOUS
<1> HIDE DEF source
<1>9. \A n \in Slots :
        /\ Copied(S, from, to).entries[n].key = source(EntrySector(n)).entries[n].key
        /\ Copied(S, from, to).entries[n].front = source(EntrySector(n)).entries[n].front
        /\ Copied(S, from, to).entries[n].tail = source(TailSector(n)).entries[n].tail
  <2>1. Copied(S, from, to).entries = new
    BY <1>4
  <2> QED
    BY <1>6, <2>1
<1>10. /\ Copied(S, from, to).version = source(0).version
       /\ Copied(S, from, to).sum = source(0).sum
       /\ Copied(S, from, to).isos = source(0).isos
  BY <1>4
<1> QED
  BY <1>5, <1>7, <1>8, <1>9, <1>10

LEMMA CopiedHeader ==
    ASSUME NEW from \in Record, NEW to \in Record, NEW S
    PROVE  /\ Copied(S, from, to) \in Record
           /\ 0 \in S => /\ Copied(S, from, to).version = from.version
                         /\ Copied(S, from, to).sum = from.sum
           /\ 0 \notin S => Copied(S, from, to).version = to.version
BY CopiedFacts

\* Entries that agree but for the tail of the last are covered alike.
LEMMA CoveredAlike ==
    ASSUME NEW v \in Record, NEW w \in Record,
           v.version = w.version, v.isos = w.isos,
           \A n \in Slots : /\ v.entries[n].key = w.entries[n].key
                            /\ v.entries[n].front = w.entries[n].front
                            /\ n # VaultEntries => v.entries[n].tail = w.entries[n].tail
    PROVE  Covered(v) = Covered(w)
<1> DEFINE Cut(e) == [e EXCEPT ![VaultEntries].tail = 0]
<1>1. \A e \in EntryTable :
        /\ Cut(e) \in EntryTable
        /\ \A n \in Slots :
             Cut(e)[n] = [key |-> e[n].key, front |-> e[n].front,
                          tail |-> IF n = VaultEntries THEN 0 ELSE e[n].tail]
  BY DEF EntryTable, Entry
<1>2. /\ Covered(v) = [version |-> v.version, isos |-> v.isos, entries |-> Cut(v.entries)]
      /\ Covered(w) = [version |-> w.version, isos |-> w.isos, entries |-> Cut(w.entries)]
  BY DEF Covered
<1> HIDE DEF Cut
<1>3. v.entries \in EntryTable /\ w.entries \in EntryTable
  BY DEF Record
<1>4. Cut(v.entries) = Cut(w.entries)
  <2>1. ASSUME NEW n \in Slots PROVE Cut(v.entries)[n] = Cut(w.entries)[n]
    <3>1. /\ Cut(v.entries)[n] = [key |-> v.entries[n].key, front |-> v.entries[n].front,
                tail |-> IF n = VaultEntries THEN 0 ELSE v.entries[n].tail]
          /\ Cut(w.entries)[n] = [key |-> w.entries[n].key, front |-> w.entries[n].front,
                tail |-> IF n = VaultEntries THEN 0 ELSE w.entries[n].tail]
      BY <1>1, <1>3
    <3>2. (IF n = VaultEntries THEN 0 ELSE v.entries[n].tail)
            = (IF n = VaultEntries THEN 0 ELSE w.entries[n].tail)
      OBVIOUS
    <3> QED
      BY <3>1, <3>2
  <2> QED
    BY <1>1, <1>3, <2>1 DEF EntryTable
<1> QED
  BY <1>2, <1>4

LEMMA SectorFacts ==
    /\ 1 \in Slots /\ VaultEntries \in Slots /\ VaultEntries # 1
    /\ \A n \in Slots : EntrySector(n) \in {0, 1}
    /\ TailSector(VaultEntries) = 2
    /\ \A n \in Slots : n # VaultEntries => TailSector(n) = EntrySector(n)
    /\ EntrySector(1) = 0 /\ \A n \in Slots : EntrySector(n) = 0 => n = 1
BY VaultAssumption DEF Slots, EntrySector, TailSector

\* The first two sectors hold all that is covered, and the checksum.
LEMMA CopiedFront ==
    ASSUME NEW from \in Record, NEW to \in Record, NEW S, {0, 1} \subseteq S
    PROVE  /\ Copied(S, from, to).version = from.version
           /\ Copied(S, from, to).sum = from.sum
           /\ Copied(S, from, to).isos = from.isos
           /\ Covered(Copied(S, from, to)) = Covered(from)
<1> DEFINE v == Copied(S, from, to)
<1>1. v \in Record /\ v.version = from.version /\ v.sum = from.sum /\ v.isos = from.isos
  BY CopiedFacts
<1>2. ASSUME NEW n \in Slots
      PROVE  /\ v.entries[n].key = from.entries[n].key
             /\ v.entries[n].front = from.entries[n].front
             /\ n # VaultEntries => v.entries[n].tail = from.entries[n].tail
  <2>1. EntrySector(n) \in S /\ (n # VaultEntries => TailSector(n) \in S)
    BY SectorFacts
  <2> QED
    BY <2>1, CopiedFacts
<1> HIDE DEF v
<1>3. Covered(v) = Covered(from)
  BY <1>1, <1>2, CoveredAlike
<1> QED
  BY <1>1, <1>3 DEF v

\* The third sector holds nothing that is covered.
LEMMA CopiedTail ==
    ASSUME NEW from \in Record, NEW to \in Record
    PROVE  /\ Copied({2}, from, to).version = to.version
           /\ Copied({2}, from, to).sum = to.sum
           /\ Copied({2}, from, to).isos = to.isos
           /\ Covered(Copied({2}, from, to)) = Covered(to)
<1> DEFINE v == Copied({2}, from, to)
<1>1. v \in Record /\ v.version = to.version /\ v.sum = to.sum /\ v.isos = to.isos
  BY CopiedFacts
<1>2. ASSUME NEW n \in Slots
      PROVE  /\ v.entries[n].key = to.entries[n].key
             /\ v.entries[n].front = to.entries[n].front
             /\ n # VaultEntries => v.entries[n].tail = to.entries[n].tail
  <2>1. EntrySector(n) # 2 /\ (n # VaultEntries => TailSector(n) # 2)
    BY SectorFacts
  <2> QED
    BY <2>1, CopiedFacts
<1> HIDE DEF v
<1>3. Covered(v) = Covered(to)
  BY <1>1, <1>2, CoveredAlike
<1> QED
  BY <1>1, <1>3 DEF v

\* What the first sector holds of a record.
SameHead(v, w) ==
    /\ v.version = w.version /\ v.sum = w.sum /\ v.isos = w.isos
    /\ v.entries[1] = w.entries[1]

LEMMA CopiedHead ==
    ASSUME NEW from \in Record, NEW to \in Record
    PROVE  SameHead(Copied({0}, from, to), from)
<1> DEFINE v == Copied({0}, from, to)
<1>1. v.version = from.version /\ v.sum = from.sum /\ v.isos = from.isos
  BY CopiedFacts
<1>2. /\ v.entries[1].key = from.entries[1].key /\ v.entries[1].front = from.entries[1].front
      /\ v.entries[1].tail = from.entries[1].tail
  BY CopiedFacts, SectorFacts
<1>3. from.entries[1] \in Entry /\ v.entries[1] \in Entry
  BY CopiedFacts, SectorFacts DEF Record, EntryTable
<1> HIDE DEF v
<1>4. v.entries[1] = from.entries[1]
  BY <1>2, <1>3 DEF Entry
<1> QED
  BY <1>1, <1>4 DEF SameHead, v

\* The second sector completes it.
LEMMA CopiedRest ==
    ASSUME NEW from \in Record, NEW to \in Record, SameHead(to, from)
    PROVE  /\ SameHead(Copied({1}, from, to), from)
           /\ Covered(Copied({1}, from, to)) = Covered(from)
<1> DEFINE v == Copied({1}, from, to)
<1>1. v \in Record /\ v.version = from.version /\ v.sum = from.sum /\ v.isos = from.isos
  BY CopiedFacts DEF SameHead
<1>2. v.entries[1] = from.entries[1]
  <2>1. /\ v.entries[1].key = to.entries[1].key /\ v.entries[1].front = to.entries[1].front
        /\ v.entries[1].tail = to.entries[1].tail
    BY CopiedFacts, SectorFacts
  <2>2. to.entries[1] \in Entry /\ v.entries[1] \in Entry
    BY CopiedFacts, SectorFacts DEF Record, EntryTable
  <2> HIDE DEF v
  <2> QED
    BY <2>1, <2>2 DEF Entry, SameHead
<1>3. ASSUME NEW n \in Slots
      PROVE  /\ v.entries[n].key = from.entries[n].key
             /\ v.entries[n].front = from.entries[n].front
             /\ n # VaultEntries => v.entries[n].tail = from.entries[n].tail
  <2>1. CASE n = 1
    BY <1>2, <2>1
  <2>2. CASE n # 1
    <3>1. EntrySector(n) = 1 /\ (n # VaultEntries => TailSector(n) = 1)
      BY <2>2, SectorFacts
    <3> QED
      BY <3>1, CopiedFacts
  <2> QED
    BY <2>1, <2>2
<1> HIDE DEF v
<1>4. Covered(v) = Covered(from)
  BY <1>1, <1>3, CoveredAlike
<1> QED
  BY <1>1, <1>2, <1>4 DEF v, SameHead

------------------------------------------------------------------------------
(***************************************************************************)
(* The inductive invariant                                                 *)
(***************************************************************************)
TypeInv ==
    /\ zone \in IsoTable
    /\ vault \in Record
    /\ disk \in [sig : Version, body : Record]
    /\ task \in {"off", "idle", "capture", "sign", "write", "import"}
    /\ disc_xp \in Nat

\* A signature of version 6 comes before any record of version 6, and nothing
\* is loaded before storage_init has taken or refused the record.
StartInv ==
    /\ disk.sig # 6 => disk.body.version # 6
    /\ task = "off" => loaded = "none"
    /\ purpose = "migrate" => loaded = "none"
    /\ task = "capture" => vault.version = 6

\* A save writes a sealed record, which stays as it is; so much of it is on
\* the disk as has been written.
SaveInv ==
    /\ task \in {"sign", "write"} => vault_valid(vault)
    /\ task = "write" =>
          /\ disk.sig = 6 /\ step \in 0 .. 2
          /\ step >= 1 => SameHead(disk.body, vault)
          /\ step = 2 => Covered(disk.body) = Covered(vault)

VaultInv == TypeInv /\ StartInv /\ SaveInv

------------------------------------------------------------------------------
(***************************************************************************)
(* Steps that change no more than the record in memory                     *)
(***************************************************************************)
LEMMA SameDisk ==
    ASSUME UNCHANGED disk
    PROVE  Meant' = Meant /\ CoveredOnDisk' = CoveredOnDisk
BY DEF Meant, CoveredOnDisk, DiskIsAccepted

LEMMA EditStep ==
    ASSUME VaultInv, Phase = "up", Phase' \in {"up", "saving"}, vault' \in Record,
           UNCHANGED <<disk, saved, loaded>>
    PROVE  Covering!Next
<1>1. CoveredContent(vault)' \in Contents
  BY CoveredFacts
<1>2. task # "off" /\ task' # "off"
  BY DEF Phase
<1> QED
  BY <1>1, <1>2, SameDisk DEF Covering!Next, Covering!Edit

LEMMA StutterStep ==
    ASSUME UNCHANGED <<vault, disk, task, saved, loaded>>
    PROVE  UNCHANGED Covering!vars
BY SameDisk DEF Covering!vars, CoveredContent, Phase

LEMMA AfterDiscInitFacts ==
    /\ AfterDiscInit \in Record
    /\ AfterDiscInit.version = 0
<1>1. "disc_entity" \in AllKeys /\ Number(0) \in [front : Nat, tail : Nat]
  BY DEF AllKeys, Number
<1>2. Zeroed.version = 0
  BY DEF Zeroed
<1> QED
  BY <1>1, <1>2, ZeroedIsRecord, PutFacts DEF AfterDiscInit

LEMMA InitHolds == Init => VaultInv /\ Covering!Init
<1> SUFFICES ASSUME Init PROVE VaultInv /\ Covering!Init
  OBVIOUS
<1>1. /\ Zeroed.version = 0 /\ Zeroed.sum = <<>>
  BY DEF Zeroed
<1>2. LegacyBody \in Record /\ LegacyBody.version = 5 /\ LegacyBody.sum = <<Covered(LegacyBody)>>
  <2>1. "disc_entity" \in AllKeys /\ Number(0) \in [front : Nat, tail : Nat]
    BY DEF AllKeys, Number
  <2> DEFINE old == [vault_put_raw(Zeroed, "disc_entity", Number(0)) EXCEPT !.version = 5]
  <2>2. old \in Record /\ old.version = 5
    BY <2>1, ZeroedIsRecord, PutFacts DEF Record, Version
  <2>3. LegacyBody = Sealed(old)
    BY DEF LegacyBody
  <2> HIDE DEF old
  <2> QED
    BY <2>2, <2>3, SealedFacts
<1>3. TypeInv
  BY <1>2, ZeroedIsRecord DEF Init, IsoInit, TypeInv, IsoTable, Version
<1>4. StartInv /\ SaveInv
  BY <1>1, <1>2 DEF Init, StartInv, SaveInv
<1>5. CoveredContent(vault) \in Contents
  BY <1>3, CoveredFacts DEF TypeInv
<1>6. CoveredOnDisk \in Contents \cup {Nothing}
  BY <1>3, CoveredFacts DEF TypeInv, CoveredOnDisk
<1>7. Meant \in Contents \cup {Nothing}
  <2>1. CASE disk.body.sum = <<>>
    BY <2>1 DEF Meant
  <2>2. CASE disk.body.sum # <<>>
    <3>1. disk.body = LegacyBody
      BY <1>1, <2>2 DEF Init
    <3>2. disk.body.sum[1] = Covered(LegacyBody)
      BY <1>2, <3>1
    <3>3. Covered(LegacyBody).isos = LegacyBody.isos
      BY <1>2, CoveredFacts
    <3>4. Meant = CoveredContent(LegacyBody)
      BY <2>2, <3>2, <3>3 DEF Meant, CoveredContent
    <3> QED
      BY <1>2, <3>4, CoveredFacts
  <2> QED
    BY <2>1, <2>2
<1> QED
  BY <1>3, <1>4, <1>5, <1>6, <1>7 DEF VaultInv, Covering!Init, Init, Phase

------------------------------------------------------------------------------
(***************************************************************************)
(* The ISO zone                                                            *)
(***************************************************************************)
LEMMA EvolveKeepsZone ==
    ASSUME zone \in IsoTable, NEW i \in IsoIds, iso_evolve(i)
    PROVE  zone' \in IsoTable
<1>1. PICK bit \in Bits : zone' = [zone EXCEPT ![i] = Evolved(@, bit)]
  BY DEF iso_evolve
<1>2. zone[i] \in Iso /\ zone[i].generation < GenerationMax
  BY DEF iso_evolve, IsoTable
<1>3. Mutated(zone[i].genome, bit) \in Genome
  BY <1>2 DEF Iso, Genome, Byte, Mutated, genome_seal, Checksum, Xor
<1>4. Evolved(zone[i], bit) \in Iso
  <2>1. ASSUME NEW iso \in Iso, NEW genome \in Genome, iso.generation < GenerationMax
        PROVE  [iso EXCEPT !.genome = genome, !.generation = @ + 1] \in Iso
    <3>1. iso.generation + 1 \in 0 .. GenerationMax
      BY <2>1, IsoAssumption DEF Iso
    <3> DEFINE later == iso.generation + 1
               first == [iso EXCEPT !.genome = genome]
    <3>2. later \in 0 .. GenerationMax
      BY <3>1
    <3> HIDE DEF later
    <3>3. first \in Iso
      BY DEF Iso
    <3>4. [first EXCEPT !.generation = later] \in Iso
      BY <3>2, <3>3 DEF Iso
    <3>5. [iso EXCEPT !.genome = genome, !.generation = later] = [first EXCEPT !.generation = later]
      BY <3>3 DEF Iso
    <3> QED
      BY <3>4, <3>5 DEF later
  <2> QED
    BY <1>2, <1>3, <2>1 DEF Evolved
<1> QED
  BY <1>1, <1>4 DEF IsoTable

LEMMA ZoneKeepsType ==
    ASSUME zone \in IsoTable, ZoneNext
    PROVE  zone' \in IsoTable
<1>1. CASE iso_spawn
  <2>1. PICK i \in IsoIds, g \in Genome :
            zone' = [zone EXCEPT ![i] = [state |-> "ACTIVE", generation |-> 0,
                                         genome |-> genome_seal(g)]]
    BY <1>1 DEF iso_spawn
  <2>2. genome_seal(g) \in Genome
    BY DEF genome_seal, Genome, Checksum, Xor, Byte
  <2>3. [state |-> "ACTIVE", generation |-> 0, genome |-> genome_seal(g)] \in Iso
    BY <2>2, IsoAssumption DEF Iso, IsoStates
  <2> QED
    BY <2>1, <2>3 DEF IsoTable
<1>2. ASSUME NEW i \in IsoIds, iso_evolve(i) PROVE zone' \in IsoTable
  BY <1>2, EvolveKeepsZone
<1>3. ASSUME NEW i \in IsoIds, iso_quarantine(i) \/ iso_release(i) PROVE zone' \in IsoTable
  BY <1>3 DEF iso_quarantine, iso_release, IsoTable, Iso, IsoStates
<1> QED
  BY <1>1, <1>2, <1>3 DEF ZoneNext

------------------------------------------------------------------------------
(***************************************************************************)
(* Every action keeps the invariant, and is a step of the sealed store or  *)
(* none that it sees                                                       *)
(***************************************************************************)
Implements == VaultInv' /\ [Covering!Next]_Covering!vars

LEMMA PutStep ==
    ASSUME VaultInv, NEW key \in AllKeys, NEW value \in [front : Nat, tail : Nat],
           Idle, vault' = storage_put(vault, key, value), disc_xp' \in Nat,
           UNCHANGED <<zone, disk, job, saved, loaded>>
    PROVE  Implements
<1>1. vault' \in Record
  BY PutFacts DEF VaultInv, TypeInv
<1>2. VaultInv'
  BY <1>1 DEF VaultInv, TypeInv, StartInv, SaveInv, Idle, job
<1>3. Phase = "up" /\ Phase' = "up"
  BY DEF Idle, Phase, job
<1> QED
  BY <1>1, <1>2, <1>3, EditStep DEF Implements

LEMMA ZoneStep ==
    ASSUME VaultInv, ZoneCommand \/ AutopilotTick
    PROVE  Implements
<1>1. zone' \in IsoTable
  BY ZoneKeepsType, EvolveKeepsZone
  DEF VaultInv, TypeInv, ZoneCommand, AutopilotTick, iso_autopilot_step
<1>2. UNCHANGED <<vault, disk, job, saved, loaded, disc_xp>>
  BY DEF ZoneCommand, AutopilotTick
<1>3. VaultInv'
  BY <1>1, <1>2 DEF VaultInv, TypeInv, StartInv, SaveInv, vault_valid, vault_valid_version, job
<1> QED
  BY <1>2, <1>3, StutterStep DEF Implements, job

LEMMA SnapshotStep ==
    ASSUME VaultInv, Snapshot
    PROVE  Implements
<1> USE DEF VaultInv, TypeInv, StartInv, SaveInv
<1>1. ASSUME NEW why \in {"save", "sync"}, SnapshotBegins(why) PROVE Implements
  <2>1. vault' \in Record /\ vault'.version = 6
    BY <1>1 DEF SnapshotBegins, Record, Version
  <2>2. VaultInv'
    BY <1>1, <2>1 DEF SnapshotBegins
  <2>3. Phase = "up" /\ Phase' = "up"
    BY <1>1 DEF SnapshotBegins, Idle, Phase
  <2> QED
    BY <1>1, <2>1, <2>2, <2>3, EditStep DEF Implements, SnapshotBegins
<1>2. ASSUME NEW i \in IsoIds, CaptureGenome(i) \/ CaptureRest(i) PROVE Implements
  <2>1. vault.isos[i] \in Iso /\ zone[i] \in Iso
    BY DEF Record, IsoTable
  <2>2. PICK iso \in Iso : vault' = [vault EXCEPT !.isos[i] = iso]
    <3>1. CASE CaptureGenome(i)
      <4>1. [vault.isos[i] EXCEPT !.genome = zone[i].genome] \in Iso
        BY <2>1 DEF Iso
      <4> QED
        BY <3>1, <4>1, ZeroedIsRecord DEF CaptureGenome
    <3>2. CASE CaptureRest(i)
      <4>1. [zone[i] EXCEPT !.genome = vault.isos[i].genome] \in Iso
        BY <2>1 DEF Iso
      <4> QED
        BY <3>2, <4>1, ZeroedIsRecord DEF CaptureRest
    <3> QED
      BY <1>2, <3>1, <3>2
  <2>3. vault' \in Record /\ vault'.version = vault.version
    BY <2>2 DEF Record, IsoTable
  <2>4. VaultInv'
    BY <1>2, <2>3 DEF CaptureGenome, CaptureRest
  <2>5. Phase = "up" /\ Phase' = "up"
    BY <1>2 DEF CaptureGenome, CaptureRest, Phase
  <2> QED
    BY <1>2, <2>3, <2>4, <2>5, EditStep DEF Implements, CaptureGenome, CaptureRest
<1>3. CASE SnapshotEnds
  <2>1. vault' \in Record /\ vault'.version = 6 /\ vault'.sum = <<Covered(vault')>>
    BY <1>3, SealedFacts DEF SnapshotEnds
  <2>2. vault_valid(vault')
    BY <2>1 DEF vault_valid, vault_valid_version
  <2>3. VaultInv'
    BY <1>3, <2>1, <2>2 DEF SnapshotEnds
  <2>4. Phase = "up" /\ Phase' \in {"up", "saving"}
    BY <1>3 DEF SnapshotEnds, Phase
  <2> QED
    BY <1>3, <2>1, <2>3, <2>4, EditStep DEF Implements, SnapshotEnds
<1> QED
  BY <1>1, <1>2, <1>3 DEF Snapshot

LEMMA ImportStep ==
    ASSUME VaultInv, Import
    PROVE  Implements
<1> USE DEF VaultInv, TypeInv, StartInv, SaveInv
<1>1. CASE ImportBegins
  <2>1. vault' \in Record
    BY <1>1, ZeroedIsRecord DEF ImportBegins, Record, Version, IsoTable, EntryTable
  <2>2. VaultInv'
    BY <1>1, <2>1 DEF ImportBegins
  <2>3. Phase = "up" /\ Phase' = "up"
    BY <1>1 DEF ImportBegins, Idle, Phase
  <2> QED
    BY <1>1, <2>1, <2>2, <2>3, EditStep DEF Implements, ImportBegins
<1>2. CASE ImportEnds \/ ImportFails
  <2>1. vault' \in Record
    BY <1>2, SealedFacts DEF ImportEnds, ImportFails
  <2>2. VaultInv'
    BY <1>2, <2>1 DEF ImportEnds, ImportFails, Record
  <2>3. Phase = "up" /\ Phase' = "up"
    BY <1>2 DEF ImportEnds, ImportFails, Phase
  <2> QED
    BY <1>2, <2>1, <2>2, <2>3, EditStep DEF Implements, ImportEnds, ImportFails
<1>3. ASSUME NEW key \in Keys, NEW value \in Values, ImportNode(key, value)
      PROVE  Implements
  <2>1. vault' \in Record
    BY <1>3, VaultAssumption, PutFacts DEF ImportNode, AllKeys
  <2>2. VaultInv'
    BY <1>3, <2>1 DEF ImportNode, job
  <2>3. Phase = "up" /\ Phase' = "up"
    BY <1>3 DEF ImportNode, Phase, job
  <2> QED
    BY <1>3, <2>1, <2>2, <2>3, EditStep DEF Implements, ImportNode
<1>4. ASSUME NEW i \in IsoIds, NEW genome \in Genome, NEW generation \in 0 .. GenerationMax,
             ImportIso(i, genome, generation)
      PROVE  Implements
  <2>1. [state |-> "ACTIVE", generation |-> generation, genome |-> genome] \in Iso
    BY DEF Iso, IsoStates
  <2>2. vault' \in Record
    BY <1>4, <2>1 DEF ImportIso, Record, IsoTable
  <2>3. VaultInv'
    BY <1>4, <2>2 DEF ImportIso, job
  <2>4. Phase = "up" /\ Phase' = "up"
    BY <1>4 DEF ImportIso, Phase, job
  <2> QED
    BY <1>4, <2>2, <2>3, <2>4, EditStep DEF Implements, ImportIso
<1> QED
  BY <1>1, <1>2, <1>3, <1>4 DEF Import

\* A start takes the content of the disk, or what the last save meant when
\* a sector could not be read.
LEMMA BootStep ==
    ASSUME VaultInv, NEW n \in Readable, Boot(n)
    PROVE  Implements
<1> USE DEF VaultInv, TypeInv
<1> DEFINE version == IF n >= 0 THEN disk.sig ELSE 0
           read == {s \in Wanted(version) : s < n}
           found == Copied(read, disk.body, AfterDiscInit)
           old == version = 5 /\ read = Wanted(5) /\ vault_valid_version(found, 5)
<1>1. /\ task = "off" /\ loaded = "none" /\ Phase = "off"
      /\ UNCHANGED <<disk, saved>> /\ disc_xp' = 0
      /\ n \in -1 .. 3 /\ (~ReadsFail => n = 3)
  BY DEF Boot, StartInv, Phase, Readable
<1>2. /\ found \in Record
      /\ 0 \in read => /\ found.version = disk.body.version
                       /\ found.sum = disk.body.sum
      /\ 0 \notin read => found.version = 0
  <2>1. disk.body \in Record /\ AfterDiscInit \in Record
    BY AfterDiscInitFacts
  <2> HIDE DEF read
  <2>2. found \in Record
    BY <2>1, CopiedHeader
  <2>3. 0 \in read => found.version = disk.body.version /\ found.sum = disk.body.sum
    BY <2>1, CopiedHeader
  <2>4. 0 \notin read => found.version = AfterDiscInit.version
    BY <2>1, CopiedHeader
  <2> QED
    BY <2>2, <2>3, <2>4, AfterDiscInitFacts
<1>3. /\ version = 6 => read = {s \in {0, 1, 2} : s < n}
      /\ version = 5 => read = {s \in {0, 1} : s < n}
      /\ version \notin {5, 6} => read = {}
  BY DEF Wanted
<1>4. \/ /\ old
         /\ vault' = migrate_vault_v5_to_v6(found)
         /\ task' = "sign" /\ purpose' = "migrate" /\ step' = 0
         /\ UNCHANGED <<zone, loaded>>
      \/ /\ ~old
         /\ vault' = found
         /\ zone' = IF vault_valid(found) THEN found.isos ELSE zone
         /\ loaded' = IF vault_valid(found) THEN "accepted" ELSE "refused"
         /\ task' = "idle" /\ purpose' = "none" /\ step' = 0
  BY DEF Boot
<1>5. {0, 1} \subseteq read => Covered(found) = Covered(disk.body)
  BY AfterDiscInitFacts, CopiedFront
<1>6. ASSUME NEW v \in {5, 6}, vault_valid_version(found, v)
      PROVE  0 \in read /\ Meant = CoveredContent(found)
  <2>1. 0 \in read /\ disk.body.sum = <<Covered(found)>>
    BY <1>2, <1>6 DEF vault_valid_version
  <2>2. disk.body.sum # <<>> /\ disk.body.sum[1] = Covered(found)
    BY <2>1
  <2>3. Covered(found).isos = found.isos
    BY <1>2, CoveredFacts
  <2> HIDE DEF found
  <2> QED
    BY <2>1, <2>2, <2>3 DEF Meant, CoveredContent
<1> HIDE DEF version, read, found
<1>7. ASSUME NEW v \in {5, 6}, disk.sig = v, vault_valid_version(disk.body, v)
      PROVE  CoveredOnDisk = CoveredContent(disk.body)
  BY <1>7 DEF CoveredOnDisk, DiskIsAccepted
<1>8. CASE old
  <2>1. disk.sig = 5 /\ n >= 0 /\ {0, 1} \subseteq read
    BY <1>3, <1>8 DEF version, Wanted
  <2>2. vault_valid_version(disk.body, 5) /\ Covered(found) = Covered(disk.body)
    BY <1>2, <1>5, <1>8, <2>1 DEF vault_valid_version
  <2>3. Covered(found).isos = found.isos /\ Covered(disk.body).isos = disk.body.isos
    BY <1>2, CoveredFacts
  <2>4. CoveredContent(found) = CoveredContent(disk.body)
    BY <2>2, <2>3 DEF CoveredContent
  <2> DEFINE six == [found EXCEPT !.version = 6]
  <2>5. six \in Record /\ six.version = 6 /\ Covered(six).entries = Covered(found).entries
        /\ six.isos = found.isos
    BY <1>2 DEF Record, Version, Covered
  <2>6. vault' = Sealed(six)
    BY <1>4, <1>8 DEF migrate_vault_v5_to_v6
  <2> HIDE DEF six
  <2>7. /\ vault' \in Record /\ vault'.version = 6 /\ vault'.isos = found.isos
        /\ vault'.sum = <<Covered(vault')>> /\ Covered(vault').entries = Covered(found).entries
    BY <2>5, <2>6, SealedFacts
  <2>8. CoveredContent(vault)' = CoveredContent(found)
    BY <2>7 DEF CoveredContent
  <2>9. CoveredContent(vault)' = CoveredOnDisk /\ CoveredContent(vault)' # Nothing
    BY <1>7, <2>1, <2>2, <2>4, <2>7, <2>8, CoveredFacts
  <2>10. VaultInv'
    BY <1>1, <1>4, <1>8, <2>7 DEF StartInv, SaveInv, vault_valid, vault_valid_version
  <2>11. Covering!Start
    BY <1>1, <1>4, <1>8, <2>9, SameDisk DEF Covering!Start, Phase
  <2> QED
    BY <2>10, <2>11 DEF Implements, Covering!Next
<1>9. CASE ~old
  <2>1. vault' = found /\ task' = "idle" /\ purpose' = "none"
    BY <1>4, <1>9
  <2>2. zone' \in IsoTable
    BY <1>2, <1>4, <1>9 DEF Record
  <2>3. VaultInv'
    BY <1>1, <1>2, <2>1, <2>2 DEF StartInv, SaveInv
  <2>4. CASE vault_valid(found)
    <3>1. 0 \in read /\ Meant = CoveredContent(found)
      BY <1>6, <2>4 DEF vault_valid
    <3>2. version = 6 /\ disk.sig = 6
      BY <1>2, <1>3, <2>4, <3>1 DEF version, vault_valid, vault_valid_version, StartInv
    <3>3. ASSUME ~ReadsFail PROVE CoveredOnDisk = CoveredContent(found)
      <4>1. {0, 1} \subseteq read
        BY <1>1, <1>3, <3>2, <3>3
      <4>2. Covered(found) = Covered(disk.body)
        BY <1>5, <4>1
      <4>3. vault_valid_version(disk.body, 6)
        BY <1>2, <2>4, <4>1, <4>2 DEF vault_valid, vault_valid_version
      <4>4. Covered(found).isos = found.isos /\ Covered(disk.body).isos = disk.body.isos
        BY <1>2, CoveredFacts
      <4>5. CoveredContent(found) = CoveredContent(disk.body)
        BY <4>2, <4>4 DEF CoveredContent
      <4> QED
        BY <1>7, <3>2, <4>3, <4>5
    <3>4. CoveredContent(vault)' # Nothing
      BY <1>2, <2>1, CoveredFacts
    <3>5. Covering!Start
      BY <1>1, <1>4, <1>9, <2>1, <2>4, <3>1, <3>3, <3>4, SameDisk, VaultAssumption
      DEF Covering!Start, Phase
    <3> QED
      BY <2>3, <3>5 DEF Implements, Covering!Next
  <2>5. CASE ~vault_valid(found)
    <3>1. ASSUME ~ReadsFail PROVE CoveredOnDisk = Nothing
      <4>1. SUFFICES ASSUME NEW v \in {5, 6}, disk.sig = v, vault_valid_version(disk.body, v)
                     PROVE  FALSE
        BY DEF CoveredOnDisk, DiskIsAccepted
      <4>2. version = v /\ {0, 1} \subseteq read /\ (v = 5 => read = Wanted(5))
        BY <1>1, <1>3, <3>1, <4>1 DEF version, Wanted
      <4>3. vault_valid_version(found, v)
        BY <1>2, <1>5, <4>1, <4>2 DEF vault_valid_version
      <4> QED
        BY <1>9, <2>5, <4>2, <4>3 DEF vault_valid
    <3>2. CoveredContent(vault)' \in Contents
      BY <1>2, <2>1, CoveredFacts
    <3>3. Covering!StartWithout
      BY <1>1, <1>4, <1>9, <2>1, <2>5, <3>1, <3>2, SameDisk, VaultAssumption
      DEF Covering!StartWithout, Phase
    <3> QED
      BY <2>3, <3>3 DEF Implements, Covering!Next
  <2> QED
    BY <2>4, <2>5
<1> QED
  BY <1>8, <1>9

LEMMA CrashStep ==
    ASSUME VaultInv, Crash
    PROVE  Implements
<1>1. vault' \in Record /\ zone' \in IsoTable
  BY ZeroedIsRecord DEF Crash, IsoTable
<1>2. VaultInv'
  BY <1>1 DEF VaultInv, TypeInv, StartInv, SaveInv, Crash
<1>3. CoveredContent(vault)' \in Contents
  BY <1>1, CoveredFacts
<1>4. Covering!Crash
  BY <1>3, SameDisk DEF Covering!Crash, Crash, Phase
<1> QED
  BY <1>2, <1>4 DEF Implements, Covering!Next

------------------------------------------------------------------------------
(***************************************************************************)
(* A save                                                                  *)
(***************************************************************************)
\* What a write that carries the checksum of the record in memory may leave.
LEMMA HalfWritten ==
    ASSUME vault \in Record, vault_valid(vault), disk' \in [sig : Version, body : Record],
           disk'.sig = 6, disk'.body.sum = vault.sum
    PROVE  /\ Meant' = CoveredContent(vault)
           /\ CoveredOnDisk' \in {CoveredContent(vault), Nothing}
           /\ disk'.body.version = 6 /\ Covered(disk'.body) = Covered(vault)
                 => CoveredOnDisk' = CoveredContent(vault)
<1> DEFINE body == disk'.body
<1>1. body \in Record /\ body.sum = <<Covered(vault)>> /\ body.sum # <<>>
  BY DEF vault_valid, vault_valid_version
<1>2. body.sum[1] = Covered(vault)
  BY <1>1
<1>3. /\ Covered(vault).isos = vault.isos
      /\ Covered(body).isos = body.isos
  BY <1>1, CoveredFacts
<1>4. Meant' = CoveredContent(vault)
  BY <1>1, <1>2, <1>3 DEF Meant, CoveredContent
<1>5. DiskIsAccepted' => body.sum = <<Covered(body)>>
  BY DEF DiskIsAccepted, vault_valid_version
<1>6. body.sum = <<Covered(body)>> => CoveredContent(body) = CoveredContent(vault)
  BY <1>1, <1>2, <1>3 DEF CoveredContent
<1>7. CoveredOnDisk' = IF DiskIsAccepted' THEN CoveredContent(body) ELSE Nothing
  BY DEF CoveredOnDisk
<1>8. body.version = 6 /\ Covered(body) = Covered(vault) => DiskIsAccepted'
  BY <1>1 DEF DiskIsAccepted, vault_valid_version
<1>9. Covered(body) = Covered(vault) => CoveredContent(body) = CoveredContent(vault)
  BY <1>3 DEF CoveredContent
<1> QED
  BY <1>4, <1>5, <1>6, <1>7, <1>8, <1>9

\* The signature leaves a record it does not announce, unless it was there.
LEMMA SignatureWritten ==
    ASSUME VaultInv, disk' = Signed
    PROVE  /\ disk' \in [sig : Version, body : Record] /\ disk'.sig = 6
           /\ disk'.body = disk.body
           /\ Meant' = Meant /\ CoveredOnDisk' \in {CoveredOnDisk, Nothing}
<1>1. /\ disk' \in [sig : Version, body : Record] /\ disk'.sig = 6
      /\ disk'.body = disk.body
  BY DEF VaultInv, TypeInv, Signed, Version
<1>2. Meant' = Meant
  BY <1>1 DEF Meant
<1>3. CASE disk.sig = 6
  <2>1. disk' = disk
    BY <1>1, <1>3 DEF VaultInv, TypeInv
  <2> QED
    BY <1>1, <1>2, <2>1, SameDisk
<1>4. CASE disk.sig # 6
  <2>1. disk'.body.version # 6
    BY <1>1, <1>4 DEF VaultInv, StartInv
  <2>2. ~DiskIsAccepted'
    BY <1>1, <2>1 DEF DiskIsAccepted, vault_valid_version
  <2> QED
    BY <1>1, <1>2, <2>2 DEF CoveredOnDisk
<1> QED
  BY <1>3, <1>4

\* A sector written: the disk has the head of the record, then all that is
\* covered, then all of it.
LEMMA SectorReached ==
    ASSUME VaultInv, task = "write", disk' = SectorWritten(step)
    PROVE  /\ disk' \in [sig : Version, body : Record] /\ disk'.sig = 6
           /\ SameHead(disk'.body, vault)
           /\ step >= 1 => Covered(disk'.body) = Covered(vault)
<1> USE DEF VaultInv, TypeInv, SaveInv
<1>1. disk.sig = 6 /\ step \in 0 .. 2
  OBVIOUS
<1>2. disk' = [sig |-> disk.sig, body |-> Copied({step}, vault, disk.body)]
  BY DEF SectorWritten
<1>3. Copied({step}, vault, disk.body) \in Record
  BY CopiedFacts
<1>4. CASE step = 0
  BY <1>1, <1>2, <1>3, <1>4, CopiedHead
<1>5. CASE step = 1
  BY <1>1, <1>2, <1>3, <1>5, CopiedRest
<1>6. CASE step = 2
  <2>1. /\ Copied({2}, vault, disk.body).version = disk.body.version
        /\ Copied({2}, vault, disk.body).sum = disk.body.sum
        /\ Copied({2}, vault, disk.body).isos = disk.body.isos
        /\ Covered(Copied({2}, vault, disk.body)) = Covered(disk.body)
    BY CopiedTail
  <2>2. SameHead(disk.body, vault) /\ Covered(disk.body) = Covered(vault)
    BY <1>1, <1>6
  <2>3. Copied({2}, vault, disk.body).entries[1] = disk.body.entries[1]
    <3> DEFINE v == Copied({2}, vault, disk.body)
    <3>1. /\ v.entries[1].key = disk.body.entries[1].key
          /\ v.entries[1].front = disk.body.entries[1].front
          /\ v.entries[1].tail = disk.body.entries[1].tail
      BY CopiedFacts, SectorFacts
    <3>2. v.entries[1] \in Entry /\ disk.body.entries[1] \in Entry
      BY CopiedFacts, SectorFacts DEF Record, EntryTable
    <3> HIDE DEF v
    <3>3. v.entries[1] = disk.body.entries[1]
      BY <3>1, <3>2 DEF Entry
    <3> QED
      BY <3>3 DEF v
  <2> QED
    BY <1>1, <1>2, <1>3, <1>6, <2>1, <2>2, <2>3 DEF SameHead
<1> QED
  BY <1>1, <1>4, <1>5, <1>6

LEMMA SaveStep ==
    ASSUME VaultInv, Save
    PROVE  Implements
<1> USE DEF VaultInv, TypeInv
<1>1. /\ task \in {"sign", "write"} /\ vault' = vault /\ disc_xp' = disc_xp
      /\ vault_valid(vault) /\ Phase = "saving"
  BY DEF Save, write_disk_signature, WriteSector, WriteFails, SaveInv, Phase
<1>2. vault.version = 6 /\ vault.isos \in IsoTable /\ CoveredContent(vault)' = CoveredContent(vault)
  BY <1>1 DEF vault_valid, vault_valid_version, Record, CoveredContent
<1>3. ASSUME NEW result, Finish(result), disk' \in [sig : Version, body : Record],
             disk'.sig = 6 \/ disk' = disk
      PROVE  /\ VaultInv' /\ Phase' = "up" /\ saved' = result
             /\ (task' # "off" /\ loaded' # "refused") = (task # "off" /\ loaded # "refused")
  <2>1. task' = "idle" /\ purpose' = "none" /\ zone' \in IsoTable /\ saved' = result
    BY <1>2, <1>3 DEF Finish
  <2>2. VaultInv'
    BY <1>1, <1>3, <2>1 DEF StartInv, SaveInv
  <2>3. (loaded' # "refused") = (loaded # "refused")
    BY <1>3 DEF Finish, StartInv
  <2> QED
    BY <1>1, <2>1, <2>2, <2>3 DEF Phase
<1>4. CASE write_disk_signature
  <2>1. VaultInv' /\ Phase' = "saving"
    BY <1>1, <1>4, SignatureWritten DEF write_disk_signature, StartInv, SaveInv, Phase
  <2>2. Covering!Write
    BY <1>1, <1>2, <1>4, <2>1, SignatureWritten DEF write_disk_signature, Covering!Write
  <2> QED
    BY <2>1, <2>2 DEF Implements, Covering!Next
<1>5. CASE WriteSector
  <2>1. /\ disk' \in [sig : Version, body : Record] /\ disk'.sig = 6
        /\ SameHead(disk'.body, vault)
        /\ step >= 1 => Covered(disk'.body) = Covered(vault)
    BY <1>5, SectorReached DEF WriteSector
  <2>2. /\ Meant' = CoveredContent(vault)
        /\ CoveredOnDisk' \in {CoveredContent(vault), Nothing}
        /\ step >= 1 => CoveredOnDisk' = CoveredContent(vault)
    BY <1>1, <1>2, <2>1, HalfWritten DEF SameHead
  <2>3. CASE step < 2 /\ step' = step + 1 /\ UNCHANGED <<zone, task, purpose, saved, loaded>>
    <3>1. step \in 0 .. 2 /\ task = "write"
      BY <1>5 DEF WriteSector, SaveInv
    <3>2. VaultInv' /\ Phase' = "saving"
      BY <1>1, <2>1, <2>3, <3>1 DEF StartInv, SaveInv, Phase, vault_valid, vault_valid_version
    <3>3. Covering!Write
      BY <1>1, <1>2, <2>2, <2>3, <3>2 DEF Covering!Write
    <3> QED
      BY <3>2, <3>3 DEF Implements, Covering!Next
  <2>4. CASE step = 2 /\ Finish("ok")
    <3>1. Covering!EndSave
      BY <1>1, <1>2, <1>3, <2>1, <2>2, <2>4 DEF Covering!EndSave
    <3> QED
      BY <1>3, <2>1, <2>4, <3>1 DEF Implements, Covering!Next
  <2> QED
    BY <1>5, <2>3, <2>4 DEF WriteSector
<1>6. CASE WriteFails
  <2>1. /\ disk' \in [sig : Version, body : Record] /\ (disk'.sig = 6 \/ disk' = disk)
        /\ Meant' \in {Meant, CoveredContent(vault)}
        /\ CoveredOnDisk' \in {CoveredOnDisk, Nothing, CoveredContent(vault)}
    <3>1. CASE disk' = disk
      BY <3>1, SameDisk
    <3>2. CASE disk' = Signed
      BY <3>2, SignatureWritten
    <3>3. CASE task = "write" /\ disk' = SectorWritten(step)
      BY <1>1, <3>3, SectorReached, HalfWritten DEF SameHead
    <3> QED
      BY <1>6, <3>1, <3>2, <3>3 DEF WriteFails
  <2>2. Finish("failed")
    BY <1>6 DEF WriteFails
  <2>3. Covering!EndSave
    BY <1>1, <1>2, <1>3, <2>1, <2>2 DEF Covering!EndSave
  <2> QED
    BY <1>3, <2>1, <2>2, <2>3 DEF Implements, Covering!Next
<1> QED
  BY <1>4, <1>5, <1>6 DEF Save

------------------------------------------------------------------------------
LEMMA NextStep == VaultInv /\ [Next]_vars => Implements
<1> SUFFICES ASSUME VaultInv, [Next]_vars PROVE Implements
  OBVIOUS
<1>1. ASSUME NEW key \in Keys, NEW value \in Values, Put(key, value) PROVE Implements
  BY <1>1, PutStep, VaultAssumption DEF Put, AllKeys, VaultInv, TypeInv
<1>2. CASE AddXp
  <2>1. disc_xp' \in Nat /\ Number(disc_xp') \in [front : Nat, tail : Nat]
    BY <1>2 DEF AddXp, VaultInv, TypeInv, Number
  <2> QED
    BY <1>2, <2>1, PutStep DEF AddXp, AllKeys
<1>3. CASE UNCHANGED vars
  <2>1. UNCHANGED <<zone, vault, disk, task, purpose, step, saved, loaded, disc_xp>>
    BY <1>3 DEF vars, job
  <2>2. VaultInv'
    BY <2>1 DEF VaultInv, TypeInv, StartInv, SaveInv, vault_valid, vault_valid_version
  <2> QED
    BY <2>1, <2>2, StutterStep DEF Implements
<1> QED
  BY <1>1, <1>2, <1>3, BootStep, ZoneStep, SnapshotStep, SaveStep, ImportStep, CrashStep
  DEF Next

\* The record in memory and the one on the disk are always well formed; a save
\* in progress writes a sealed record that nothing changes, and the disk has
\* as much of it as has been written.
THEOREM VaultInvariance == Spec => []VaultInv
<1>1. VaultInv /\ [Next]_vars => VaultInv'
  BY NextStep DEF Implements
<1> QED
  BY InitHolds, <1>1, PTL DEF Spec

\* Neither a crash between two sectors of a save, nor a write that fails, nor
\* the upgrade from version 5 makes storage_init accept a content that nobody
\* saved, and a sync that returns 0 is found by the next boot.
THEOREM RecordAtomicHolds == Spec => RecordAtomic
<1>1. VaultInv /\ [Next]_vars => VaultInv' /\ [Covering!Next]_Covering!vars
  BY NextStep DEF Implements
<1> QED
  BY InitHolds, <1>1, PTL DEF Spec, RecordAtomic, Covering!Spec
==============================================================================
