------------------------------- MODULE IsoZone --------------------------------
(***************************************************************************)
(* The ISO research zone of kernel/iso.c: a few slots, each with a genome  *)
(* that iso_evolve mutates, reseals and checks.                            *)
(*                                                                         *)
(* A byte is the set of its one bits, so that XOR is symmetric difference. *)
(* Of a genome only what its checksum sees is kept: `body', the XOR of     *)
(* 16#5A and the bytes before the last one, and `seal', the last byte.     *)
(* Names, discs and fitness are left out: nothing here depends on them.    *)
(***************************************************************************)
EXTENDS Integers

CONSTANTS
    IsoSlots,       \* ISO_ZONE_SLOTS: 4 in the code
    Bits,           \* the bits of a byte: 8 in the code
    GenerationMax   \* bound on the generations of an ISO

ASSUME IsoAssumption == IsoSlots \in Nat \ {0} /\ GenerationMax \in Nat \ {0}

VARIABLE zone

IsoIds == 1 .. IsoSlots
Byte == SUBSET Bits
Genome == [body : Byte, seal : Byte]

\* ISO_STATE_DORMANT stands for a slot not in use, whose fields nothing reads.
IsoStates == {"DORMANT", "ACTIVE", "QUARANTINED"}
NoIso == [state |-> "DORMANT", generation |-> 0, genome |-> [body |-> {}, seal |-> {}]]
Used(i) == zone[i].state # "DORMANT"

Xor(a, b) == (a \ b) \cup (b \ a)

\* genome_checksum runs over the whole genome, the last byte included.
Checksum(g) == Xor(g.body, g.seal)
genome_valid(g) == g.seal = Checksum(g)
genome_seal(g) == [g EXCEPT !.seal = Checksum(g)]

IsoInit == zone = [i \in IsoIds |-> NoIso]

\* iso_spawn takes the first free slot.  The last byte of the genome it seals
\* is the one the slot's previous tenant left.
iso_spawn ==
    \E i \in IsoIds, g \in Genome :
        /\ ~Used(i) /\ \A j \in IsoIds : ~Used(j) => i <= j
        /\ zone' = [zone EXCEPT ![i] = [state |-> "ACTIVE", generation |-> 0,
                                        genome |-> genome_seal(g)]]

\* One bit of the body flipped, and the genome sealed again.
Mutated(g, bit) == genome_seal([g EXCEPT !.body = Xor(@, {bit})])

\* iso_evolve's effect on an active ISO, for the bit the generator picks.
Evolved(iso, bit) ==
    IF genome_valid(Mutated(iso.genome, bit))
    THEN [iso EXCEPT !.genome = Mutated(@, bit), !.generation = @ + 1]
    ELSE iso

iso_evolve(i) ==
    /\ zone[i].state = "ACTIVE" /\ zone[i].generation < GenerationMax
    /\ \E bit \in Bits : zone' = [zone EXCEPT ![i] = Evolved(@, bit)]

iso_quarantine(i) == Used(i) /\ zone' = [zone EXCEPT ![i].state = "QUARANTINED"]
iso_release(i) == Used(i) /\ zone' = [zone EXCEPT ![i].state = "ACTIVE"]

\* The tick of the autopilot evolves the first active ISO.
iso_autopilot_step ==
    \E i \in IsoIds :
        /\ zone[i].state = "ACTIVE" /\ \A j \in IsoIds : zone[j].state = "ACTIVE" => i <= j
        /\ iso_evolve(i)

ZoneNext ==
    \/ iso_spawn
    \/ \E i \in IsoIds : iso_evolve(i) \/ iso_quarantine(i) \/ iso_release(i)

==============================================================================
