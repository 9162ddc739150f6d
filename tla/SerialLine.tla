------------------------------ MODULE SerialLine ------------------------------
(***************************************************************************)
(* COM1 as the kernel reads it (serial.c).  A terminal may loop what the   *)
(* kernel sends back to it, so the driver keeps the bytes it has sent and  *)
(* not yet seen again, and takes a received byte for the echo of the       *)
(* oldest of them when the two are equal.                                  *)
(*                                                                         *)
(* A byte on the line is [c, echo]: the code sees c only; `echo' is for    *)
(* the properties.  One symbol stands for the bytes of a word of the       *)
(* protocols above.                                                        *)
(***************************************************************************)
EXTENDS Naturals, Integers, Sequences

CONSTANT RingMax        \* SER_ECHO_RING

ASSUME RingAssumption == RingMax \in Nat \ {0}

NUL == <<"nul">>

FromHost(c) == [c |-> c, echo |-> FALSE]
Echo(c) == [c |-> c, echo |-> TRUE]

(* ser_tx_record: when the ring is full its oldest byte gives way.         *)
ser_tx_record(tx, c) ==
    LET all == Append(tx, c)
    IN  IF Len(all) > RingMax THEN Tail(all) ELSE all

(* ser_tx_consume_echo: is a received byte the oldest that was sent?       *)
ser_tx_consume_echo(tx, c) == tx # <<>> /\ Head(tx) = c

serial_read_byte_keep(tx, b) ==
    [got |-> b.c # NUL /\ ~ser_tx_consume_echo(tx, b.c), tx |-> tx]

(* serial_read_byte takes the byte b off the line: NUL is never delivered, *)
(* nor is what counts as an echo.                                          *)
serial_read_byte(tx, b) ==
    IF b.c = NUL THEN [got |-> FALSE, tx |-> tx]
    ELSE IF ser_tx_consume_echo(tx, b.c) THEN [got |-> FALSE, tx |-> Tail(tx)]
    ELSE [got |-> TRUE, tx |-> tx]
==============================================================================
