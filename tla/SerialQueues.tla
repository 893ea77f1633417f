---------------------------- MODULE SerialQueues ----------------------------
(***************************************************************************)
(* What the RS-232 port promises the Z80: two bounded queues of bytes, one *)
(* towards the UART and one from it.  A byte that finds no place is        *)
(* dropped, towards the Z80 with the overrun flag set; the others come out *)
(* once each, in order.                                                    *)
(***************************************************************************)
EXTENDS Naturals, Sequences

CONSTANTS Bytes, Depth

VARIABLES
  txq, rxq,   \* the queues
  oe,         \* overrun
  udr,        \* the UART's transmit buffer: <<>> or one byte
  zdata       \* the byte the Z80's last read of the queue returned

vars == <<txq, rxq, oe, udr, zdata>>

Init ==
  /\ txq = <<>> /\ rxq = <<>>
  /\ oe = FALSE
  /\ udr = <<>>
  /\ zdata = 0

Put(q, b) == IF Len(q) < Depth THEN Append(q, b) ELSE q

\* The Z80 writes a byte, or reads one (0 if there is none).
Write(b) == txq' = Put(txq, b) /\ UNCHANGED <<rxq, oe, udr, zdata>>

Read ==
  /\ IF rxq = <<>> THEN zdata' = 0 /\ UNCHANGED rxq
                   ELSE zdata' = Head(rxq) /\ rxq' = Tail(rxq)
  /\ UNCHANGED <<txq, oe, udr>>

\* The Z80 empties one queue or both.
Reset(rx, tx) ==
  /\ IF rx THEN rxq' = <<>> /\ oe' = FALSE ELSE UNCHANGED <<rxq, oe>>
  /\ txq' = IF tx THEN <<>> ELSE txq
  /\ UNCHANGED <<udr, zdata>>

\* A byte goes to the UART, leaves on the line, or comes in.
Transmit ==
  /\ txq # <<>> /\ udr = <<>>
  /\ udr' = <<Head(txq)>> /\ txq' = Tail(txq)
  /\ UNCHANGED <<rxq, oe, zdata>>

Leave == udr # <<>> /\ udr' = <<>> /\ UNCHANGED <<txq, rxq, oe, zdata>>

Receive(b) ==
  /\ rxq' = Put(rxq, b)
  /\ oe' = (oe \/ Len(rxq) = Depth)
  /\ UNCHANGED <<txq, udr, zdata>>

Next ==
  \/ \E b \in Bytes : Write(b) \/ Receive(b)
  \/ \E rx, tx \in BOOLEAN : Reset(rx, tx)
  \/ Read \/ Transmit \/ Leave

Spec == Init /\ [][Next]_vars
=============================================================================
