------------------------------- MODULE Rs232 -------------------------------
(***************************************************************************)
(* The 16550 the AVR emulates on its second UART: the registers the Z80    *)
(* reads and writes through the wait ports (rs232_zx_read, rs232_zx_write) *)
(* and the task of the main loop that moves bytes between the two rings    *)
(* and the UART.  A ring whose indices agree is empty or full: a bit of    *)
(* LSR tells which.                                                        *)
(*                                                                         *)
(* The Z80's calls and the task all run in the main loop; the UART works   *)
(* on its own, between any two steps of the task.  The registers that are  *)
(* only stored and returned (divisor, IER, MCR, scratch) are left out.     *)
(***************************************************************************)
EXTENDS Naturals, Sequences

CONSTANTS
  Bytes,      \* values of a byte
  Depth,      \* bytes in a ring: 16
  UartDepth,  \* bytes the UART receives ahead: 2
  Uses        \* what both ends may do: the bytes they send, whether the peer's
              \* bytes may be damaged, whether it moves CTS

ASSUME Rs232Assumption ==
  /\ 0 \in Bytes
  /\ Depth \in Nat \ {0} /\ UartDepth \in Nat \ {0}
  /\ Uses \subseteq [bytes : SUBSET Bytes, bad : SUBSET BOOLEAN, cts : BOOLEAN]

VARIABLES
  use,        \* the use of this behaviour
  \* UART
  urx,        \* received, not yet taken: bytes with their error bit
  udr,        \* transmit buffer: <<>> or one byte
  cts,        \* CTS on the connector
  \* the rings
  FO, foStart, foEnd,
  FI, fiStart, fiEnd,
  \* LSR: 0x60, 0x01, 0x02, and 0x0C
  thre, dr, oe, le,
  \* MSR: 0x10 and 0x01
  msrCts, msrDelta,
  dlab,       \* LCR bit 7
  pc,         \* "loop", or where rs232_task is: "rx", "stat", "cts"
  \* Z80
  zdata,      \* the byte the last read of register 0 returned
  credit,     \* bytes it may write since it saw THRE in LSR
  zCts        \* CTS as the last read of MSR showed it

txVars == <<FO, foStart, foEnd, thre>>
rxVars == <<FI, fiStart, fiEnd, dr, oe>>
msrVars == <<msrCts, msrDelta>>
zVars == <<zdata, credit, zCts>>
vars == <<use, urx, udr, cts, FO, foStart, foEnd, FI, fiStart, fiEnd, thre, dr, oe,
          le, msrCts, msrDelta, dlab, pc, zdata, credit, zCts>>

Index == 0..Depth-1

\* Mutant: the index is not masked.
NoMask(i) == i + 1

\* (i + 1) & 0x0F
Succ(i) == IF i = Depth - 1 THEN 0 ELSE i + 1

-----------------------------------------------------------------------------
(* rs232_zx_write *)

\* Mutant: one place is left free, and THRE is not looked at.
OneFree == Succ(foEnd) # foStart

TxRoom == foEnd # foStart \/ thre

\* Register 0, DLAB = 0.
WriteThr(b) ==
  /\ pc = "loop" /\ ~dlab
  /\ IF TxRoom
     THEN /\ FO' = [FO EXCEPT ![foEnd] = b]
          /\ foEnd' = Succ(foEnd)
          /\ thre' = FALSE
          /\ UNCHANGED foStart
     ELSE UNCHANGED txVars
  /\ credit' = IF credit > 0 THEN credit - 1 ELSE 0
  /\ UNCHANGED <<urx, udr, cts, rxVars, le, msrVars, dlab, pc, zdata, zCts>>

\* Register 2, bit 0 set: the two resets.
WriteFcr(rx, tx) ==
  /\ pc = "loop"
  /\ IF rx THEN fiStart' = 0 /\ fiEnd' = 0 /\ dr' = FALSE /\ oe' = FALSE
           ELSE UNCHANGED <<fiStart, fiEnd, dr, oe>>
  /\ IF tx THEN foStart' = 0 /\ foEnd' = 0 /\ thre' = TRUE
           ELSE UNCHANGED <<foStart, foEnd, thre>>
  /\ UNCHANGED <<urx, udr, cts, FO, FI, le, msrVars, dlab, pc, zVars>>

\* Register 3.
WriteLcr(d) ==
  /\ pc = "loop"
  /\ dlab' = d
  /\ UNCHANGED <<urx, udr, cts, txVars, rxVars, le, msrVars, pc, zVars>>

-----------------------------------------------------------------------------
(* rs232_zx_read: what changes state *)

\* Register 0, DLAB = 0.
ReadRbr ==
  /\ pc = "loop" /\ ~dlab
  /\ IF dr
     THEN /\ zdata' = FI[fiStart]
          /\ fiStart' = Succ(fiStart)
          /\ dr' = (fiStart' # fiEnd)
     ELSE zdata' = 0 /\ UNCHANGED <<fiStart, dr>>
  /\ UNCHANGED <<urx, udr, cts, txVars, FI, fiEnd, oe, le, msrVars, dlab, pc,
                 credit, zCts>>

\* Register 5.  A driver that sees THRE may write a ring of bytes.
ReadLsr ==
  /\ pc = "loop"
  /\ credit' = IF thre THEN Depth ELSE credit
  /\ UNCHANGED <<urx, udr, cts, txVars, rxVars, le, msrVars, dlab, pc,
                 zdata, zCts>>

\* Register 6: the delta flag is cleared.
ReadMsr ==
  /\ pc = "loop"
  /\ zCts' = msrCts
  /\ msrDelta' = FALSE
  /\ UNCHANGED <<urx, udr, cts, txVars, rxVars, le, msrCts, dlab, pc,
                 zdata, credit>>

-----------------------------------------------------------------------------
(* rs232_task *)

\* Mutant: THRE is set one byte early.
OneEarly(i) == Succ(i) = foEnd

LastSent(i) == i = foEnd

\* Mutant: equal indices count as an empty ring.
ByIndices == foStart # foEnd

ToSend == ~thre

TaskTx ==
  /\ pc = "loop"
  /\ IF ToSend /\ udr = <<>>
     THEN /\ udr' = <<FO[foStart]>>
          /\ foStart' = Succ(foStart)
          /\ thre' = LastSent(foStart')
     ELSE UNCHANGED <<udr, foStart, thre>>
  /\ pc' = "rx"
  /\ UNCHANGED <<urx, cts, FO, foEnd, rxVars, le, msrVars, dlab, zVars>>

\* Mutant: a full ring takes the byte.
NeverFull == FALSE

RxFull == fiEnd = fiStart /\ dr

TaskRx ==
  /\ pc = "rx"
  /\ IF urx = <<>> THEN UNCHANGED <<urx, rxVars>>
     ELSE /\ urx' = Tail(urx)
          /\ IF RxFull
             THEN oe' = TRUE /\ UNCHANGED <<FI, fiStart, fiEnd, dr>>
             ELSE /\ FI' = [FI EXCEPT ![fiEnd] = Head(urx).byte]
                  /\ fiEnd' = Succ(fiEnd)
                  /\ dr' = TRUE
                  /\ UNCHANGED <<fiStart, oe>>
  /\ pc' = "stat"
  /\ UNCHANGED <<udr, cts, txVars, le, msrVars, dlab, zVars>>

\* UDR1 has been read, so FE and UPE are those of the next byte, or 0.
TaskStatus ==
  /\ pc = "stat"
  /\ le' = (urx # <<>> /\ Head(urx).bad)
  /\ pc' = "cts"
  /\ UNCHANGED <<urx, udr, cts, txVars, rxVars, msrVars, dlab, zVars>>

\* Mutant: the delta follows the last change only.
DeltaNow(changed) == changed

Delta(changed) == msrDelta \/ changed

TaskCts ==
  /\ pc = "cts"
  /\ msrDelta' = Delta(msrCts # cts)
  /\ msrCts' = cts
  /\ pc' = "loop"
  /\ UNCHANGED <<urx, udr, cts, txVars, rxVars, le, dlab, zVars>>

-----------------------------------------------------------------------------
(* The UART and the line *)

UartReceive(b, bad) ==
  /\ Len(urx) < UartDepth
  /\ urx' = Append(urx, [byte |-> b, bad |-> bad])
  /\ UNCHANGED <<udr, cts, txVars, rxVars, le, msrVars, dlab, pc, zVars>>

UartSend ==
  /\ udr # <<>>
  /\ udr' = <<>>
  /\ UNCHANGED <<urx, cts, txVars, rxVars, le, msrVars, dlab, pc, zVars>>

PeerCts ==
  /\ use.cts
  /\ cts' = ~cts
  /\ UNCHANGED <<urx, udr, txVars, rxVars, le, msrVars, dlab, pc, zVars>>

-----------------------------------------------------------------------------
\* rs232_init; the rings' bytes are what .bss holds.
Init ==
  /\ use \in Uses
  /\ urx = <<>> /\ udr = <<>>
  /\ cts \in BOOLEAN /\ (cts => use.cts)
  /\ FO = [i \in Index |-> 0] /\ foStart = 0 /\ foEnd = 0
  /\ FI = [i \in Index |-> 0] /\ fiStart = 0 /\ fiEnd = 0
  /\ thre = TRUE /\ dr = FALSE /\ oe = FALSE /\ le = FALSE
  /\ msrCts = FALSE /\ msrDelta = FALSE
  /\ dlab = FALSE
  /\ pc = "loop"
  /\ zdata = 0
  /\ credit = 0
  /\ zCts = FALSE

Z80 ==
  \/ \E b \in use.bytes : WriteThr(b)
  \/ \E rx, tx \in BOOLEAN : WriteFcr(rx, tx)
  \/ \E d \in BOOLEAN : WriteLcr(d)
  \/ ReadRbr \/ ReadLsr \/ ReadMsr

Task == TaskTx \/ TaskRx \/ TaskStatus \/ TaskCts

Uart ==
  \/ \E b \in use.bytes, bad \in use.bad : UartReceive(b, bad)
  \/ UartSend
  \/ PeerCts

Next == (Z80 \/ Task \/ Uart) /\ UNCHANGED use

Spec == Init /\ [][Next]_vars

\* The main loop goes on and the UART sends what it holds.
FairSpec == Spec /\ WF_vars(Task /\ UNCHANGED use) /\ WF_vars(UartSend /\ UNCHANGED use)

-----------------------------------------------------------------------------
(* Properties *)

\* The range of every variable: no index of a ring leaves 0..Depth-1.
TypeOK ==
  /\ use \in Uses
  /\ urx \in Seq([byte : Bytes, bad : BOOLEAN]) /\ Len(urx) <= UartDepth
  /\ udr \in {<<>>} \cup {<<b>> : b \in Bytes}
  /\ cts \in BOOLEAN
  /\ FO \in [Index -> Bytes] /\ foStart \in Index /\ foEnd \in Index
  /\ FI \in [Index -> Bytes] /\ fiStart \in Index /\ fiEnd \in Index
  /\ thre \in BOOLEAN /\ dr \in BOOLEAN /\ oe \in BOOLEAN /\ le \in BOOLEAN
  /\ msrCts \in BOOLEAN /\ msrDelta \in BOOLEAN
  /\ dlab \in BOOLEAN
  /\ pc \in {"loop", "rx", "stat", "cts"}
  /\ zdata \in Bytes
  /\ credit \in 0..Depth
  /\ zCts \in BOOLEAN

\* An LSR that says "empty" belongs to indices that agree.
RingOK ==
  /\ thre => foStart = foEnd
  /\ ~dr => fiStart = fiEnd

\* The bytes between two indices of a ring.
Count(start, end, empty) ==
  IF empty THEN 0
  ELSE IF start < end THEN end - start
  ELSE end + Depth - start

At(start, i) ==
  IF start + i - 1 < Depth THEN start + i - 1 ELSE start + i - 1 - Depth

TxQueue == [i \in 1..Count(foStart, foEnd, thre) |-> FO[At(foStart, i)]]
RxQueue == [i \in 1..Count(fiStart, fiEnd, ~dr) |-> FI[At(fiStart, i)]]

\* The rings are queues of Depth bytes: nothing is lost, doubled or moved when
\* the indices wrap or meet, and a byte is refused only by a full ring.
Queues == INSTANCE SerialQueues WITH txq <- TxQueue, rxq <- RxQueue
RingsAreQueues == Queues!Spec

\* A driver that has seen THRE writes a whole ring of bytes, in how many passes
\* of the loop it likes, and none is dropped.
CreditHonoured ==
  [][\A b \in Bytes : WriteThr(b) /\ credit > 0 => TxQueue' = Append(TxQueue, b)]_vars

\* Whenever CTS is not what the Z80 last read in MSR, the next read tells it.
\* (A CTS that has moved twice between reads may also be told.)
DeltaTold == zCts # msrCts => msrDelta

\* A byte in the ring is sent, unless the Z80 resets the ring.
Drains ==
  \A i \in Index : ~thre /\ foStart = i ~> foStart # i \/ thre
=============================================================================
