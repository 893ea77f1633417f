----------------------------- MODULE PortMemory -----------------------------
(***************************************************************************)
(* What the Z80 may rely on when it uses the wait ports of the ZX          *)
(* Evolution: the two devices behind them (the gluk clock with its NVRAM   *)
(* cells, and the Kondratyev RS-232 port) look like memory cells.  The Z80 *)
(* is stopped by an access and goes on when the access is done; a read     *)
(* gives the last value written to the selected cell, a write replaces it. *)
(* One thing of the AVR and the SPI bus shows through: an access the AVR   *)
(* looked at in its first clock may be done in the wrong direction.        *)
(***************************************************************************)

CONSTANTS
  Ports,      \* devices that stop the Z80
  Indexed,    \* those whose cell is selected beforehand, not by the access itself
  Addrs,      \* cells of a device
  Values,     \* bytes
  Filler      \* the byte of an IN nobody answered

VARIABLES
  z80,        \* "run", "ask" (the first clock of an access) or "wait"
  cur,        \* the access in progress, or the last one: [port, rnw]
  addr,       \* addr[p]: the cell selected on port p
  waitWrite,  \* the byte of the last OUT to a wait port
  early,      \* the AVR looked at the access in its first clock
  got,        \* the byte the last completed IN delivered
  mem         \* mem[p][a]: contents of the cells

vars == <<z80, cur, addr, waitWrite, early, got, mem>>

Init ==
  /\ z80 = "run"
  /\ cur \in [port : Ports, rnw : BOOLEAN]
  /\ addr \in [Ports -> Addrs]
  /\ waitWrite \in Values
  /\ early = FALSE
  /\ got \in Values
  /\ mem \in [Ports -> [Addrs -> Values]]

\* The Z80 selects a cell without accessing it.
Select(p, a) ==
  /\ z80 = "run" /\ p \in Indexed
  /\ addr' = [addr EXCEPT ![p] = a]
  /\ UNCHANGED <<z80, cur, waitWrite, early, got, mem>>

\* The Z80 begins an access and is stopped.
Ask(p, rnw) ==
  /\ z80 = "run"
  /\ z80' = "ask"
  /\ cur' = [port |-> p, rnw |-> rnw]
  /\ early' = FALSE
  /\ UNCHANGED <<addr, waitWrite, got, mem>>

\* The AVR looks, and finds the direction of some earlier access.
Look ==
  /\ z80 = "ask"
  /\ early' = TRUE
  /\ UNCHANGED <<z80, cur, addr, waitWrite, got, mem>>

\* The cell, where the access itself names it, and the byte of an OUT are there.
Latch ==
  /\ z80 = "ask"
  /\ z80' = "wait"
  /\ IF cur.port \in Indexed THEN UNCHANGED addr
     ELSE \E a \in Addrs : addr' = [addr EXCEPT ![cur.port] = a]
  /\ IF cur.rnw THEN UNCHANGED waitWrite ELSE waitWrite' \in Values
  /\ UNCHANGED <<cur, early, got, mem>>

\* The selected cell, with the byte of the last OUT in it.
Written == [mem EXCEPT ![cur.port][addr[cur.port]] = waitWrite]

\* The Z80 goes on, and the access has taken place.
Answer ==
  /\ z80 = "wait"
  /\ z80' = "run"
  /\ IF cur.rnw THEN got' = mem[cur.port][addr[cur.port]] /\ UNCHANGED mem
                ELSE mem' = Written /\ UNCHANGED got
  /\ UNCHANGED <<cur, addr, waitWrite, early>>

\* The Z80 goes on, and an IN has been done as an OUT, or an OUT as an IN.
Turn ==
  /\ z80 = "wait" /\ early
  /\ z80' = "run"
  /\ IF cur.rnw THEN got' = Filler /\ mem' = Written
                ELSE UNCHANGED <<got, mem>>
  /\ UNCHANGED <<cur, addr, waitWrite, early>>

Next ==
  \/ \E p \in Ports, a \in Addrs : Select(p, a)
  \/ \E p \in Ports, rnw \in BOOLEAN : Ask(p, rnw)
  \/ Look \/ Latch
  \/ Answer \/ Turn

Spec == Init /\ [][Next]_vars
=============================================================================
