------------------------------ MODULE WaitPort ------------------------------
(***************************************************************************)
(* The wait ports: an access of the Z80 to the gluk clock or to the        *)
(* Kondratyev RS-232 port raises a wait flip-flop in the FPGA (zwait.v),   *)
(* which stops the Z80 and interrupts the AVR.  The AVR finds out through  *)
(* FLAG_SPI_INT, or through the status byte that every register exchange   *)
(* on the SPI bus returns (slavespi.v, zx_spi_send), and zx_wait_task      *)
(* fetches the address, exchanges the byte and so releases the Z80.        *)
(*                                                                         *)
(* A step is one edge of nSPICS with the SPI byte that follows it, or one  *)
(* access of flags_register, so the Z80 and the interrupt can come between *)
(* any two of them.  The FPGA takes an access in two clocks of the Z80:    *)
(* port_rd or port_wr raises the wait, and one clock later the direction,  *)
(* the address and the byte are latched; an edge of nSPICS can fall        *)
(* between the two.  The devices themselves are reduced to cells (what an  *)
(* NVRAM byte or the 16550 scratch register is).                           *)
(***************************************************************************)
EXTENDS Naturals

CONSTANTS
  Addrs,      \* cells of each device
  Values,     \* bytes
  Filler,     \* the 0xFF the AVR shifts out when it has no data
  TaskRegs,   \* registers the loop's tasks write: "task" (mouse, keyboard,
              \* joystick, configuration) and "rst" (soft reset)
  Budget      \* bound: exchanges and flag updates in one pass of the loop

Ports == {"gluk", "com"}

ASSUME WaitPortAssumption ==
  /\ Addrs # {}
  /\ Filler \in Values
  /\ TaskRegs \subseteq {"task", "rst"}
  /\ Budget \in Nat

VARIABLES
  \* Z80
  z80,        \* "run", "wait" (WAIT is low) or "reset"
  cur,        \* the access in progress, or the last one: [port, rnw]
  got,        \* the byte the last IN delivered
  \* FPGA
  waits,      \* zwait.v waits[1:0], as the set of ports that wait
  strobe,     \* port_rd or port_wr is high: the first clock of an access
  addr,       \* gluclock_addr and comport_addr
  waitWrite,  \* wait_write: the byte of the last OUT
  waitReg,    \* wait_reg: the byte for the Z80
  regnum,     \* slavespi.v regnum, by name; "none" is $00
  shiftOut,   \* the status latched into shift_out at the last rise of CS
  \* AVR
  gie,        \* interrupts enabled
  intf,       \* INTF6: edge of spiint_n seen, INT6 not yet executed
  flag,       \* FLAG_SPI_INT
  tmp,        \* FLAG_SPI_INT in the copy a flags_register update has loaded
  pc,         \* what main executes next
  after,      \* where main continues when the outer exchange returns
  budget,
  reg,        \* the register zx_spi_send is called with
  status,     \* status of the outer zx_spi_send
  wst,        \* zx_wait_task's argument
  waddr,      \* zx_wait_task's addr
  wdata,      \* zx_wait_task's data
  file,       \* the devices' cells
  \* history
  early,      \* CS rose within the strobe of the access in progress
  fresh       \* status (or wst) was latched in the access in progress,
              \* behind its strobe

zVars == <<z80, cur, got>>
slaveVars == <<waits, regnum, shiftOut>>
portVars == <<addr, waitWrite>>
strobeVars == <<strobe, early>>
flagVars == <<gie, intf, flag, tmp>>
taskVars == <<wst, waddr, wdata, file>>
vars == <<z80, cur, got, waits, strobe, addr, waitWrite, waitReg, regnum, shiftOut,
          gie, intf, flag, tmp, pc, after, budget, reg, status,
          wst, waddr, wdata, file, early, fresh>>

Status == [dev : SUBSET Ports, rnw : BOOLEAN]
NoWait == [dev |-> {}, rnw |-> TRUE]

\* Mutant: one address register for both ports.
AddrRegShared(p) == "gluadr"

AddrReg(p) == IF p = "gluk" THEN "gluadr" ELSE "comadr"
OuterRegs == {"task", "rst"}

\* The test of a status against the mask 0x7F.
\* Mutant: against 0x01.
WaitedOnGluk(s) == "gluk" \in s.dev

Waited(s) == s.dev # {}

\* The one port a status names: zx_wait_task switches on 1 and 2 only.
Served(s, p) == s.dev = {p}

-----------------------------------------------------------------------------
(* Z80 and FPGA ports *)

\* OUT to $DFF7: not waited.
SelectGluk(a) ==
  /\ z80 = "run" /\ ~strobe
  /\ addr' = [addr EXCEPT !["gluk"] = a]
  /\ UNCHANGED <<zVars, slaveVars, strobeVars, waitWrite, waitReg, flagVars, pc, after,
                 budget, reg, status, taskVars, fresh>>

\* IN or OUT on $BFF7 or $F8EF..$FFEF: port_rd or port_wr sets the wait flip-flop
\* at once.  The falling edge of spiint_n sets INTF6.
Access(p, rnw) ==
  /\ z80 = "run" /\ ~strobe
  /\ z80' = "wait"
  /\ cur' = [port |-> p, rnw |-> rnw]
  /\ waits' = waits \cup {p}
  /\ strobe' = TRUE
  /\ intf' = (intf \/ waits = {})
  /\ early' = FALSE /\ fresh' = FALSE
  /\ UNCHANGED <<got, portVars, waitReg, regnum, shiftOut, gie, flag, tmp, pc,
                 after, budget, reg, status, taskVars>>

\* The next clock: comport_addr, wait_write and wait_rnw follow their strobe.
LatchPorts ==
  /\ strobe
  /\ strobe' = FALSE
  /\ IF cur.port = "com" THEN \E a \in Addrs : addr' = [addr EXCEPT !["com"] = a]
                         ELSE UNCHANGED addr
  /\ IF cur.rnw THEN UNCHANGED waitWrite ELSE waitWrite' \in Values
  /\ UNCHANGED <<zVars, slaveVars, waitReg, flagVars, pc, after, budget, reg,
                 status, taskVars, early, fresh>>

\* wait_rnw as a rise of CS finds it: the direction of the access only once its
\* strobe is over; before that, and between accesses, it is that of whatever
\* port the Z80 used last.
\* Mutant: wait_rnw follows the strobes of some other port.
DirectionUnlatched == BOOLEAN

Direction == IF z80 = "wait" /\ ~strobe THEN {cur.rnw} ELSE BOOLEAN

\* The resetter lets the Z80 go.
Z80Start ==
  /\ z80 = "reset"
  /\ z80' = "run"
  /\ UNCHANGED <<cur, got, slaveVars, strobeVars, portVars, waitReg, flagVars, pc, after,
                 budget, reg, status, taskVars, fresh>>

\* nSPICS 0 -> 1: the register selected so far is strobed, the status is
\* latched, and the register number starts again from $00.
\* Mutant: only a read is ended.
WaitEndOnRead  == regnum = "wait" /\ cur.rnw

WaitEnd == regnum = "wait"
GenRst  == regnum = "rst"

Rise(next) ==
  /\ waits' = IF WaitEnd \/ GenRst THEN {} ELSE waits
  /\ \E rnw \in Direction : shiftOut' = [dev |-> waits', rnw |-> rnw]
  /\ early' = (early \/ strobe)
  /\ regnum' = next
  /\ z80' = IF GenRst THEN "reset"
            ELSE IF WaitEnd /\ z80 = "wait" THEN "run" ELSE z80
  /\ got' = IF WaitEnd /\ z80 = "wait" /\ cur.rnw THEN waitReg ELSE got
  /\ UNCHANGED <<cur, strobe>>

-----------------------------------------------------------------------------
(* AVR: interrupt and flags_register *)

\* INT6: entering the handler alone takes longer than the strobe.
SpiInt ==
  /\ gie /\ intf /\ ~strobe
  /\ intf' = FALSE
  /\ flag' = TRUE
  /\ UNCHANGED <<zVars, slaveVars, strobeVars, portVars, waitReg, gie, tmp, pc, after,
                 budget, reg, status, taskVars, fresh>>

\* Main spends at least 16 cycles in every SPI byte.  The strobe (a clock of the
\* Z80, about 3 cycles) that the edge before it met, and an enabled interrupt,
\* are over before the byte is; an edge can still meet a strobe that has just begun.
Settled ==
  /\ ~(strobe /\ early)
  /\ ~(gie /\ intf /\ ~strobe)

\* A task sets or clears another bit of flags_register: load, change, store.
RmwLoad ==
  /\ pc = "pass" /\ budget > 0
  /\ tmp' = flag
  /\ pc' = "rmw"
  /\ UNCHANGED <<zVars, slaveVars, strobeVars, portVars, waitReg, gie, intf, flag, after,
                 budget, reg, status, taskVars, fresh>>

RmwStore ==
  /\ pc = "rmw"
  /\ flag' = tmp
  /\ tmp' = FALSE
  /\ pc' = "pass"
  /\ budget' = budget - 1
  /\ UNCHANGED <<zVars, slaveVars, strobeVars, portVars, waitReg, gie, intf, after,
                 reg, status, taskVars, fresh>>

-----------------------------------------------------------------------------
(* AVR: zx_spi_send *)

\* A task calls zx_spi_send(r, ..., 0x7F).
Send(r) ==
  /\ pc = "pass" /\ budget > 0
  /\ budget' = budget - 1
  /\ reg' = r
  /\ pc' = "addr"
  /\ UNCHANGED <<zVars, slaveVars, strobeVars, portVars, waitReg, flagVars, after,
                 status, taskVars, fresh>>

\* CS low, high, register number out, status in.
SendAddr ==
  /\ pc = "addr" /\ Settled
  /\ Rise(reg)
  /\ pc' = "data"
  /\ IF reg \in OuterRegs
     THEN status' = shiftOut' /\ fresh' = (waits' # {} /\ ~strobe)
     ELSE UNCHANGED <<status, fresh>>
  /\ UNCHANGED <<portVars, waitReg, flagVars, after, budget, reg, taskVars>>

\* CS low, one byte each way: addr of the port, or the byte of the access.
SendData ==
  /\ pc = "data" /\ Settled
  /\ pc' = "strobe"
  /\ waitReg' = IF regnum = "wait" THEN wdata ELSE waitReg
  /\ wdata' = IF regnum = "wait" /\ ~wst.rnw THEN waitWrite ELSE wdata
  /\ waddr' = CASE regnum = "gluadr" -> addr["gluk"]
                [] regnum = "comadr" -> addr["com"]
                [] OTHER -> waddr
  /\ UNCHANGED <<zVars, slaveVars, strobeVars, portVars, flagVars, after, budget, reg,
                 status, wst, file, fresh>>

\* CS high at the end of a task's exchange, and zx_wait_task if the CPU waited.
\* zx_init's reset passes mask 0.
TaskStrobe ==
  /\ pc = "strobe" /\ reg \in OuterRegs
  /\ Rise("none")
  /\ IF Waited(status) /\ after # "boot1"
     THEN pc' = "wt" /\ wst' = status
     ELSE pc' = after /\ UNCHANGED wst
  /\ status' = NoWait
  /\ UNCHANGED <<portVars, waitReg, flagVars, after, budget, reg,
                 waddr, wdata, file, fresh>>

\* zx_task strobes the keyboard by hand and reads the status of the last rise.
StbAddr ==
  /\ pc = "pass" /\ budget > 0 /\ Settled
  /\ budget' = budget - 1
  /\ regnum' = "stb"
  /\ status' = shiftOut
  /\ fresh' = (shiftOut.dev # {} /\ waits # {} /\ ~early)
  /\ pc' = "stb"
  /\ UNCHANGED <<zVars, waits, shiftOut, strobeVars, portVars, waitReg, flagVars, after,
                 reg, taskVars>>

StbRise ==
  /\ pc = "stb"
  /\ Rise("none")
  /\ IF Waited(status) THEN pc' = "wt" /\ wst' = status
                        ELSE pc' = "pass" /\ UNCHANGED wst
  /\ status' = NoWait
  /\ UNCHANGED <<portVars, waitReg, flagVars, after, budget, reg,
                 waddr, wdata, file, fresh>>

\* The end of a pass: is FLAG_SPI_INT set?
Poll ==
  /\ pc = "pass"
  /\ budget' = Budget
  /\ IF flag
     THEN /\ Settled
          /\ Rise("none")
          /\ wst' = shiftOut'
          /\ fresh' = (waits' # {} /\ ~strobe)
          /\ pc' = "wt"
     ELSE UNCHANGED <<zVars, slaveVars, strobeVars, wst, fresh, pc>>
  /\ UNCHANGED <<portVars, waitReg, flagVars, after, reg, status,
                 waddr, wdata, file>>

-----------------------------------------------------------------------------
(* AVR: zx_wait_task *)

\* The locals are gone.
TaskReturns == wst' = NoWait /\ wdata' = Filler /\ reg' = "task"

\* Mutant: the flag is left to the next poll.
KeepFlag == flag' = flag

ClearFlag == flag' = FALSE

WaitTask ==
  /\ pc = "wt"
  /\ ClearFlag
  /\ wdata' = Filler
  /\ \/ \E p \in Ports : Served(wst, p) /\ reg' = AddrReg(p)
     \/ (\A p \in Ports : ~Served(wst, p)) /\ reg' = "wait"
  /\ pc' = "addr"
  /\ UNCHANGED <<zVars, slaveVars, strobeVars, portVars, waitReg, gie, intf, tmp, after,
                 budget, status, wst, waddr, file, fresh>>

\* The address has been fetched; a read calls the device before the exchange.
FetchStrobe ==
  /\ pc = "strobe" /\ reg \in {"gluadr", "comadr"}
  /\ Rise("none")
  /\ reg' = "wait"
  /\ pc' = "addr"
  /\ IF wst.rnw
     THEN \E p \in Ports : Served(wst, p) /\ wdata' = file[p][waddr]
     ELSE UNCHANGED wdata
  /\ UNCHANGED <<portVars, waitReg, flagVars, after, budget, status, wst,
                 waddr, file, fresh>>

\* The byte has been exchanged: the rise ends the wait.
ReplyStrobe ==
  /\ pc = "strobe" /\ reg = "wait"
  /\ Rise("none")
  /\ IF ~wst.rnw /\ (\E p \in Ports : Served(wst, p))
     THEN pc' = "put" /\ UNCHANGED <<reg, wst, wdata>>
     ELSE pc' = after /\ TaskReturns
  /\ UNCHANGED <<portVars, waitReg, flagVars, after, budget, status,
                 waddr, file, fresh>>

\* Mutant: the arguments of gluk_set_reg and rs232_zx_write swapped.
SetSwapped(p) == file' = [file EXCEPT ![p][wdata] = waddr]

SetReg(p) == file' = [file EXCEPT ![p][waddr] = wdata]

\* A write calls the device after the Z80 has been released.
Put ==
  /\ pc = "put"
  /\ \E p \in Ports : Served(wst, p) /\ SetReg(p)
  /\ pc' = after /\ TaskReturns
  /\ UNCHANGED <<zVars, slaveVars, strobeVars, portVars, waitReg, flagVars, after, budget,
                 status, waddr, fresh>>

-----------------------------------------------------------------------------
(* AVR: start-up, with interrupts disabled *)

\* zx_init resets the Z80 (mask 0); rtc_init sends the configuration.
BootSend(here, r, next) ==
  /\ pc = here
  /\ reg' = r
  /\ after' = next
  /\ pc' = "addr"
  /\ UNCHANGED <<zVars, slaveVars, strobeVars, portVars, waitReg, flagVars, budget,
                 status, taskVars, fresh>>

Sei ==
  /\ pc = "sei"
  /\ gie' = TRUE
  /\ pc' = "pass" /\ after' = "pass"
  /\ UNCHANGED <<zVars, slaveVars, strobeVars, portVars, waitReg, intf, flag, tmp, budget,
                 reg, status, taskVars, fresh>>

Boot == BootSend("boot0", "rst", "boot1") \/ BootSend("boot1", "task", "sei") \/ Sei

-----------------------------------------------------------------------------
Start(there, enabled) ==
  /\ z80 = "run"
  /\ cur = [port |-> "gluk", rnw |-> TRUE]
  /\ got = Filler
  /\ waits = {}
  /\ addr \in [Ports -> Addrs]
  /\ waitWrite = Filler
  /\ waitReg = Filler
  /\ regnum = "none"
  /\ shiftOut = NoWait
  /\ gie = enabled
  /\ intf = FALSE /\ flag = FALSE /\ tmp = FALSE
  /\ pc = there /\ after = there
  /\ budget = Budget
  /\ reg = "task"
  /\ status = NoWait /\ wst = NoWait
  /\ waddr = addr["gluk"] /\ wdata = Filler
  /\ file \in [Ports -> [Addrs -> Values]]
  /\ strobe = FALSE /\ early = FALSE /\ fresh = FALSE

\* The main loop, after a start-up during which the Z80 used no wait port.
Init == Start("pass", TRUE)

\* The end of the FPGA's configuration: the Z80 already runs.
BootInit == Start("boot0", FALSE)

Z80 ==
  \/ \E a \in Addrs : SelectGluk(a)
  \/ \E p \in Ports, rnw \in BOOLEAN : Access(p, rnw)
  \/ Z80Start

Main ==
  \/ RmwLoad \/ RmwStore
  \/ \E r \in TaskRegs : Send(r)
  \/ SendAddr \/ SendData \/ TaskStrobe
  \/ StbAddr \/ StbRise \/ Poll
  \/ WaitTask \/ FetchStrobe \/ ReplyStrobe \/ Put
  \/ Boot

Next == Z80 \/ LatchPorts \/ SpiInt \/ Main

Spec == Init /\ [][Next]_vars
BootSpec == BootInit /\ [][Next]_vars

\* The AVR and the Z80's clock never stop; nothing obliges the Z80 to do anything.
FairSpec == Spec /\ WF_vars(Main) /\ WF_vars(SpiInt) /\ WF_vars(LatchPorts)

-----------------------------------------------------------------------------
(* Properties *)

MainPcs == {"pass", "rmw", "addr", "data", "strobe", "stb", "wt", "put"}
BootPcs == {"boot0", "boot1", "sei"}

\* The range of every variable, of the loop and of the start-up.
TypeOK ==
  /\ z80 \in {"run", "wait", "reset"}
  /\ cur \in [port : Ports, rnw : BOOLEAN]
  /\ got \in Values
  /\ waits \in SUBSET Ports
  /\ addr \in [Ports -> Addrs]
  /\ waitWrite \in Values
  /\ waitReg \in Values
  /\ regnum \in {"none", "stb", "gluadr", "comadr", "wait"} \cup OuterRegs
  /\ shiftOut \in Status
  /\ gie \in BOOLEAN /\ intf \in BOOLEAN /\ flag \in BOOLEAN /\ tmp \in BOOLEAN
  /\ pc \in MainPcs \cup BootPcs
  /\ after \in {"pass"} \cup BootPcs
  /\ budget \in 0..Budget
  /\ reg \in {"gluadr", "comadr", "wait"} \cup OuterRegs
  /\ status \in Status /\ wst \in Status
  /\ waddr \in Addrs /\ wdata \in Values
  /\ file \in [Ports -> [Addrs -> Values]]
  /\ strobe \in BOOLEAN /\ early \in BOOLEAN /\ fresh \in BOOLEAN

\* Main is inside zx_wait_task and has not yet ended the wait.
Serving == pc = "wt" \/ (pc \in {"addr", "data", "strobe"} /\ reg \notin OuterRegs)

\* zx_wait_task is only ever entered for the access that holds the Z80: the
\* status it was given names exactly the waiting port (main.c's poll, zx_spi_send
\* and the keyboard strobe all reach it), and its direction, unless CS rose in the
\* one clock in which wait_rnw is still that of the Z80's previous port.
ServesPending ==
  Serving =>
    /\ z80 = "wait" /\ ~strobe
    /\ wst.dev = waits
    /\ wst.rnw # cur.rnw => early /\ ~fresh

\* What makes that so in the main loop, part by part.  No reset and no start-up:
InLoop ==
  /\ gie /\ pc \in MainPcs /\ after = "pass"
  /\ z80 # "reset" /\ reg # "rst" /\ regnum # "rst"
  /\ strobe => z80 = "wait"
  /\ pc = "rmw" => budget > 0

\* the flip-flops and the Z80 agree, on one port at a time;
OneWait == waits = IF z80 = "wait" THEN {cur.port} ELSE {}

\* regnum is $00 except inside an exchange, so no toggling of CS strobes a
\* register twice;
RegnumMatches ==
  regnum = CASE pc \in {"data", "strobe"} -> reg
             [] pc = "stb" -> "stb"
             [] OTHER -> "none"

\* every status that reports a wait reports the access in progress;
Reports(s) == z80 = "wait" /\ s.dev = waits /\ (s.rnw # cur.rnw => early)

StatusCurrent ==
  /\ shiftOut.dev # {} => Reports(shiftOut) /\ (strobe => early)
  /\ status.dev # {} =>
       /\ Reports(status) /\ (status.rnw # cur.rnw => ~fresh)
       /\ intf \/ strobe => pc = "data" /\ (strobe => early)
  /\ status # NoWait => pc = "stb" \/ (pc \in {"data", "strobe"} /\ reg \in OuterRegs)

\* the flag and its copies outlive no access, because the interrupt of an
\* access is over before its wait task clears the flag;
FlagsCurrent ==
  /\ intf \/ flag \/ tmp => z80 = "wait"
  /\ flag \/ tmp => ~strobe
  /\ tmp => pc = "rmw"
  /\ Serving => ~intf
  /\ Serving /\ pc # "wt" => ~flag

\* and the wait task works on the address and the byte of the access.
Fetching == pc \in {"addr", "data", "strobe"} /\ reg \in {"gluadr", "comadr"}
Replying == pc \in {"addr", "data", "strobe"} /\ reg = "wait"

TaskCurrent ==
  /\ Fetching => reg = AddrReg(cur.port) /\ wdata = Filler
  /\ Fetching /\ pc = "strobe" => waddr = addr[cur.port]
  /\ Replying => waddr = addr[cur.port]
  /\ Replying /\ wst.rnw => wdata = file[cur.port][waddr]
  /\ Replying /\ ~wst.rnw /\ pc # "strobe" => wdata = Filler
  /\ Replying /\ pc = "strobe" =>
        IF wst.rnw THEN waitReg = wdata ELSE waitReg = Filler /\ wdata = waitWrite
  /\ pc = "put" => ~wst.rnw /\ \E p \in Ports : Served(wst, p)

\* The inductive invariant of Spec when the tasks do not reset the Z80.
WInv ==
  /\ TypeOK /\ InLoop /\ OneWait /\ RegnumMatches /\ StatusCurrent
  /\ FlagsCurrent /\ ServesPending /\ TaskCurrent

\* A byte the Z80 has written is with the AVR until the device has it, even
\* when the Z80 has gone on and begun the next access (the write is executed
\* after $40 has released the Z80).
Cells ==
  IF pc = "put"
  THEN [p \in Ports |-> IF Served(wst, p) THEN [file[p] EXCEPT ![waddr] = wdata]
                                          ELSE file[p]]
  ELSE file

\* The Z80 as PortMemory has it: the first clock of an access is a state of its own.
Z80State == IF z80 = "wait" /\ strobe THEN "ask" ELSE z80

\* The ports look to the Z80 like memory, whatever the tasks, the interrupt
\* and the SPI bus do in between, but for the accesses CS met in their first clock.
Memory == INSTANCE PortMemory WITH Indexed <- {"gluk"}, z80 <- Z80State, mem <- Cells
PortsAreMemory == Memory!Spec

\* A wait that is being released was answered: the byte an IN takes is the
\* one its cell holds, and the byte of an OUT is on its way to its cell.
Answered ==
  IF cur.rnw THEN got' = file[cur.port][addr[cur.port]] /\ pc' # "put"
  ELSE /\ pc' = "put" /\ Served(wst, cur.port)
       /\ waddr = addr[cur.port] /\ wdata = waitWrite

\* What comes of an access in the wrong direction: an IN takes the filler and the
\* byte of some earlier OUT is on its way to its cell; the byte of an OUT is lost.
Turned ==
  IF cur.rnw THEN /\ got' = Filler
                  /\ pc' = "put" /\ Served(wst, cur.port)
                  /\ waddr = addr[cur.port] /\ wdata = waitWrite
  ELSE pc' # "put" /\ UNCHANGED <<got, file>>

\* No wait is released unanswered but one whose status CS latched in the clock
\* before wait_rnw is the access's own; that one is served in one of two ways.
ReleasedOnlyAnswered ==
  [][z80 = "wait" /\ z80' = "run" => Answered \/ (early /\ ~fresh /\ Turned)]_vars

\* Start-up and soft resets leave wait tasks whose status is out of date; a task
\* whose status was latched in the access, behind its strobe, answers it all the same.
FreshReleaseAnswered == [][z80 = "wait" /\ z80' = "run" /\ fresh => Answered]_vars

\* A wait that main can see in the flag is served.
FlaggedServed == z80 = "wait" /\ flag /\ pc # "rmw" ~> z80 # "wait"

\* A wait whose flag was lost is served by the next exchange of any task.
ExchangeServes == []<><<TaskStrobe>>_vars => (z80 = "wait" ~> z80 # "wait")
=============================================================================
