--------------------------- MODULE WaitPort_proofs ---------------------------
(***************************************************************************)
(* Proofs about the wait ports, for every set of cells, every set of bytes *)
(* and every number of exchanges in a pass: the main loop's wait task      *)
(* always serves the access that holds the Z80, and the ports look to the  *)
(* Z80 like memory.                                                        *)
(***************************************************************************)
EXTENDS WaitPort, TLAPS

\* The tasks of the loop, without the soft reset.
NoReset == "rst" \notin TaskRegs

LEMMA InitInv == ASSUME Init PROVE WInv
<1> USE Init DEF Init, Start, Ports, OuterRegs, NoWait, Status
<1>1. TypeOK
  <2>1. gie \in BOOLEAN /\ intf \in BOOLEAN /\ flag \in BOOLEAN /\ tmp \in BOOLEAN
        /\ strobe \in BOOLEAN /\ early \in BOOLEAN /\ fresh \in BOOLEAN
    BY Zenon
  <2>2. budget \in 0..Budget /\ got \in Values /\ waitWrite \in Values
        /\ waitReg \in Values /\ wdata \in Values
    BY WaitPortAssumption DEF WaitPortAssumption
  <2> QED
    BY <2>1, <2>2 DEF TypeOK, MainPcs, BootPcs
<1>2. InLoop /\ OneWait /\ RegnumMatches
  BY DEF InLoop, OneWait, RegnumMatches, MainPcs
<1>3. StatusCurrent /\ FlagsCurrent
  BY DEF StatusCurrent, FlagsCurrent, Serving
<1>4. ServesPending /\ TaskCurrent
  BY DEF ServesPending, TaskCurrent, Serving, Fetching, Replying
<1> QED
  BY <1>1, <1>2, <1>3, <1>4 DEF WInv

LEMMA SelectInv == ASSUME WInv, NEW a \in Addrs, SelectGluk(a) PROVE WInv'
<1> USE DEF WInv, TypeOK, SelectGluk, zVars, slaveVars, strobeVars, flagVars, taskVars, Ports
<1>1. TypeOK'
  OBVIOUS
<1>2. InLoop' /\ OneWait' /\ RegnumMatches'
  BY DEF InLoop, OneWait, RegnumMatches
<1>3. StatusCurrent' /\ FlagsCurrent' /\ ServesPending'
  BY DEF StatusCurrent, FlagsCurrent, ServesPending, Serving, Reports
<1>4. TaskCurrent'
  BY DEF TaskCurrent, Fetching, Replying, Served, ServesPending, Serving, OuterRegs, AddrReg
<1> QED
  BY <1>1, <1>2, <1>3, <1>4

LEMMA AccessInv ==
  ASSUME WInv, NEW p \in Ports, NEW rnw \in BOOLEAN, Access(p, rnw) PROVE WInv'
<1> USE DEF WInv, TypeOK, Access, portVars, taskVars
<1>1. TypeOK'
  <2>1. intf' \in BOOLEAN /\ strobe' \in BOOLEAN /\ early' \in BOOLEAN /\ fresh' \in BOOLEAN
    BY Zenon
  <2> QED
    BY <2>1 DEF Ports
<1>2. InLoop' /\ OneWait' /\ RegnumMatches'
  BY DEF InLoop, OneWait, RegnumMatches
<1>3. StatusCurrent' /\ FlagsCurrent' /\ ServesPending'
  BY DEF StatusCurrent, FlagsCurrent, ServesPending, Serving, Reports, OneWait
<1>4. TaskCurrent'
  BY DEF TaskCurrent, Fetching, Replying, Served, ServesPending, Serving, OuterRegs, AddrReg
<1> QED
  BY <1>1, <1>2, <1>3, <1>4

LEMMA LatchPortsInv == ASSUME WInv, LatchPorts PROVE WInv'
<1> USE DEF WInv, TypeOK, LatchPorts, zVars, slaveVars, flagVars, taskVars
<1>0. z80 = "wait" /\ ~Serving
  BY DEF InLoop, ServesPending
<1>1. TypeOK'
  <2>1. addr' \in [Ports -> Addrs]
    OBVIOUS
  <2>2. strobe' \in BOOLEAN
    BY Zenon
  <2> QED BY <2>1, <2>2
<1>2. InLoop' /\ OneWait' /\ RegnumMatches'
  BY DEF InLoop, OneWait, RegnumMatches
<1>3. StatusCurrent' /\ FlagsCurrent' /\ ServesPending'
  BY <1>0 DEF StatusCurrent, FlagsCurrent, ServesPending, Serving, Reports
<1>4. TaskCurrent'
  BY <1>0 DEF TaskCurrent, Fetching, Replying, Served, Serving, OuterRegs
<1> QED
  BY <1>1, <1>2, <1>3, <1>4

\* A rise that strobes neither $40 nor $30 leaves the Z80 alone and latches the
\* access in progress, with its direction unless the rise meets the strobe.
LEMMA RiseQuiet ==
  ASSUME WInv, NEW next, Rise(next), regnum # "wait"
  PROVE  /\ waits' = waits /\ z80' = z80 /\ got' = got /\ cur' = cur
         /\ regnum' = next /\ strobe' = strobe /\ early' = (early \/ strobe)
         /\ early' \in BOOLEAN
         /\ shiftOut' \in Status /\ shiftOut'.dev = waits
         /\ waits # {} => z80 = "wait" /\ (~strobe => shiftOut'.rnw = cur.rnw)
<1>1. ~WaitEnd /\ ~GenRst
  BY DEF WInv, InLoop, WaitEnd, GenRst
<1>2. /\ waits' = waits /\ z80' = z80 /\ got' = got /\ cur' = cur /\ regnum' = next
      /\ strobe' = strobe
  BY <1>1 DEF Rise
<1>e. early' = (early \/ strobe) /\ early' \in BOOLEAN
  BY Zenon DEF Rise
<1>3. PICK rnw \in BOOLEAN : /\ shiftOut' = [dev |-> waits, rnw |-> rnw]
                             /\ z80 = "wait" /\ ~strobe => rnw = cur.rnw
  <2>1. z80 = "wait" => cur.rnw \in BOOLEAN
    BY DEF WInv, TypeOK
  <2> QED BY <1>2, <2>1 DEF Rise, Direction
<1>4. shiftOut' \in Status /\ shiftOut'.dev = waits
  BY <1>3 DEF Status, WInv, TypeOK
<1>5. waits # {} => z80 = "wait"
  BY DEF WInv, OneWait
<1> QED
  BY <1>2, <1>e, <1>3, <1>4, <1>5

LEMMA SpiIntInv == ASSUME WInv, SpiInt PROVE WInv'
<1> USE DEF WInv, TypeOK, SpiInt, zVars, slaveVars, strobeVars, portVars, taskVars
<1>1. TypeOK'
  <2>1. intf' \in BOOLEAN /\ flag' \in BOOLEAN
    BY Zenon
  <2> QED BY <2>1
<1>2. InLoop' /\ OneWait' /\ RegnumMatches'
  BY DEF InLoop, OneWait, RegnumMatches
<1>3. StatusCurrent' /\ FlagsCurrent' /\ ServesPending'
  BY DEF StatusCurrent, FlagsCurrent, ServesPending, Serving, Reports
<1>4. TaskCurrent'
  BY DEF TaskCurrent, Fetching, Replying, Served, AddrReg
<1> QED
  BY <1>1, <1>2, <1>3, <1>4

LEMMA RmwLoadInv == ASSUME WInv, RmwLoad PROVE WInv'
<1> USE DEF WInv, TypeOK, RmwLoad, zVars, slaveVars, strobeVars, portVars, taskVars
<1>1. TypeOK'
  BY DEF MainPcs
<1>2. InLoop' /\ OneWait' /\ RegnumMatches'
  BY DEF InLoop, OneWait, RegnumMatches, MainPcs
<1>3. StatusCurrent' /\ FlagsCurrent' /\ ServesPending'
  BY DEF StatusCurrent, FlagsCurrent, ServesPending, Serving, Reports
<1>4. TaskCurrent'
  BY DEF TaskCurrent, Fetching, Replying, Served, AddrReg
<1> QED
  BY <1>1, <1>2, <1>3, <1>4

LEMMA RmwStoreInv == ASSUME WInv, RmwStore PROVE WInv'
<1> USE DEF WInv, TypeOK, RmwStore, zVars, slaveVars, strobeVars, portVars, taskVars
<1>1. TypeOK'
  <2>1. budget' \in 0..Budget
    BY WaitPortAssumption DEF WaitPortAssumption, InLoop
  <2>2. tmp' \in BOOLEAN /\ flag' \in BOOLEAN
    BY Zenon
  <2> QED BY <2>1, <2>2 DEF MainPcs
<1>2. InLoop' /\ OneWait' /\ RegnumMatches'
  BY DEF InLoop, OneWait, RegnumMatches, MainPcs
<1>3. StatusCurrent' /\ FlagsCurrent' /\ ServesPending'
  BY DEF StatusCurrent, FlagsCurrent, ServesPending, Serving, Reports
<1>4. TaskCurrent'
  BY DEF TaskCurrent, Fetching, Replying, Served, AddrReg
<1> QED
  BY <1>1, <1>2, <1>3, <1>4

LEMMA SendInv == ASSUME NoReset, WInv, NEW r \in TaskRegs, Send(r) PROVE WInv'
<1> USE DEF WInv, TypeOK, Send, zVars, slaveVars, strobeVars, portVars, flagVars, taskVars
<1>0. r = "task"
  BY WaitPortAssumption DEF WaitPortAssumption, NoReset
<1>1. TypeOK'
  <2>1. budget' \in 0..Budget
    BY WaitPortAssumption DEF WaitPortAssumption
  <2> QED BY <1>0, <2>1 DEF MainPcs, OuterRegs
<1>2. InLoop' /\ OneWait' /\ RegnumMatches'
  BY <1>0 DEF InLoop, OneWait, RegnumMatches, MainPcs
<1>3. StatusCurrent' /\ FlagsCurrent' /\ ServesPending'
  BY <1>0 DEF StatusCurrent, FlagsCurrent, ServesPending, Serving, Reports, OuterRegs
<1>4. TaskCurrent'
  BY <1>0 DEF TaskCurrent, Fetching, Replying, Served, AddrReg
<1> QED
  BY <1>1, <1>2, <1>3, <1>4

LEMMA SendAddrInv == ASSUME WInv, SendAddr PROVE WInv'
<1> USE DEF WInv, TypeOK, SendAddr, portVars, flagVars, taskVars
<1>0. regnum = "none" /\ Rise(reg)
  BY DEF RegnumMatches
<1>r. /\ waits' = waits /\ z80' = z80 /\ got' = got /\ cur' = cur
      /\ regnum' = reg /\ strobe' = strobe /\ early' = (early \/ strobe)
      /\ early' \in BOOLEAN
      /\ shiftOut' \in Status /\ shiftOut'.dev = waits
      /\ waits # {} => z80 = "wait" /\ (~strobe => shiftOut'.rnw = cur.rnw)
  BY <1>0, RiseQuiet
<1>1. TypeOK'
  <2>1. fresh' \in BOOLEAN
    BY DEF OuterRegs
  <2> QED BY <1>r, <2>1 DEF MainPcs, OuterRegs
<1>2. InLoop' /\ OneWait' /\ RegnumMatches'
  BY <1>r DEF InLoop, OneWait, RegnumMatches, MainPcs
<1>3. StatusCurrent'
  BY <1>r DEF StatusCurrent, Reports, OuterRegs, NoWait, Settled, InLoop
<1>4. FlagsCurrent' /\ ServesPending'
  BY <1>r DEF FlagsCurrent, ServesPending, Serving
<1>5. TaskCurrent'
  BY <1>r DEF TaskCurrent, Fetching, Replying, Served, AddrReg
<1> QED
  BY <1>1, <1>2, <1>3, <1>4, <1>5

LEMMA SendDataInv == ASSUME WInv, SendData PROVE WInv'
<1> USE DEF WInv, TypeOK, SendData, zVars, slaveVars, strobeVars, portVars, flagVars
<1>0. regnum = reg
  BY DEF RegnumMatches
<1>1. TypeOK'
  BY DEF MainPcs, Ports
<1>2. InLoop' /\ OneWait' /\ RegnumMatches'
  BY <1>0 DEF InLoop, OneWait, RegnumMatches, MainPcs
<1>3. StatusCurrent' /\ FlagsCurrent' /\ ServesPending'
  BY DEF StatusCurrent, FlagsCurrent, ServesPending, Serving, Reports, Settled, InLoop
<1>4. TaskCurrent'
  <2>1. Fetching => reg = AddrReg(cur.port) /\ cur.port \in Ports /\ wdata = Filler
    BY DEF TaskCurrent
  <2>2. Replying => wst.rnw \in BOOLEAN /\ (wst.rnw \/ wdata = Filler \/ pc = "strobe")
    BY DEF TaskCurrent, Replying, Status
  <2>3. Fetching' => reg' = AddrReg(cur.port)' /\ wdata' = Filler
    BY <1>0, <2>1 DEF Fetching, AddrReg
  <2>4. Fetching' => waddr' = addr'[cur'.port]
    BY <1>0, <2>1 DEF Fetching, AddrReg, Ports
  <2>5. Replying' => waddr' = addr'[cur'.port]
    BY <1>0 DEF Replying, TaskCurrent
  <2>6. (Replying /\ wst.rnw)' => wdata' = file'[cur'.port][waddr']
    BY <1>0, <2>2 DEF Replying, TaskCurrent
  <2>7. Replying' => IF wst'.rnw THEN waitReg' = wdata'
                     ELSE waitReg' = Filler /\ wdata' = waitWrite'
    BY <1>0, <2>2 DEF Replying
  <2> QED
    BY <2>3, <2>4, <2>5, <2>6, <2>7 DEF TaskCurrent, Fetching, Replying
<1> QED
  BY <1>1, <1>2, <1>3, <1>4

LEMMA TaskStrobeInv == ASSUME WInv, TaskStrobe PROVE WInv'
<1> USE DEF WInv, TypeOK, TaskStrobe, Waited, portVars, flagVars
<1>0. regnum # "wait" /\ Rise("none")
  BY DEF RegnumMatches, OuterRegs
<1>r. /\ waits' = waits /\ z80' = z80 /\ got' = got /\ cur' = cur
      /\ regnum' = "none" /\ strobe' = strobe /\ early' = (early \/ strobe)
      /\ early' \in BOOLEAN
      /\ shiftOut' \in Status /\ shiftOut'.dev = waits
      /\ waits # {} => z80 = "wait" /\ (~strobe => shiftOut'.rnw = cur.rnw)
  BY <1>0, RiseQuiet
<1>s. /\ status.dev # {} => Reports(status) /\ (status.rnw # cur.rnw => ~fresh) /\ ~intf /\ ~strobe
      /\ pc' \in {"pass", "wt"}
      /\ pc' = "wt" => status.dev # {} /\ wst' = status
      /\ NoWait \in Status /\ wst' \in Status /\ NoWait.dev = {}
  BY DEF StatusCurrent, InLoop, NoWait, Status
<1>1. TypeOK'
  BY <1>r, <1>s DEF MainPcs
<1>2. InLoop' /\ OneWait' /\ RegnumMatches'
  BY <1>r, <1>s DEF InLoop, OneWait, RegnumMatches, MainPcs
<1>3. StatusCurrent'
  BY <1>r, <1>s DEF StatusCurrent, Reports
<1>4. FlagsCurrent' /\ ServesPending'
  BY <1>r, <1>s DEF FlagsCurrent, ServesPending, Serving, Reports
<1>5. TaskCurrent'
  BY <1>r, <1>s DEF TaskCurrent, Fetching, Replying
<1> QED
  BY <1>1, <1>2, <1>3, <1>4, <1>5

LEMMA StbAddrInv == ASSUME WInv, StbAddr PROVE WInv'
<1> USE DEF WInv, TypeOK, StbAddr, zVars, strobeVars, portVars, flagVars, taskVars
<1>1. TypeOK'
  <2>1. budget' \in 0..Budget
    BY WaitPortAssumption DEF WaitPortAssumption
  <2>2. fresh' \in BOOLEAN
    BY Zenon
  <2> QED BY <2>1, <2>2 DEF MainPcs
<1>2. InLoop' /\ OneWait' /\ RegnumMatches'
  BY DEF InLoop, OneWait, RegnumMatches, MainPcs
<1>3. StatusCurrent'
  BY DEF StatusCurrent, Reports, Settled, InLoop
<1>4. FlagsCurrent' /\ ServesPending'
  BY DEF FlagsCurrent, ServesPending, Serving
<1>5. TaskCurrent'
  BY DEF TaskCurrent, Fetching, Replying
<1> QED
  BY <1>1, <1>2, <1>3, <1>4, <1>5

LEMMA StbRiseInv == ASSUME WInv, StbRise PROVE WInv'
<1> USE DEF WInv, TypeOK, StbRise, Waited, portVars, flagVars
<1>0. regnum # "wait" /\ Rise("none")
  BY DEF RegnumMatches
<1>r. /\ waits' = waits /\ z80' = z80 /\ got' = got /\ cur' = cur
      /\ regnum' = "none" /\ strobe' = strobe /\ early' = (early \/ strobe)
      /\ early' \in BOOLEAN
      /\ shiftOut' \in Status /\ shiftOut'.dev = waits
      /\ waits # {} => z80 = "wait" /\ (~strobe => shiftOut'.rnw = cur.rnw)
  BY <1>0, RiseQuiet
<1>s. /\ status.dev # {} => Reports(status) /\ (status.rnw # cur.rnw => ~fresh) /\ ~intf /\ ~strobe
      /\ pc' \in {"pass", "wt"}
      /\ pc' = "wt" => status.dev # {} /\ wst' = status
      /\ NoWait \in Status /\ wst' \in Status /\ NoWait.dev = {}
  BY DEF StatusCurrent, InLoop, NoWait, Status
<1>1. TypeOK'
  BY <1>r, <1>s DEF MainPcs
<1>2. InLoop' /\ OneWait' /\ RegnumMatches'
  BY <1>r, <1>s DEF InLoop, OneWait, RegnumMatches, MainPcs
<1>3. StatusCurrent'
  BY <1>r, <1>s DEF StatusCurrent, Reports
<1>4. FlagsCurrent' /\ ServesPending'
  BY <1>r, <1>s DEF FlagsCurrent, ServesPending, Serving, Reports
<1>5. TaskCurrent'
  BY <1>r, <1>s DEF TaskCurrent, Fetching, Replying
<1> QED
  BY <1>1, <1>2, <1>3, <1>4, <1>5

LEMMA PollInv == ASSUME WInv, Poll PROVE WInv'
<1> USE DEF WInv, TypeOK, Poll, portVars, flagVars
<1>b. budget' \in 0..Budget
  BY WaitPortAssumption DEF WaitPortAssumption
<1>1. CASE ~flag
  <2> USE <1>1 DEF zVars, slaveVars, strobeVars
  <2>1. TypeOK'
    BY <1>b
  <2>2. InLoop' /\ OneWait' /\ RegnumMatches'
    BY DEF InLoop, OneWait, RegnumMatches
  <2>3. StatusCurrent' /\ FlagsCurrent' /\ ServesPending'
    BY DEF StatusCurrent, FlagsCurrent, ServesPending, Serving, Reports
  <2>4. TaskCurrent'
    BY DEF TaskCurrent, Fetching, Replying
  <2> QED
    BY <2>1, <2>2, <2>3, <2>4
<1>2. CASE flag
  <2> USE <1>2
  <2>0. regnum = "none" /\ Rise("none")
    BY DEF RegnumMatches
  <2>r. /\ waits' = waits /\ z80' = z80 /\ got' = got /\ cur' = cur
        /\ regnum' = "none" /\ strobe' = strobe /\ early' = (early \/ strobe)
        /\ early' \in BOOLEAN
        /\ shiftOut' \in Status /\ shiftOut'.dev = waits
        /\ waits # {} => z80 = "wait" /\ (~strobe => shiftOut'.rnw = cur.rnw)
    BY <2>0, RiseQuiet
  <2>s. /\ z80 = "wait" /\ ~strobe /\ waits # {} /\ ~intf
        /\ wst'.dev = waits /\ wst'.rnw = cur.rnw
    BY <2>r DEF FlagsCurrent, OneWait, Settled, InLoop
  <2>1. TypeOK'
    <3>1. fresh' \in BOOLEAN
      OBVIOUS
    <3> QED BY <1>b, <2>r, <3>1 DEF MainPcs
  <2>2. InLoop' /\ OneWait' /\ RegnumMatches'
    BY <2>r DEF InLoop, OneWait, RegnumMatches, MainPcs
  <2>3. StatusCurrent'
    BY <2>r DEF StatusCurrent, Reports, NoWait
  <2>4. FlagsCurrent' /\ ServesPending'
    BY <2>r, <2>s DEF FlagsCurrent, ServesPending, Serving, Reports
  <2>5. TaskCurrent'
    BY <2>r DEF TaskCurrent, Fetching, Replying
  <2> QED
    BY <2>1, <2>2, <2>3, <2>4, <2>5
<1> QED
  BY <1>1, <1>2

LEMMA WaitTaskInv == ASSUME WInv, WaitTask PROVE WInv'
<1> USE DEF WInv, TypeOK, WaitTask, ClearFlag, zVars, slaveVars, strobeVars, portVars
<1>0. /\ z80 = "wait" /\ ~strobe /\ waits = {cur.port} /\ cur.port \in Ports
      /\ wst.dev = {cur.port} /\ ~intf
  BY DEF ServesPending, Serving, Reports, OneWait, FlagsCurrent
<1>g. reg' = AddrReg(cur.port) /\ reg' \in {"gluadr", "comadr"}
  BY <1>0 DEF Served, AddrReg, Ports
<1>1. TypeOK'
  <2>1. flag' \in BOOLEAN
    BY Zenon
  <2>2. wdata' \in Values
    BY WaitPortAssumption DEF WaitPortAssumption
  <2> QED
    BY <1>g, <2>1, <2>2 DEF MainPcs
<1>2. InLoop' /\ OneWait' /\ RegnumMatches'
  BY <1>g DEF InLoop, OneWait, RegnumMatches, MainPcs
<1>3. StatusCurrent' /\ FlagsCurrent' /\ ServesPending'
  BY <1>0, <1>g DEF StatusCurrent, FlagsCurrent, ServesPending, Serving, Reports
<1>4. TaskCurrent'
  BY <1>g DEF TaskCurrent, Fetching, Replying
<1> QED
  BY <1>1, <1>2, <1>3, <1>4

LEMMA FetchStrobeInv == ASSUME WInv, FetchStrobe PROVE WInv'
<1> USE DEF WInv, TypeOK, FetchStrobe, portVars, flagVars
<1>0. regnum # "wait" /\ Rise("none")
  BY DEF RegnumMatches
<1>r. /\ waits' = waits /\ z80' = z80 /\ got' = got /\ cur' = cur
      /\ regnum' = "none" /\ strobe' = strobe /\ early' = (early \/ strobe)
      /\ early' \in BOOLEAN
      /\ shiftOut' \in Status /\ shiftOut'.dev = waits
      /\ waits # {} => z80 = "wait" /\ (~strobe => shiftOut'.rnw = cur.rnw)
  BY <1>0, RiseQuiet
<1>s. /\ z80 = "wait" /\ ~strobe /\ waits = {cur.port} /\ cur.port \in Ports
      /\ wst.rnw \in BOOLEAN /\ wst.dev = {cur.port} /\ ~intf /\ ~flag
      /\ wst.rnw # cur.rnw => early /\ ~fresh
  BY DEF ServesPending, Serving, Reports, OneWait, FlagsCurrent, OuterRegs, Status
<1>a. waddr = addr[cur.port] /\ wdata = Filler
  BY DEF TaskCurrent, Fetching
<1>d. wdata' = IF wst.rnw THEN file[cur.port][waddr] ELSE wdata
  BY <1>s DEF Served
<1>1. TypeOK'
  <2>1. file[cur.port][waddr] \in Values
    BY <1>s
  <2>2. wdata' \in Values
    BY <1>d, <2>1
  <2>3. pc' = "addr" /\ reg' = "wait" /\ wst' = wst
    OBVIOUS
  <2> QED BY <1>r, <2>2, <2>3 DEF MainPcs
<1>2. InLoop' /\ OneWait' /\ RegnumMatches'
  BY <1>r DEF InLoop, OneWait, RegnumMatches, MainPcs
<1>3. StatusCurrent'
  BY <1>r DEF StatusCurrent, Reports, OuterRegs
<1>4. FlagsCurrent' /\ ServesPending'
  BY <1>r, <1>s DEF FlagsCurrent, ServesPending, Serving, Reports, OneWait
<1>5. TaskCurrent'
  BY <1>r, <1>a, <1>d DEF TaskCurrent, Fetching, Replying
<1> QED
  BY <1>1, <1>2, <1>3, <1>4, <1>5

\* What the rise at the end of the $40 exchange does: the access it ends is
\* the one the wait task was called for, and it ends it in the direction the
\* task was given.
LEMMA ReplyStrobeEffect ==
  ASSUME WInv, ReplyStrobe
  PROVE  /\ z80 = "wait" /\ z80' = "run" /\ waits' = {} /\ regnum' = "none"
         /\ cur' = cur /\ cur.port \in Ports /\ cur.rnw \in BOOLEAN
         /\ ~strobe /\ strobe' = strobe /\ early' = early
         /\ shiftOut' \in Status /\ shiftOut'.dev = {}
         /\ ~intf /\ ~flag /\ ~tmp /\ status = NoWait
         /\ wst.dev = {cur.port} /\ wst.rnw \in BOOLEAN
         /\ wst.rnw # cur.rnw => early /\ ~fresh
         /\ waddr = addr[cur.port]
         /\ got' = IF ~cur.rnw THEN got
                   ELSE IF wst.rnw THEN file[cur.port][waddr] ELSE Filler
         /\ IF wst.rnw THEN pc' = "pass" /\ TaskReturns
            ELSE wdata = waitWrite /\ pc' = "put" /\ UNCHANGED <<reg, wst, wdata>>
<1> USE DEF WInv, TypeOK, ReplyStrobe
<1>0. WaitEnd /\ ~GenRst /\ Rise("none")
  BY DEF RegnumMatches, WaitEnd, GenRst
<1>s. /\ z80 = "wait" /\ ~strobe /\ waits = {cur.port} /\ cur.port \in Ports
      /\ wst.dev = {cur.port} /\ wst.rnw \in BOOLEAN /\ cur.rnw \in BOOLEAN
      /\ wst.rnw # cur.rnw => early /\ ~fresh
      /\ ~intf /\ ~flag /\ ~tmp
  BY DEF ServesPending, Serving, OneWait, FlagsCurrent, OuterRegs, Status
<1>t. /\ waddr = addr[cur.port]
      /\ wst.rnw => waitReg = file[cur.port][waddr]
      /\ ~wst.rnw => waitReg = Filler /\ wdata = waitWrite
  BY DEF TaskCurrent, Replying
<1>1. /\ waits' = {} /\ z80' = "run" /\ cur' = cur /\ regnum' = "none"
      /\ shiftOut' \in Status /\ shiftOut'.dev = {}
      /\ got' = IF cur.rnw THEN waitReg ELSE got
  BY <1>0, <1>s DEF Rise, Status, Direction
<1>e. strobe' = strobe /\ early' = early
  <2>1. early' = (early \/ strobe) /\ strobe' = strobe
    BY <1>0 DEF Rise
  <2> QED BY <1>s, <2>1, Zenon
<1>2. status = NoWait
  BY DEF StatusCurrent, OuterRegs
<1>3. IF wst.rnw THEN pc' = "pass" /\ TaskReturns
      ELSE pc' = "put" /\ UNCHANGED <<reg, wst, wdata>>
  BY <1>s DEF Served, InLoop
<1> QED
  BY <1>s, <1>t, <1>1, <1>e, <1>2, <1>3

LEMMA ReplyStrobeInv == ASSUME WInv, ReplyStrobe PROVE WInv'
<1>0. ReplyStrobe
  OBVIOUS
<1> USE DEF WInv, TypeOK, portVars, flagVars
<1>r. /\ z80' = "run" /\ waits' = {} /\ regnum' = "none" /\ cur' = cur
      /\ cur.port \in Ports /\ shiftOut' \in Status /\ shiftOut'.dev = {}
      /\ ~intf /\ ~flag /\ ~tmp /\ status = NoWait /\ NoWait.dev = {}
      /\ wst.dev = {cur.port} /\ waddr = addr[cur.port]
      /\ strobe' = strobe /\ early' = early /\ ~strobe
      /\ got' \in Values
  <2>1. file[cur.port][waddr] \in Values /\ Filler \in Values
    BY ReplyStrobeEffect, WaitPortAssumption DEF WaitPortAssumption
  <2> QED BY <2>1, ReplyStrobeEffect DEF NoWait
<1>u. /\ UNCHANGED <<addr, waitWrite, waitReg, gie, intf, flag, tmp, after, budget,
                     status, waddr, file, fresh>>
  BY <1>0 DEF ReplyStrobe
<1>p. \/ /\ pc' = "pass"
         /\ wst' = NoWait /\ wdata' = Filler /\ reg' = "task"
      \/ /\ ~wst.rnw /\ pc' = "put"
         /\ UNCHANGED <<reg, wst, wdata>> /\ reg = "wait"
  BY <1>0, ReplyStrobeEffect DEF TaskReturns, ReplyStrobe
<1>1. TypeOK'
  <2>1. NoWait \in Status /\ Filler \in Values
    BY WaitPortAssumption DEF NoWait, Status, WaitPortAssumption
  <2> QED BY <1>r, <1>u, <1>p, <2>1 DEF MainPcs, OuterRegs
<1>2. InLoop' /\ OneWait' /\ RegnumMatches'
  BY <1>r, <1>u, <1>p DEF InLoop, OneWait, RegnumMatches, MainPcs
<1>3. StatusCurrent' /\ FlagsCurrent' /\ ServesPending'
  BY <1>r, <1>u, <1>p DEF StatusCurrent, FlagsCurrent, ServesPending, Serving
<1>4. TaskCurrent'
  BY <1>r, <1>u, <1>p DEF TaskCurrent, Fetching, Replying, Served
<1> QED
  BY <1>1, <1>2, <1>3, <1>4

LEMMA PutInv == ASSUME WInv, Put PROVE WInv'
<1> USE DEF WInv, TypeOK, Put, SetReg, TaskReturns, zVars, slaveVars, strobeVars, portVars, flagVars
<1>0. pc' = "pass" /\ NoWait \in Status /\ Filler \in Values
  BY WaitPortAssumption DEF InLoop, NoWait, Status, WaitPortAssumption
<1>1. TypeOK'
  BY <1>0 DEF MainPcs, OuterRegs, Ports
<1>2. InLoop' /\ OneWait' /\ RegnumMatches'
  BY <1>0 DEF InLoop, OneWait, RegnumMatches, MainPcs
<1>3. StatusCurrent' /\ FlagsCurrent' /\ ServesPending'
  BY <1>0 DEF StatusCurrent, FlagsCurrent, ServesPending, Serving, Reports
<1>4. TaskCurrent'
  BY <1>0 DEF TaskCurrent, Fetching, Replying
<1> QED
  BY <1>1, <1>2, <1>3, <1>4

LEMMA StutterInv == ASSUME WInv, UNCHANGED vars PROVE WInv'
BY DEF vars, WInv, TypeOK, InLoop, OneWait, RegnumMatches, StatusCurrent, Reports,
       FlagsCurrent, ServesPending, Serving, TaskCurrent, Fetching, Replying, Served

LEMMA NextInv == ASSUME NoReset, WInv, [Next]_vars PROVE WInv'
<1>1. ASSUME NEW a \in Addrs, SelectGluk(a) PROVE WInv'
  BY <1>1, SelectInv
<1>2. ASSUME NEW p \in Ports, NEW rnw \in BOOLEAN, Access(p, rnw) PROVE WInv'
  BY <1>2, AccessInv
<1>3. ~Z80Start /\ ~Boot
  BY DEF WInv, InLoop, Z80Start, Boot, BootSend, Sei, MainPcs
<1>4. ASSUME NEW r \in TaskRegs, Send(r) PROVE WInv'
  BY <1>4, SendInv
<1> QED
  BY <1>1, <1>2, <1>3, <1>4, LatchPortsInv, SpiIntInv, RmwLoadInv, RmwStoreInv, SendAddrInv,
     SendDataInv, TaskStrobeInv, StbAddrInv, StbRiseInv, PollInv, WaitTaskInv,
     FetchStrobeInv, ReplyStrobeInv, PutInv, StutterInv
     DEF Next, Z80, Main

\* Every state of the main loop satisfies the inductive invariant, so every
\* step of zx_wait_task works for the access that holds the Z80, in its direction
\* unless CS rose within its strobe.
THEOREM Invariant == ASSUME NoReset PROVE Spec => []WInv
<1>1. Init => WInv
  BY InitInv
<1>2. WInv /\ [Next]_vars => WInv'
  BY NextInv
<1> QED
  BY <1>1, <1>2, PTL DEF Spec

\* The variables stay in their ranges while the main loop runs.
THEOREM TypeCorrect == ASSUME NoReset PROVE Spec => []TypeOK
<1>1. WInv => TypeOK
  BY DEF WInv
<1> QED
  BY <1>1, Invariant, PTL

\* Every wait task runs for the access that holds the Z80, and has its direction
\* unless CS rose within the strobe of that access.
THEOREM AlwaysServesPending == ASSUME NoReset PROVE Spec => []ServesPending
<1>1. WInv => ServesPending
  BY DEF WInv
<1> QED
  BY <1>1, Invariant, PTL

-----------------------------------------------------------------------------
(* The wait ports implement memory. *)

\* Every step but the end of the $40 exchange leaves a waiting Z80 waiting.
LEMMA ReleaseIsReply ==
  ASSUME NoReset, WInv, Next, z80 = "wait", z80' # "wait"
  PROVE  ReplyStrobe
<1> USE DEF zVars, slaveVars
<1>1. ~Z80 /\ ~LatchPorts /\ ~SpiInt /\ ~RmwLoad /\ ~RmwStore /\ ~SendData /\ ~StbAddr
      /\ ~WaitTask /\ ~Put /\ ~Boot /\ \A r \in TaskRegs : ~Send(r)
  BY DEF Z80, SelectGluk, Access, Z80Start, LatchPorts, SpiInt, RmwLoad, RmwStore,
         SendData, StbAddr, WaitTask, Put, Boot, BootSend, Sei, Send
<1>2. /\ WInv /\ regnum # "wait" => ~Rise("none") /\ ~Rise(reg)
  BY RiseQuiet
<1>3. ~SendAddr /\ ~TaskStrobe /\ ~StbRise /\ ~FetchStrobe
  BY <1>2 DEF WInv, RegnumMatches, SendAddr, TaskStrobe, StbRise, FetchStrobe, OuterRegs
<1>4. ~Poll
  BY <1>2 DEF WInv, RegnumMatches, Poll
<1> QED
  BY <1>1, <1>3, <1>4 DEF Next, Main

\* A wait ends only when the access has been answered: the byte of an IN is the
\* cell's, the byte of an OUT is on its way to the cell.  Only an access within
\* whose strobe CS rose can end as one of the other direction.
THEOREM ReleaseAnswered == ASSUME NoReset PROVE Spec => ReleasedOnlyAnswered
<1>1. ASSUME WInv, [Next]_vars, z80 = "wait", z80' = "run"
      PROVE  Answered \/ (early /\ ~fresh /\ Turned)
  <2>1. ReplyStrobe
    BY <1>1, ReleaseIsReply DEF vars
  <2>2. file' = file
    BY <2>1 DEF ReplyStrobe
  <2>3. CASE wst.rnw = cur.rnw
    BY <1>1, <2>1, <2>3, ReplyStrobeEffect DEF Answered, Served
  <2>4. CASE wst.rnw # cur.rnw
    BY <1>1, <2>1, <2>2, <2>4, ReplyStrobeEffect DEF Turned, Served
  <2> QED
    BY <2>3, <2>4
<1>2. WInv /\ [Next]_vars =>
        [z80 = "wait" /\ z80' = "run" => Answered \/ (early /\ ~fresh /\ Turned)]_vars
  BY <1>1
<1> QED
  BY <1>2, Invariant, PTL DEF Spec, ReleasedOnlyAnswered

\* The cells the Z80 sees do not change while no byte changes hands.
LEMMA CellsSame ==
  ASSUME file' = file, \/ pc # "put" /\ pc' # "put"
                       \/ pc' = pc /\ UNCHANGED <<wst, waddr, wdata>>
  PROVE  Cells' = Cells
BY DEF Cells, Served

\* The write that the device executes is already visible to the Z80.
LEMMA CellsPut == ASSUME WInv, Put PROVE Cells' = Cells
<1>1. pc' # "put"
  BY DEF WInv, InLoop, Put
<1>2. PICK p \in Ports : Served(wst, p) /\ file' = [file EXCEPT ![p][waddr] = wdata]
  BY DEF Put, SetReg
<1>3. Cells' = file'
  BY <1>1 DEF Cells
<1>4. file \in [Ports -> [Addrs -> Values]]
  BY DEF WInv, TypeOK
<1>5. file' = [q \in Ports |-> IF q = p THEN [file[p] EXCEPT ![waddr] = wdata]
                                       ELSE file[q]]
  BY <1>2, <1>4
<1>6. Cells = [q \in Ports |-> IF Served(wst, q) THEN [file[q] EXCEPT ![waddr] = wdata]
                                                 ELSE file[q]]
  BY DEF Cells, Put
<1>7. \A q \in Ports : Served(wst, q) <=> q = p
  BY <1>2 DEF Served
<1> QED
  BY <1>3, <1>5, <1>6, <1>7

\* The byte of an OUT is in its cell once the $40 exchange is over.
LEMMA CellsReply ==
  ASSUME WInv, ReplyStrobe
  PROVE  Cells' = IF wst.rnw THEN Cells
                  ELSE [Cells EXCEPT ![cur.port][addr[cur.port]] = waitWrite]
<1>1. pc = "strobe" /\ file' = file /\ waddr' = waddr /\ Cells = file
  BY DEF ReplyStrobe, Cells
<1>2. CASE wst.rnw
  BY <1>1, <1>2, ReplyStrobeEffect DEF Cells
<1>3. CASE ~wst.rnw
  <2>1. /\ pc' = "put" /\ wst' = wst /\ wdata' = waitWrite
        /\ waddr = addr[cur.port] /\ wst.dev = {cur.port} /\ cur.port \in Ports
    BY <1>3, ReplyStrobeEffect
  <2>2. file \in [Ports -> [Addrs -> Values]]
    BY DEF WInv, TypeOK
  <2>3. \A q \in Ports : Served(wst', q) <=> q = cur.port
    BY <2>1 DEF Served
  <2>4. Cells' = [q \in Ports |-> IF q = cur.port
                                  THEN [file[q] EXCEPT ![waddr] = waitWrite]
                                  ELSE file[q]]
    <3>1. Cells' = [q \in Ports |-> IF Served(wst', q)
                                    THEN [file[q] EXCEPT ![waddr] = waitWrite]
                                    ELSE file[q]]
      BY <1>1, <2>1 DEF Cells, Served
    <3> QED BY <3>1, <2>3
  <2> QED
    BY <1>1, <1>3, <2>1, <2>2, <2>4
<1> QED
  BY <1>2, <1>3

LEMMA MemoryInit == ASSUME Init PROVE Memory!Init
BY WaitPortAssumption
   DEF Init, Start, Memory!Init, Cells, Z80State, Ports, WaitPortAssumption

\* What the first clock of an access comes to.
LEMMA MemoryLatch == ASSUME WInv, LatchPorts PROVE Memory!Latch
<1>1. Cells' = Cells
  BY CellsSame DEF LatchPorts, taskVars
<1>2. IF cur.port \in {"gluk"} THEN UNCHANGED addr
      ELSE \E a \in Addrs : addr' = [addr EXCEPT ![cur.port] = a]
  <2>1. cur.port \in {"gluk", "com"}
    BY DEF WInv, TypeOK, Ports
  <2> QED BY <2>1 DEF LatchPorts
<1>3. Z80State = "ask" /\ Z80State' = "wait"
  BY DEF WInv, InLoop, LatchPorts, Z80State, zVars
<1>4. UNCHANGED <<cur, early, got>>
  BY DEF LatchPorts, zVars
<1>5. IF cur.rnw THEN UNCHANGED waitWrite ELSE waitWrite' \in Values
  BY DEF LatchPorts
<1> QED
  BY <1>1, <1>2, <1>3, <1>4, <1>5 DEF Memory!Latch

\* A rise that ends no wait is a look of the AVR when it meets the strobe.
LEMMA MemoryRise ==
  ASSUME WInv, NEW next, Rise(next), regnum # "wait", UNCHANGED portVars,
         file' = file, pc # "put", pc' # "put"
  PROVE  Memory!Look \/ UNCHANGED Memory!vars
<1>1. /\ UNCHANGED zVars /\ strobe' = strobe /\ early' = (early \/ strobe)
  BY RiseQuiet DEF zVars
<1>2. Cells' = Cells /\ Z80State' = Z80State /\ UNCHANGED <<cur, got, addr, waitWrite>>
  BY <1>1, CellsSame DEF Z80State, zVars, portVars
<1>3. CASE strobe
  <2>1. z80 = "wait" /\ Z80State = "ask"
    BY <1>3 DEF WInv, InLoop, Z80State
  <2>2. early' = TRUE
    BY <1>1, <1>3, Zenon
  <2> QED
    BY <1>2, <2>1, <2>2 DEF Memory!Look
<1>4. CASE ~strobe
  <2>1. early \in BOOLEAN
    BY DEF WInv, TypeOK
  <2>2. early' = early
    BY <1>1, <1>4, <2>1, Zenon
  <2> QED
    BY <1>2, <2>2 DEF Memory!vars
<1> QED
  BY <1>3, <1>4

\* The end of a wait is the end of the access, in one direction or the other.
LEMMA MemoryReply == ASSUME WInv, ReplyStrobe PROVE Memory!Answer \/ Memory!Turn
<1>1. /\ Z80State = "wait" /\ Z80State' = "run"
      /\ UNCHANGED <<cur, addr, waitWrite, early>>
  BY ReplyStrobeEffect DEF ReplyStrobe, Z80State, portVars
<1>2. /\ Cells = file /\ waddr = addr[cur.port]
      /\ cur.rnw \in BOOLEAN /\ wst.rnw \in BOOLEAN
      /\ wst.rnw # cur.rnw => early
      /\ got' = IF ~cur.rnw THEN got
                ELSE IF wst.rnw THEN file[cur.port][waddr] ELSE Filler
  BY ReplyStrobeEffect DEF ReplyStrobe, Cells
<1>3. Cells' = IF wst.rnw THEN Cells
               ELSE [Cells EXCEPT ![cur.port][addr[cur.port]] = waitWrite]
  BY CellsReply
<1>4. CASE wst.rnw = cur.rnw
  BY <1>1, <1>2, <1>3, <1>4 DEF Memory!Answer, Memory!Written
<1>5. CASE wst.rnw # cur.rnw
  BY <1>1, <1>2, <1>3, <1>5 DEF Memory!Turn, Memory!Written
<1> QED
  BY <1>4, <1>5

LEMMA MemoryStep ==
  ASSUME NoReset, WInv, [Next]_vars
  PROVE  [Memory!Next]_(Memory!vars)
<1> USE DEF zVars, slaveVars, strobeVars, portVars, flagVars, taskVars
<1>1. ASSUME NEW a \in Addrs, SelectGluk(a) PROVE Memory!Next
  <2>1. Cells' = Cells /\ Z80State = "run" /\ Z80State' = "run"
    BY <1>1, CellsSame DEF SelectGluk, Z80State
  <2>2. Memory!Select("gluk", a)
    BY <1>1, <2>1 DEF SelectGluk, Memory!Select
  <2> QED
    BY <2>2 DEF Memory!Next, Ports
<1>2. ASSUME NEW p \in Ports, NEW rnw \in BOOLEAN, Access(p, rnw) PROVE Memory!Next
  <2>1. Cells' = Cells /\ Z80State = "run" /\ Z80State' = "ask"
    BY <1>2, CellsSame DEF Access, Z80State
  <2>2. Memory!Ask(p, rnw)
    BY <1>2, <2>1 DEF Access, Memory!Ask
  <2> QED
    BY <2>2 DEF Memory!Next
<1>3. ASSUME ReplyStrobe PROVE Memory!Next
  BY <1>3, MemoryReply DEF Memory!Next
<1>4. ASSUME LatchPorts PROVE Memory!Next
  BY <1>4, MemoryLatch DEF Memory!Next
<1>5. ASSUME SendAddr \/ TaskStrobe \/ StbRise \/ FetchStrobe
      PROVE  Memory!Next \/ UNCHANGED Memory!vars
  <2>1. regnum # "wait"
    BY <1>5 DEF WInv, RegnumMatches, SendAddr, TaskStrobe, StbRise, FetchStrobe, OuterRegs
  <2>2. UNCHANGED portVars /\ pc # "put" /\ pc' # "put" /\ file' = file
    BY <1>5 DEF WInv, InLoop, SendAddr, TaskStrobe, StbRise, FetchStrobe
  <2>3. Rise("none") \/ Rise(reg)
    BY <1>5 DEF SendAddr, TaskStrobe, StbRise, FetchStrobe
  <2> QED
    BY <2>1, <2>2, <2>3, MemoryRise DEF Memory!Next
<1>6. ASSUME Poll PROVE Memory!Next \/ UNCHANGED Memory!vars
  <2>1. regnum # "wait" /\ UNCHANGED portVars /\ pc # "put" /\ pc' # "put" /\ file' = file
    BY <1>6 DEF WInv, RegnumMatches, Poll
  <2>2. CASE flag
    BY <1>6, <2>1, <2>2, MemoryRise DEF Poll, Memory!Next
  <2>3. CASE ~flag
    BY <1>6, <2>1, <2>3, CellsSame DEF Poll, Memory!vars, Z80State
  <2> QED
    BY <2>2, <2>3
<1>7. ASSUME RmwLoad \/ RmwStore \/ SendData \/ StbAddr \/ WaitTask
      PROVE  UNCHANGED Memory!vars
  <2>1. pc # "put" /\ pc' # "put" /\ file' = file
    BY <1>7 DEF RmwLoad, RmwStore, SendData, StbAddr, WaitTask
  <2>2. UNCHANGED zVars /\ UNCHANGED portVars /\ UNCHANGED strobeVars
    BY <1>7 DEF RmwLoad, RmwStore, SendData, StbAddr, WaitTask
  <2> QED
    BY <2>1, <2>2, CellsSame DEF Memory!vars, Z80State
<1>8. ASSUME SpiInt PROVE UNCHANGED Memory!vars
  BY <1>8, CellsSame DEF SpiInt, Memory!vars, Z80State
<1>9. ASSUME NEW r \in TaskRegs, Send(r) PROVE UNCHANGED Memory!vars
  BY <1>9, CellsSame DEF Send, Memory!vars, Z80State
<1>10. ASSUME Put PROVE UNCHANGED Memory!vars
  BY <1>10, CellsPut DEF Put, Memory!vars, Z80State
<1>11. ~Z80Start /\ ~Boot
  BY DEF WInv, InLoop, Z80Start, Boot, BootSend, Sei, MainPcs
<1>12. ASSUME UNCHANGED vars PROVE UNCHANGED Memory!vars
  BY <1>12, CellsSame DEF vars, Memory!vars, Z80State
<1> QED
  BY <1>1, <1>2, <1>3, <1>4, <1>5, <1>6, <1>7, <1>8, <1>9, <1>10, <1>11, <1>12
     DEF Next, Z80, Main

\* The wait ports implement memory: a read gives what was last written, whatever
\* the tasks, the interrupt and the SPI bus do in between, although the device
\* executes a write only after the Z80 has gone on; only an access within whose
\* strobe CS rose may be done in the other direction.
THEOREM ImplementsMemory == ASSUME NoReset PROVE Spec => PortsAreMemory
<1>1. Init => Memory!Init
  BY MemoryInit
<1>2. WInv /\ [Next]_vars => [Memory!Next]_(Memory!vars)
  BY MemoryStep
<1> QED
  BY <1>1, <1>2, Invariant, PTL DEF Spec, PortsAreMemory, Memory!Spec

-----------------------------------------------------------------------------
(* Start-up and soft resets *)

\* A wait task, or the status for it, belongs to the access in progress and was
\* latched behind its strobe.
Attended == fresh /\ z80 = "wait"

\* A status that reports a wait reports the access in progress: a reset clears it
\* with the wait, and no exchange of a task lasts longer than the wait.  Its
\* direction is that of the access, unless CS rose within the strobe.
StatusLatched ==
  /\ fresh => ~strobe
  /\ shiftOut.dev # {} => Reports(shiftOut) /\ (strobe => early)
  /\ status.dev # {} => Reports(status) /\ (fresh => status.rnw = cur.rnw)
  /\ status # NoWait => pc = "stb" \/ (pc \in {"data", "strobe"} /\ reg \in OuterRegs)

\* What TaskCurrent says, of an attended access only.
TaskAttends ==
  Attended =>
    /\ Serving => wst.dev = waits /\ wst.rnw = cur.rnw
    /\ Fetching => reg = AddrReg(cur.port)
    /\ Fetching /\ pc = "strobe" => waddr = addr[cur.port]
    /\ Replying => waddr = addr[cur.port]
    /\ Replying /\ cur.rnw => wdata = file[cur.port][waddr]
    /\ Replying /\ pc = "strobe" =>
         IF cur.rnw THEN waitReg = wdata ELSE wdata = waitWrite

\* What is left of WInv when the AVR starts up or resets the Z80.
BInv ==
  /\ TypeOK /\ (pc = "rmw" => budget > 0)
  /\ OneWait /\ RegnumMatches /\ StatusLatched /\ TaskAttends


LEMMA StartBoot ==
  ASSUME NEW there \in {"pass", "boot0"}, NEW enabled \in BOOLEAN, Start(there, enabled)
  PROVE  BInv
<1> USE DEF Start, Ports, NoWait, Status
<1>1. TypeOK
  <2>1. gie \in BOOLEAN /\ intf \in BOOLEAN /\ flag \in BOOLEAN /\ tmp \in BOOLEAN
        /\ strobe \in BOOLEAN /\ early \in BOOLEAN /\ fresh \in BOOLEAN
    BY Zenon
  <2>2. budget \in 0..Budget /\ got \in Values /\ waitWrite \in Values
        /\ waitReg \in Values /\ wdata \in Values
    BY WaitPortAssumption DEF WaitPortAssumption
  <2> QED
    BY <2>1, <2>2 DEF TypeOK, MainPcs, BootPcs, OuterRegs
<1>2. OneWait /\ RegnumMatches /\ StatusLatched /\ TaskAttends /\ pc # "rmw"
  BY DEF OneWait, RegnumMatches, StatusLatched, TaskAttends, Attended
<1> QED
  BY <1>1, <1>2 DEF BInv

\* A rise that does not strobe $40 keeps the status true; $30 ends every wait.
LEMMA RiseBoot ==
  ASSUME BInv, NEW next, Rise(next), regnum # "wait"
  PROVE  /\ cur' = cur /\ got' = got /\ regnum' = next
         /\ strobe' = strobe /\ early' = (early \/ strobe) /\ early' \in BOOLEAN
         /\ IF regnum = "rst" THEN z80' = "reset" /\ waits' = {}
                              ELSE z80' = z80 /\ waits' = waits
         /\ shiftOut' \in Status /\ shiftOut'.dev = waits'
         /\ waits' # {} => /\ z80' = "wait" /\ z80 = "wait" /\ waits' = waits
                           /\ ~strobe => shiftOut'.rnw = cur.rnw
<1> USE DEF BInv
<1>1. /\ cur' = cur /\ got' = got /\ regnum' = next /\ strobe' = strobe
      /\ IF regnum = "rst" THEN z80' = "reset" /\ waits' = {}
                           ELSE z80' = z80 /\ waits' = waits
  BY DEF Rise, WaitEnd, GenRst
<1>e. early' = (early \/ strobe) /\ early' \in BOOLEAN
  BY Zenon DEF Rise
<1>2. PICK rnw \in BOOLEAN : /\ shiftOut' = [dev |-> waits', rnw |-> rnw]
                             /\ z80 = "wait" /\ ~strobe => rnw = cur.rnw
  <2>1. z80 = "wait" => cur.rnw \in BOOLEAN
    BY DEF TypeOK
  <2> QED BY <2>1 DEF Rise, Direction
<1>3. waits' \in SUBSET Ports
  BY <1>1 DEF TypeOK
<1>4. waits' # {} => z80 = "wait" /\ z80' = "wait" /\ waits' = waits
  BY <1>1 DEF OneWait
<1> QED
  BY <1>1, <1>e, <1>2, <1>3, <1>4 DEF Status

LEMMA SelectBoot == ASSUME BInv, NEW a \in Addrs, SelectGluk(a) PROVE BInv'
<1> USE DEF BInv, SelectGluk, zVars, slaveVars, strobeVars, flagVars, taskVars
<1>1. TypeOK'
  BY DEF TypeOK, Ports
<1>2. OneWait' /\ RegnumMatches' /\ StatusLatched' /\ (pc = "rmw" => budget > 0)'
  BY DEF OneWait, RegnumMatches, StatusLatched, Reports
<1>3. TaskAttends'
  BY DEF TaskAttends, Attended
<1> QED
  BY <1>1, <1>2, <1>3

LEMMA AccessBoot ==
  ASSUME BInv, NEW p \in Ports, NEW rnw \in BOOLEAN, Access(p, rnw) PROVE BInv'
<1> USE DEF BInv, Access, portVars, taskVars
<1>1. TypeOK'
  <2>1. intf' \in BOOLEAN /\ strobe' \in BOOLEAN /\ early' \in BOOLEAN /\ fresh' \in BOOLEAN
    BY Zenon
  <2> QED
    BY <2>1 DEF TypeOK, Ports
<1>2. OneWait' /\ RegnumMatches' /\ (pc = "rmw" => budget > 0)'
  BY DEF TypeOK, OneWait, RegnumMatches
<1>3. StatusLatched'
  BY DEF StatusLatched, OneWait, Reports
<1>4. TaskAttends'
  BY DEF TaskAttends, Attended
<1> QED
  BY <1>1, <1>2, <1>3, <1>4

LEMMA LatchPortsBoot == ASSUME BInv, LatchPorts PROVE BInv'
<1> USE DEF BInv, LatchPorts, zVars, slaveVars, flagVars, taskVars
<1>1. TypeOK'
  <2>1. addr' \in [Ports -> Addrs]
    BY DEF TypeOK
  <2>2. strobe' \in BOOLEAN
    BY Zenon
  <2> QED BY <2>1, <2>2 DEF TypeOK
<1>2. OneWait' /\ RegnumMatches' /\ StatusLatched' /\ (pc = "rmw" => budget > 0)'
  BY DEF OneWait, RegnumMatches, StatusLatched, Reports
<1>3. TaskAttends'
  BY DEF TaskAttends, Attended, StatusLatched
<1> QED
  BY <1>1, <1>2, <1>3

LEMMA Z80StartBoot == ASSUME BInv, Z80Start PROVE BInv'
<1> USE DEF BInv, Z80Start, slaveVars, strobeVars, portVars, flagVars, taskVars
<1>1. TypeOK'
  BY DEF TypeOK
<1>2. OneWait' /\ RegnumMatches' /\ StatusLatched' /\ (pc = "rmw" => budget > 0)'
  BY DEF OneWait, RegnumMatches, StatusLatched, Reports
<1>3. TaskAttends'
  BY DEF TaskAttends, Attended
<1> QED
  BY <1>1, <1>2, <1>3

\* The interrupt, and what main does between two exchanges.
LEMMA BetweenBoot ==
  ASSUME BInv, SpiInt \/ RmwLoad \/ RmwStore \/ Boot \/ (\E r \in TaskRegs : Send(r))
  PROVE  BInv'
<1> USE DEF BInv
<1>1. /\ UNCHANGED <<zVars, slaveVars, strobeVars, portVars, waitReg, status, wst, waddr, wdata, file, fresh>>
      /\ \/ pc' = pc /\ reg' = reg /\ budget' = budget
         \/ pc \in {"pass", "rmw"} \cup BootPcs /\ pc' \in {"pass", "rmw"} \cup BootPcs /\ reg' = reg
         \/ pc \in {"pass"} \cup BootPcs /\ pc' = "addr" /\ reg' \in OuterRegs
  BY WaitPortAssumption
     DEF WaitPortAssumption, SpiInt, RmwLoad, RmwStore, Boot, BootSend, Sei, Send,
         taskVars, BootPcs, OuterRegs, zVars, slaveVars, strobeVars, portVars
<1>2. TypeOK' /\ (pc = "rmw" => budget > 0)'
  <2>1. gie' \in BOOLEAN /\ intf' \in BOOLEAN /\ flag' \in BOOLEAN /\ tmp' \in BOOLEAN
    BY Zenon DEF TypeOK, SpiInt, RmwLoad, RmwStore, Boot, BootSend, Sei, Send, flagVars
  <2>2. budget' \in 0..Budget /\ (pc' = "rmw" => budget' > 0)
    BY WaitPortAssumption
       DEF WaitPortAssumption, TypeOK, SpiInt, RmwLoad, RmwStore, Boot, BootSend, Sei, Send
  <2>3. after' \in {"pass"} \cup BootPcs
    BY DEF TypeOK, BootPcs, SpiInt, RmwLoad, RmwStore, Boot, BootSend, Sei, Send
  <2> QED
    BY <1>1, <2>1, <2>2, <2>3 DEF TypeOK, MainPcs, BootPcs, zVars, slaveVars, strobeVars, portVars
<1>3. OneWait' /\ RegnumMatches'
  BY <1>1 DEF OneWait, RegnumMatches, BootPcs, zVars, slaveVars, strobeVars
<1>4. StatusLatched'
  BY <1>1 DEF StatusLatched, Reports, NoWait, BootPcs, zVars, slaveVars, strobeVars
<1>5. TaskAttends'
  BY <1>1 DEF TaskAttends, Attended, Serving, Fetching, Replying, BootPcs, OuterRegs,
              zVars, slaveVars, strobeVars, portVars
<1> QED
  BY <1>2, <1>3, <1>4, <1>5

LEMMA SendAddrBoot == ASSUME BInv, SendAddr PROVE BInv'
<1> USE DEF BInv, SendAddr, portVars, flagVars, taskVars
<1>0. regnum = "none" /\ Rise(reg)
  BY DEF RegnumMatches
<1>1. /\ cur' = cur /\ got' = got /\ regnum' = reg /\ z80' = z80 /\ waits' = waits
      /\ shiftOut' \in Status /\ shiftOut'.dev = waits
      /\ strobe' = strobe /\ early' = (early \/ strobe) /\ early' \in BOOLEAN
      /\ waits # {} => z80 = "wait" /\ (~strobe => shiftOut'.rnw = cur.rnw)
  BY <1>0, RiseBoot
<1>2. TypeOK'
  <2>1. fresh' \in BOOLEAN
    BY DEF TypeOK
  <2> QED
    BY <1>1, <2>1 DEF TypeOK, MainPcs
<1>3. OneWait' /\ RegnumMatches' /\ (pc = "rmw" => budget > 0)'
  BY <1>1 DEF OneWait, RegnumMatches
<1>4. StatusLatched'
  BY <1>1 DEF StatusLatched, Reports, NoWait
<1>5. TaskAttends'
  <2>1. CASE reg \in OuterRegs
    BY <1>1, <2>1 DEF TaskAttends, Serving, Fetching, Replying, OuterRegs
  <2>2. CASE reg \notin OuterRegs
    BY <1>1, <2>2 DEF TaskAttends, Attended, Serving, Fetching, Replying
  <2> QED
    BY <2>1, <2>2
<1> QED
  BY <1>2, <1>3, <1>4, <1>5

LEMMA SendDataBoot == ASSUME BInv, SendData PROVE BInv'
<1> USE DEF BInv, SendData, zVars, slaveVars, strobeVars, portVars, flagVars
<1>0. regnum = reg
  BY DEF RegnumMatches
<1>1. TypeOK'
  BY DEF TypeOK, MainPcs, Ports
<1>2. OneWait' /\ RegnumMatches' /\ StatusLatched' /\ (pc = "rmw" => budget > 0)'
  BY DEF OneWait, RegnumMatches, StatusLatched, Reports
<1>3. TaskAttends'
  <2> SUFFICES ASSUME Attended
               PROVE  /\ Serving' => wst.dev = waits /\ wst.rnw = cur.rnw
                      /\ Fetching' => reg = AddrReg(cur.port) /\ waddr' = addr[cur.port]
                      /\ Replying' =>
                           /\ waddr' = addr[cur.port]
                           /\ IF cur.rnw THEN /\ wdata' = file[cur.port][waddr']
                                              /\ waitReg' = wdata'
                              ELSE wdata' = waitWrite
    BY DEF TaskAttends, Attended, Fetching, Replying, AddrReg
  <2>1. Serving' => Serving
    BY DEF Serving
  <2>2. CASE reg \in {"gluadr", "comadr"}
    <3>1. reg = AddrReg(cur.port) /\ cur.port \in Ports
      BY <2>2 DEF TaskAttends, Fetching, TypeOK
    <3>2. waddr' = addr[cur.port]
      BY <1>0, <3>1 DEF AddrReg, Ports
    <3> QED
      BY <2>1, <2>2, <3>1, <3>2 DEF TaskAttends, Replying
  <2>3. CASE reg = "wait"
    <3>1. /\ wst.rnw = cur.rnw /\ waddr = addr[cur.port] /\ waddr' = waddr
          /\ cur.rnw => wdata = file[cur.port][waddr]
      BY <1>0, <2>3 DEF TaskAttends, Serving, Replying, OuterRegs
    <3> QED
      BY <1>0, <2>1, <2>3, <3>1 DEF TaskAttends, Fetching
  <2>4. CASE reg \in OuterRegs
    BY <2>4 DEF Serving, Fetching, Replying, OuterRegs
  <2> QED
    BY <2>2, <2>3, <2>4 DEF TypeOK
<1> QED
  BY <1>1, <1>2, <1>3

\* The end of a task's exchange or of a strobe of the keyboard.
LEMMA StrobeBoot == ASSUME BInv, TaskStrobe \/ StbRise PROVE BInv'
<1> USE DEF BInv
<1>0. /\ regnum # "wait" /\ Rise("none") /\ status' = NoWait
      /\ \/ pc' = "wt" /\ wst' = status /\ status.dev # {}
         \/ pc' \in {"pass"} \cup BootPcs /\ wst' = wst
      /\ UNCHANGED <<portVars, waitReg, flagVars, after, budget, reg, waddr, wdata, file, fresh>>
  BY DEF TypeOK, TaskStrobe, StbRise, RegnumMatches, OuterRegs, Waited
<1>1. /\ cur' = cur /\ got' = got /\ regnum' = "none"
      /\ IF regnum = "rst" THEN z80' = "reset" /\ waits' = {}
                           ELSE z80' = z80 /\ waits' = waits
      /\ shiftOut' \in Status /\ shiftOut'.dev = waits'
      /\ strobe' = strobe /\ early' = (early \/ strobe) /\ early' \in BOOLEAN
      /\ waits' # {} => /\ z80' = "wait" /\ z80 = "wait" /\ waits' = waits
                        /\ ~strobe => shiftOut'.rnw = cur.rnw
  BY <1>0, RiseBoot
<1>2. TypeOK'
  <2>1. NoWait \in Status
    BY DEF NoWait, Status
  <2>2. waits' \in SUBSET Ports /\ z80' \in {"run", "wait", "reset"}
    BY <1>1 DEF TypeOK
  <2>3. wst' \in Status /\ pc' \in MainPcs \cup BootPcs
    BY <1>0 DEF TypeOK, MainPcs
  <2> QED
    BY <1>0, <1>1, <2>1, <2>2, <2>3 DEF TypeOK, portVars, flagVars
<1>3. OneWait' /\ RegnumMatches' /\ (pc = "rmw" => budget > 0)'
  BY <1>0, <1>1 DEF OneWait, RegnumMatches, BootPcs
<1>4. StatusLatched'
  BY <1>0, <1>1 DEF StatusLatched, OneWait, NoWait, Reports
<1>5. TaskAttends'
  BY <1>0, <1>1 DEF TaskAttends, Attended, StatusLatched, Serving, Fetching, Replying,
                    Reports, BootPcs
<1> QED
  BY <1>2, <1>3, <1>4, <1>5

LEMMA StbAddrBoot == ASSUME BInv, StbAddr PROVE BInv'
<1> USE DEF BInv, StbAddr, zVars, strobeVars, portVars, flagVars, taskVars
<1>1. TypeOK'
  <2>1. budget' \in 0..Budget
    BY WaitPortAssumption DEF WaitPortAssumption, TypeOK
  <2>2. fresh' \in BOOLEAN
    BY Zenon
  <2> QED BY <2>1, <2>2 DEF TypeOK, MainPcs
<1>2. OneWait' /\ RegnumMatches' /\ (pc = "rmw" => budget > 0)'
  BY DEF OneWait, RegnumMatches
<1>3. StatusLatched'
  BY DEF StatusLatched, Reports
<1>4. TaskAttends'
  BY DEF TaskAttends, Serving, Fetching, Replying
<1> QED
  BY <1>1, <1>2, <1>3, <1>4

LEMMA PollBoot == ASSUME BInv, Poll PROVE BInv'
<1> USE DEF BInv, Poll, portVars, flagVars
<1>b. budget' \in 0..Budget
  BY WaitPortAssumption DEF WaitPortAssumption
<1>1. CASE ~flag
  <2> USE <1>1 DEF zVars, slaveVars, strobeVars
  <2>1. TypeOK'
    BY <1>b DEF TypeOK
  <2>2. OneWait' /\ RegnumMatches' /\ StatusLatched' /\ (pc = "rmw" => budget > 0)'
    BY DEF OneWait, RegnumMatches, StatusLatched, Reports
  <2>3. TaskAttends'
    BY DEF TaskAttends, Serving, Fetching, Replying
  <2> QED
    BY <2>1, <2>2, <2>3
<1>2. CASE flag
  <2> USE <1>2
  <2>0. regnum = "none" /\ Rise("none")
    BY DEF RegnumMatches
  <2>1. /\ cur' = cur /\ got' = got /\ regnum' = "none" /\ z80' = z80 /\ waits' = waits
        /\ shiftOut' \in Status /\ shiftOut'.dev = waits
        /\ strobe' = strobe /\ early' = (early \/ strobe) /\ early' \in BOOLEAN
        /\ waits # {} => z80 = "wait" /\ (~strobe => shiftOut'.rnw = cur.rnw)
    BY <2>0, RiseBoot
  <2>2. TypeOK'
    <3>1. fresh' \in BOOLEAN
      OBVIOUS
    <3> QED BY <1>b, <2>1, <3>1 DEF TypeOK, MainPcs
  <2>3. OneWait' /\ RegnumMatches' /\ (pc = "rmw" => budget > 0)'
    BY <2>1 DEF OneWait, RegnumMatches
  <2>4. StatusLatched'
    <3>1. fresh' => ~strobe'
      BY <2>1
    <3>2. strobe => early'
      BY <2>1
    <3>3. shiftOut'.dev # {} => Reports(shiftOut)' /\ (strobe' => early')
      BY <2>1, <3>2 DEF Reports
    <3>4. status.dev = {} /\ status = NoWait /\ status' = status
      BY DEF StatusLatched, NoWait
    <3> QED
      BY <3>1, <3>3, <3>4 DEF StatusLatched
  <2>5. TaskAttends'
    BY <2>1 DEF TaskAttends, Attended, Serving, Fetching, Replying
  <2> QED
    BY <2>2, <2>3, <2>4, <2>5
<1> QED
  BY <1>1, <1>2

LEMMA WaitTaskBoot == ASSUME BInv, WaitTask PROVE BInv'
<1> USE DEF BInv, WaitTask, ClearFlag, zVars, slaveVars, strobeVars, portVars
<1>1. TypeOK'
  <2>1. flag' \in BOOLEAN
    BY Zenon
  <2>2. wdata' \in Values /\ reg' \in {"gluadr", "comadr", "wait"}
    BY WaitPortAssumption DEF WaitPortAssumption, AddrReg
  <2> QED
    BY <2>1, <2>2 DEF TypeOK, MainPcs
<1>2. OneWait' /\ RegnumMatches' /\ StatusLatched' /\ (pc = "rmw" => budget > 0)'
  BY DEF OneWait, RegnumMatches, StatusLatched, Reports
<1>3. TaskAttends'
  <2> SUFFICES ASSUME Attended
               PROVE  wst.dev = waits /\ wst.rnw = cur.rnw /\ reg' = AddrReg(cur.port) /\ reg' # "wait"
    BY DEF TaskAttends, Attended, Serving, Fetching, Replying, AddrReg
  <2>1. wst.dev = waits /\ wst.rnw = cur.rnw /\ wst.dev = {cur.port} /\ cur.port \in Ports
    BY DEF TaskAttends, Attended, Serving, OneWait, TypeOK
  <2> QED
    BY <2>1 DEF Served, AddrReg, Ports
<1> QED
  BY <1>1, <1>2, <1>3

LEMMA FetchStrobeBoot == ASSUME BInv, FetchStrobe PROVE BInv'
<1> USE DEF BInv, FetchStrobe, portVars, flagVars
<1>0. regnum \notin {"wait", "rst"} /\ Rise("none")
  BY DEF RegnumMatches
<1>1. /\ cur' = cur /\ got' = got /\ regnum' = "none" /\ z80' = z80 /\ waits' = waits
      /\ shiftOut' \in Status /\ shiftOut'.dev = waits
      /\ strobe' = strobe /\ early' = (early \/ strobe) /\ early' \in BOOLEAN
      /\ waits # {} => z80 = "wait" /\ (~strobe => shiftOut'.rnw = cur.rnw)
  BY <1>0, RiseBoot
<1>2. TypeOK'
  <2>1. \A p \in Ports : file[p][waddr] \in Values
    BY DEF TypeOK
  <2>2. wdata' \in Values
    BY <2>1 DEF TypeOK
  <2>3. pc' = "addr" /\ reg' = "wait" /\ wst' = wst
    OBVIOUS
  <2> QED BY <1>1, <2>2, <2>3 DEF TypeOK, MainPcs
<1>3. OneWait' /\ RegnumMatches' /\ (pc = "rmw" => budget > 0)'
  BY <1>1 DEF OneWait, RegnumMatches
<1>4. StatusLatched'
  BY <1>1 DEF StatusLatched, Reports, OuterRegs
<1>5. TaskAttends'
  <2> SUFFICES ASSUME Attended
               PROVE  /\ wst.dev = waits /\ wst.rnw = cur.rnw /\ waddr = addr[cur.port]
                      /\ cur.rnw => wdata' = file[cur.port][waddr]
    BY <1>1 DEF TaskAttends, Attended, Serving, Fetching, Replying
  <2>1. wst.dev = waits /\ wst.rnw = cur.rnw /\ waddr = addr[cur.port]
    BY DEF TaskAttends, Serving, Fetching, OuterRegs
  <2>2. wst.dev = {cur.port} /\ wst.rnw = cur.rnw
    BY <2>1 DEF Attended, OneWait
  <2> QED
    BY <2>1, <2>2 DEF Served
<1> QED
  BY <1>2, <1>3, <1>4, <1>5

\* The end of a wait task: the wait is over, if there was one.
LEMMA ReplyStrobeBoot == ASSUME BInv, ReplyStrobe PROVE BInv'
<1> USE DEF BInv, ReplyStrobe, portVars, flagVars
<1>0. regnum = "wait" /\ Rise("none")
  BY DEF RegnumMatches
<1>1. /\ cur' = cur /\ regnum' = "none" /\ waits' = {}
      /\ z80' = IF z80 = "wait" THEN "run" ELSE z80
      /\ strobe' = strobe /\ early' \in BOOLEAN
      /\ got' \in Values /\ shiftOut' \in Status /\ shiftOut'.dev = {}
  <2>1. early' \in BOOLEAN
    BY <1>0, Zenon DEF Rise
  <2> QED BY <1>0, <2>1 DEF Rise, WaitEnd, GenRst, TypeOK, Status, Direction
<1>2. /\ pc' \in {"put", "pass"} \cup BootPcs /\ status' = status /\ status = NoWait
      /\ reg' \in {reg, "task"} /\ wst' \in {wst, NoWait} /\ wdata' \in {wdata, Filler}
  BY DEF TypeOK, StatusLatched, TaskReturns, OuterRegs
<1>3. TypeOK'
  <2>1. /\ z80' \in {"run", "wait", "reset"} /\ wst' \in Status /\ wdata' \in Values
        /\ pc' \in MainPcs \cup BootPcs
        /\ reg' \in {"gluadr", "comadr", "wait"} \cup OuterRegs
    BY <1>1, <1>2, WaitPortAssumption
       DEF WaitPortAssumption, TypeOK, MainPcs, OuterRegs, NoWait, Status
  <2> QED
    BY <1>1, <1>2, <2>1 DEF TypeOK
<1>4. z80' # "wait"
  BY <1>1
<1>5. OneWait' /\ RegnumMatches' /\ (pc = "rmw" => budget > 0)'
  BY <1>1, <1>2, <1>4 DEF OneWait, RegnumMatches, BootPcs
<1>6. StatusLatched'
  BY <1>1, <1>2 DEF StatusLatched, NoWait
<1>7. TaskAttends'
  BY <1>4 DEF TaskAttends, Attended
<1> QED
  BY <1>3, <1>5, <1>6, <1>7

LEMMA PutBoot == ASSUME BInv, Put PROVE BInv'
<1> USE DEF BInv, Put, TaskReturns, zVars, slaveVars, strobeVars, portVars, flagVars
<1>1. TypeOK'
  <2>1. file' \in [Ports -> [Addrs -> Values]]
    BY DEF TypeOK, SetReg
  <2>2. wst' \in Status /\ wdata' \in Values /\ pc' \in MainPcs \cup BootPcs
        /\ reg' \in OuterRegs
    BY WaitPortAssumption DEF WaitPortAssumption, TypeOK, MainPcs, OuterRegs, NoWait, Status
  <2> QED
    BY <2>1, <2>2 DEF TypeOK
<1>2. pc' \in {"pass"} \cup BootPcs
  BY DEF TypeOK
<1>3. OneWait' /\ RegnumMatches' /\ StatusLatched' /\ (pc = "rmw" => budget > 0)'
  BY <1>2 DEF OneWait, RegnumMatches, StatusLatched, Reports, BootPcs
<1>4. TaskAttends'
  BY <1>2 DEF TaskAttends, Serving, Fetching, Replying, BootPcs
<1> QED
  BY <1>1, <1>3, <1>4

LEMMA NextBoot == ASSUME BInv, [Next]_vars PROVE BInv'
<1>1. CASE Z80
  BY <1>1, SelectBoot, AccessBoot, Z80StartBoot DEF Z80
<1>2. CASE SpiInt
  BY <1>2, BetweenBoot
<1>5. CASE LatchPorts
  BY <1>5, LatchPortsBoot
<1>3. CASE Main
  BY <1>3, BetweenBoot, SendAddrBoot, SendDataBoot, StrobeBoot, StbAddrBoot, PollBoot,
     WaitTaskBoot, FetchStrobeBoot, ReplyStrobeBoot, PutBoot DEF Main
<1>4. CASE UNCHANGED vars
  BY <1>4 DEF vars, BInv, TypeOK, OneWait, RegnumMatches, StatusLatched, TaskAttends,
              Attended, Serving, Fetching, Replying, Reports
<1> QED
  BY <1>1, <1>2, <1>3, <1>4, <1>5 DEF Next

\* Through start-up and any soft resets, with the Z80 at the ports from the first
\* moment, statuses and attended wait tasks belong to the access in progress; only
\* one latched within its strobe may have another direction.
THEOREM BootInvariant == BootSpec => []BInv
<1>1. BootInit => BInv
  BY StartBoot DEF BootInit
<1>2. BInv /\ [Next]_vars => BInv'
  BY NextBoot
<1> QED
  BY <1>1, <1>2, PTL DEF BootSpec

\* Every variable keeps its range in start-up and resets, too.
THEOREM BootTypes == BootSpec => []TypeOK
<1>1. BInv => TypeOK
  BY DEF BInv
<1> QED
  BY <1>1, BootInvariant, PTL

\* A wait task whose status was latched in the access, behind its strobe, answers
\* it, whatever start-up and resets have left behind.
THEOREM FreshAnswered == BootSpec => FreshReleaseAnswered
<1>1. BInv /\ [Next]_vars => [z80 = "wait" /\ z80' = "run" /\ fresh => Answered]_vars
  <2> SUFFICES ASSUME BInv, Next, z80 = "wait", z80' = "run", fresh PROVE Answered
    OBVIOUS
  <2> USE DEF BInv
  <2>1. CASE ReplyStrobe
    <3>1. /\ wst.dev = waits /\ wst.rnw = cur.rnw /\ waddr = addr[cur.port]
          /\ cur.rnw => waitReg = file[cur.port][waddr]
          /\ ~cur.rnw => wdata = waitWrite
      BY <2>1 DEF ReplyStrobe, TaskAttends, Attended, Serving, Replying, OuterRegs
    <3>2. wst.dev = {cur.port} /\ wst.rnw = cur.rnw /\ cur.port \in Ports
      BY <3>1 DEF OneWait, TypeOK
    <3>3. WaitEnd
      BY <2>1 DEF ReplyStrobe, RegnumMatches, WaitEnd
    <3>4. cur.rnw => got' = waitReg
      BY <2>1, <3>3 DEF ReplyStrobe, Rise
    <3>5. IF cur.rnw THEN pc' # "put" ELSE pc' = "put"
      BY <2>1, <3>2 DEF ReplyStrobe, Served, TypeOK, BootPcs
    <3> QED
      BY <3>1, <3>2, <3>4, <3>5 DEF Answered, Served
  <2>2. ASSUME NEW next, Rise(next), regnum # "wait" PROVE FALSE
    BY <2>2, RiseBoot
  <2>3. CASE SendAddr \/ TaskStrobe \/ StbRise \/ FetchStrobe
    BY <2>2, <2>3 DEF RegnumMatches, SendAddr, TaskStrobe, StbRise, FetchStrobe, OuterRegs
  <2>4. CASE Poll
    BY <2>2, <2>4 DEF RegnumMatches, Poll, zVars
  <2>5. CASE SpiInt \/ RmwLoad \/ RmwStore \/ SendData \/ StbAddr \/ WaitTask \/ Put \/ Boot
    BY <2>5 DEF SpiInt, RmwLoad, RmwStore, SendData, StbAddr, WaitTask, Put, Boot, BootSend, Sei, zVars
  <2>6. CASE \E r \in TaskRegs : Send(r)
    BY <2>6 DEF Send, zVars
  <2>7. CASE Z80
    BY <2>7 DEF Z80, SelectGluk, Access, Z80Start, zVars
  <2>8. CASE LatchPorts
    BY <2>8 DEF LatchPorts, zVars
  <2> QED
    BY <2>1, <2>3, <2>4, <2>5, <2>6, <2>7, <2>8 DEF Next, Main
<1> QED
  BY <1>1, BootInvariant, PTL DEF BootSpec, FreshReleaseAnswered
=============================================================================
