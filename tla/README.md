# A verification project for the ZX Evolution base configuration

The ZX Evolution is a Z80 computer built around an FPGA, with an AVR ATmega128
as its peripheral processor. This directory holds TLA+ models of the code in
`avr/current` (C, the AVR) and `fpga/current` (Verilog, the FPGA), the TLC runs
that check them on small instances, and proofs checked by TLAPS. Paths below are
relative to `src/`; line numbers are those of the map in `PROJECT.json`.

## 1. The system

The AVR runs one endless main loop (`avr/current/main.c`):

    tape_task, ps2mouse_task, ps2keyboard_task, zx_task, zx_mouse_task,
    joystick_task, rs232_task, the poll of FLAG_SPI_INT, atx_power_task

and five interrupts: the timer (matrix scan, timeouts, pauses, reset button),
INT4 and INT5 (bits of the PS/2 keyboard and mouse), INT6 (the FPGA asks for the
AVR), INT7 (one second of the clock). The two chips talk over SPI: the AVR is
master, the FPGA (`slavespi.v`) offers numbered registers; a byte sent with CS
high selects a register, bytes with CS low go to and from it, the rise of CS
strobes it. The Z80 sees ports of the FPGA. Some of them it can only use with
the AVR's help: such an access stops it (`zwait.v`) until the AVR has answered.

| component | code | state | operations | talks to |
|---|---|---|---|---|
| Wait ports | `zwait.v`, `slavespi.v`, `zx.c`, `main.c`, INT6 | waits, the last status, register number, FLAG_SPI_INT | Z80 IN/OUT, INT6, every register exchange, `zx_wait_task` | every task that uses SPI; clock and RS-232 behind it |
| ZX keyboard | `zx.c`, timer interrupt, `zkbdmus.v` | counters, FIFO, two bitmaps, pause, task_state | `to_zx`, matrix scan, `zx_task` | PS/2 link (keys, errors), SPI, Z80 port |
| RS-232 port | `rs232.c` | two rings of 16, LSR, MSR, LCR | register reads and writes, `rs232_task` | wait ports, UART |
| PS/2 keyboard link | `ps2.c`, INT4 | shifter, count, timeout, command step, parser, log | bit interrupt, task, commands | keyboard, gluk clock |
| PS/2 mouse link | `ps2.c`, INT5 | step of the initialisation, answer count, command | `ps2mouse_task`, `ps2mouse_set_resolution` | mouse, mouse registers |
| Gluk clock | `rtc.c`, INT7 | registers, the PCF8583 behind them, NVRAM | `gluk_init`, `gluk_inc`, get, set | wait ports, the chip, PS/2 (LEDs, log) |
| Configuration, tape, NMI | `zx.c`, `tape.c` | modes_register, FLAG_EX_NMI, tape bit | button, Print Screen, tape edge, mode keys | register $50 |
| Power, reset | `atx.c`, `main.c` | atx_counter | short and long press | register $30, whole AVR |
| SD hand-over | `spihub.v`, `spi2.v` | lock, CS | AVR request, Z80 CS | SD card |
| DRAM arbiter | `arbiter.v`, `dram.v` | block and video counters | one DRAM cycle | video fetcher, Z80 |
| Video fetcher | `video_fetch.v` | window, pointer, buffer of four words | one DRAM cycle | arbiter, renderer |
| NMI, breakpoint, DOS | `znmi.v`, `zbreak.v`, `zdos.v` | request, entry, NMI state, its end | frame interrupt, M1 and refresh cycles, OUT #BE | Z80, pager |

Not part of the inventory's core: the rest of video and sound (datapaths), the floppy glue,
the pager, start-up and unpacking of the FPGA image, boot loaders, Z80 ROMs,
tools, boards, and the copies of this code under `avr/baseconf`, `unsupported`
and `fpga/base_trdemu`. `PROJECT.json` lists every component with its reason.

What is hard here: interrupts between any two instructions of the main loop,
with read-modify-write of shared flag bytes; a second processor that acts
between any two SPI edges and expects its answer; state that is cleared in one
place and kept in another after an error; rings whose indices do not tell full
from empty; pauses counted by a timer but meant for passes of the loop; a clock
chip that counts on while it is read; one counter that stands for two things
(answers and packet bytes of the mouse); DRAM cycles that two sides ask for. What
would make each component correct: an access is answered once, from its own
cell; at rest the Z80 sees the keys that are held, in between it never sees a
key without its shift; a byte accepted is delivered once and in order; an update
of the clock is never missed; a bit of the configuration is only changed by its
owner; the card has one master; video never misses its slot. The hazards, each
at its line, are in `PROJECT.json`.

## 2. The modules

| module | role |
|---|---|
| `PortMemory` | abstract: two devices of memory cells behind accesses that stop the Z80 |
| `WaitPort` | Z80, FPGA side and AVR side of the wait ports; implements `PortMemory` |
| `MCWaitPort` | constant values |
| `WaitPort_proofs` | invariants of the main loop and of start-up and resets, types, safety and refinement |
| `ZxKeyboard` | from keys to the port: counters, FIFO, bitmaps, matrix scan, transfer |
| `MCZxKeyboard` | rows and keyboard maps of the instances |
| `ZxKeyboard_proofs` | invariant, types and seven safety properties |
| `SerialQueues` | abstract: two bounded queues of bytes with overrun |
| `Rs232` | the 16550 registers, the rings and `rs232_task`; implements `SerialQueues` |
| `MCRs232` | constant values |
| `Rs232_proofs` | lemmas on rings, invariant, types, safety and refinement |
| `Ps2Link` | the wire to the PS/2 keyboard: INT4, the timer's part, `ps2keyboard_task` |
| `Ps2Link_proofs` | invariant, types and three safety properties |
| `Ps2Mouse` | initialisation, commands and packets of the mouse |
| `Ps2Mouse_proofs` | invariant, types and one safety property |
| `GlukClock` | the clock's registers, the chip behind them, start-up, INT7 |
| `MCGlukClock` | the calendar of the instance |
| `GlukClock_proofs` | the count follows the calendar; invariant, types and one safety property |
| `DramArbiter` | who gets a cycle of the DRAM |
| `VideoFetch` | the video fetcher on top of the arbiter |
| `VideoFetch_proofs` | invariants of arbiter and groups, types and three safety properties |
| `Nmi` | entry to and return from the NMI monitor |
| `Nmi_proofs` | two invariants, types and two safety properties |

`Rs232` and `GlukClock` take an access that `WaitPort` has served as one call;
`VideoFetch` EXTENDS `DramArbiter`; the other parts meet only in their inputs.

### WaitPort

A step is one edge of nSPICS with the byte that follows, or one access of
`flags_register`. So the Z80 and INT6 can act between address and data of every
exchange, and between the load and the store of every flag update.

* `Access`, `SelectGluk`: the Z80's IN and OUT (`zports.v`). `port_rd` or `port_wr`
  (`strobe`) sets the flip-flop of `zwait.v` at once; the falling edge of `spiint_n`
  sets INTF6.
* `LatchPorts`: the clock behind it, in which the com port's address, the byte
  written and `wait_rnw` follow. Between the two the direction is still that of
  the Z80's last access to any port (`Direction`).
* `Rise`: everything a rise of CS does in `slavespi.v`. $40 ends the wait, $30
  resets the Z80, the status (`waits` after that, and the direction) is latched,
  and the register number goes back to $00 (`slavespi.v` 147-157). Bit 7 of the
  status is `wait_rnw`, which means something only during a wait and behind its
  strobe, so it is arbitrary otherwise.
* `Send`, `SendAddr`, `SendData`, `TaskStrobe`: `zx_spi_send` called by a task,
  with mask 0x7F, which may enter `zx_wait_task`. `StbAddr`, `StbRise`: the
  keyboard strobe, which acts on the status of the rise *before* it.
* `Poll`, `WaitTask`, `FetchStrobe`, `ReplyStrobe`, `Put`: the poll and
  `zx_wait_task`. A write reaches its device (`Put`) after the Z80 has gone on.
* `RmwLoad`, `RmwStore`: any task's change of another bit of `flags_register`.
* `Boot`: `zx_init` and `rtc_init` with interrupts off, then `sei`.

`Settled` says that a strobe which a rise of CS has met, and an enabled interrupt,
are over before the SPI byte behind it is: a byte keeps main busy for 16 cycles
or more, a strobe is about three of them. A rise may still meet a strobe that
has just begun. `Budget` bounds the exchanges and flag updates of one pass. The
devices are cells.

History: `early` says that CS rose within the strobe of the access in progress,
so that a status may have the wrong direction; `fresh` that the status in use was
latched in the access, behind its strobe. An early access may be served in the
other direction (section 4). The properties say what is left: the task always
serves the access that holds the Z80, in its direction unless the access is
early (`ServesPending`); a wait ends with an answer, or as an early access turned
round (`ReleasedOnlyAnswered`); and the ports are memory but for such accesses.

The refinement to `PortMemory` maps the cells so that a byte the AVR has
fetched but not yet stored (`Put` pending) counts as written: this is why
`Cells` looks at `pc`. It shows that the late write is invisible. `PortMemory`
has the step by which the AVR looks at an access before its direction is latched
(`Look`), and `Turn`, which only an access so looked at can take: an IN that
writes the filler and reads it, an OUT that writes nothing.

### ZxKeyboard

A pass of the main loop is the PS/2 task (at most one key, release or error)
and then `zx_task`. The timer interrupt (`Tick`) comes between any two steps,
also between two rows of the copy. A byte of a bitmap is the set of its keys.

* `ToZx`, `UpdateKeys`: the end of `to_zx` and `update_keys`, on the record of
  what they change; `Put` drops a code when the FIFO is full.
* `Tick`: `shift_pause`, one row of the matrix, the stretched CS.
* `ApplyCode`, `ApplyClear`, `StopDrain`, `CopyRow`, `EndTask`: `zx_task` with
  `task_state` 0; `SendByte`, `Strobe`: the six transfer states, one a pass.
* `Ps2Error`: the timeout of `ps2keyboard_task` with `zx_clr_kb`.

History variables: `lost` holds the reasons why codes and counters may disagree
(a code dropped, `zx_clr_kb` with something in the FIFO or the bitmap);
`forgot` says that counters were cleared under keys that are held. Properties
that a loss makes false are stated for states without loss: so `RestShown`,
`OncePerKey` and the two about shifts say nothing of a behaviour behind a full
FIFO, a line error or the second clearing of a CLRKYS, and `FrameWhole` nothing
of one behind a clearing; what goes wrong there is in section 4.

Simplifications: `zx_wait_task` inside an exchange is `WaitPort`'s; the drain
loop is shorter than a tick, so a tick within it is one after it; repeated make
codes are filtered by `ps2keyboard_parse`; `Users` says what the user of a
behaviour does (strokes of either keyboard, errors of the line), so that one run
has a typist and a user of the matrix; with `Chords` the user types one
chord of the matrix at a time and lifts CS last or with the rest (a copy cut by
the interrupt may show a second chord torn, see the hazards).

### Rs232

The Z80's calls and the task are steps of the main loop; the UART receives and
sends on its own between the steps of `rs232_task`. `TxQueue` and `RxQueue` read
the rings as sequences: empty if the LSR says so, else from index to index, the
whole ring if they agree. `credit` is what a driver may still write since it saw
THRE. `Uses` says what Z80 and peer do in a behaviour: bytes, damaged bytes, a
CTS that moves. Registers that are only stored are left out.

### Ps2Link

`ps2keyboard_count` is all that INT4, the timer and the task say to each other.
A step is an interrupt, or a part of the task between two accesses to what an
interrupt uses. INT4 is taken before main or the timer go on, since nothing in
the main loop disables interrupts.

* `Int4`: one bit, received or sent; behind the last one it holds the clock.
* `Tick`: lets the clock go after a request to send, counts the timeout down.
* `SendCmd`: `ps2keyboard_send_cmd` for the LEDs, from main or the clock.
* `TaskStart`, `SetDirection`, `Pull`: the test of the counter, the 100 us and
  `ps2keyboard_send`. Between test and `Pull` the keyboard may begin a byte; if
  it holds the clock low itself the pull makes no edge.
* `TaskError`, `TaskReturns`, `TaskReceive`, `TaskSent`: how the task ends;
  `Release`, `ReleaseDat`, `ReleaseDir`, `ReleaseClk`: `ps2keyboard_release_clk`,
  open to INT4 between any two of its stores. The command is changed before
  `Release`: no interrupt looks at it.
* the keyboard (external) starts a byte when it likes, stops within one, hears
  what is sent to it; with `Faults` edges get lost and come from nowhere.

Bytes are the two answers FA and AA, and the rest ("code"). The shifter is
`good`: it holds the bits of one byte in order; any other content may decode to
anything, since a parity bit catches only half of it. `SlowEnough` and
`DelayEdges` say that the 100 us before a send, and the stores of the release,
are shorter than a byte: the keyboard makes fewer than `DelayEdges` edges in
them. `out` is what a pass hands on (a scancode to the parser, `zx_clr_kb` to
the ZX keyboard), `heard` and `clean` are the keyboard's side of the last send;
`clean` is FALSE if the keyboard began a byte in the 100 us before it, and
`SentWhole` says nothing of such a send (section 4).

### Ps2Mouse

The level above the frames: a byte is sent or received in one step or stalls
until the timeout, because the bits are those of `Ps2Link`.

* `TaskSend`, `TaskSent`, `TaskTimeout`, `TaskReceive`: `ps2mouse_task`. Sending
  takes the next command of `ps2mouse_init_sequence`, a command of another task
  or its argument; receiving is `InReset`, `InGetType`, `InSetResolution`,
  `InOther` or `InPacket`, by the command in hand.
* `SetResolution`: `ps2mouse_set_resolution`, which `to_zx` calls at any moment
  while both buttons are held.
* `Hears`, `Sends`, `Moves`: the mouse (external), with the knock of rates by
  which a wheel mouse changes to packets of four bytes.
* `AsksAgain`, `EdgeLost`, `SendStalls`: the faults, at most `MaxFaults` of them.
  A lost edge joins a frame to the next byte, or to the timeout if there is none.

`spoilt` records that a command or an answer, and not only a packet, was hit:
what mouse and AVR then think of each other may differ. `replaced` records that a
key came while ENABLE was in hand (section 4). `PacketsInStep` says nothing of
either; `Ready` holds behind a replaced ENABLE as before it.

### GlukClock

A step is one transaction with the chip or one access to a register that INT7
also writes. The chip runs on when the AVR is off (`PowerOff`) and keeps two
bits of the year; `yearAdd` is the year of the last start-up or setting.

* `Start`, `ReadField`, `ReadDay`: `rtc_init` and `gluk_init`, up to twice, with
  interrupts off; a second that begins there is remembered in INTF7.
* `Int7`: `gluk_inc`, each field by whether those below it carry.
* `GetC`, `ClearFlag`, `SetC`, `ToggleBit`: register C, read and changed in two
  steps. `SetReg`, `WriteYearAdd`, `WriteChip`: a field, first on the AVR, then in
  the chip.

`InRange`, and with it `TypeOK`, asks of a date only what the conversions of `rtc.c`
allow: once AVR and chip are apart, a day that its month does not have may reach
either, and counts on from there.

`apart` records why AVR and chip need not agree: a year saved more than three
years ago, a tick within a setting, a time out of range, a field set on an AVR
that is one second ahead. `Date` and `MonthLength` are the reference calendar,
stated without the code's tables and carries.

### DramArbiter and VideoFetch

A step is one DRAM cycle, at whose end the next is given away. `NextCycle` is
the choice of `arbiter.v`; the Z80 asks for any cycle, the mode changes in any.
`due`, `done` and `refused` count the block in progress. `VideoFetch` adds
`video_fetch.v`: window, pointer, buffer, the hand-over to the renderer. Words
are numbers, so that a lost, doubled or late one shows.

A mode is its share of a block, `1 << bw`. A window opens more than a block after
the last one closed.

### Nmi

`znmi.v` and `zbreak.v` with a Z80 whose opcode is three steps: fetch, refresh,
the rest. Clocks of the FPGA in which nothing changes are left out.

* `Frame`: the end of a request and the start of the frame interrupt, or both in
  one clock; `Pull`, `PulseEnd`: NMI_N; `ClrNmi`: the write to #BE.
* `Fetch`, `Refresh`, `Rest`: the Z80 through the program, the acknowledge, the
  opcode at 0066 (a NOP from the FPGA), the monitor, its OUT, and ED and 45 of
  RETN. A `young` NMI may be too late for the instruction in progress. A breakpoint
  may hit any fetch; a frame interrupt may come at any time, also in the clock
  of the refresh that ends the entry.
* `Reset`, which does not reach `clr_count`.

`wroteBE` and `twice` record the two cases of section 4 in which the state
machine is left in disorder: `MonitorPaged`, `OneMonitor` and `RequestServed` are
about all others. The program itself is assumed never to execute 0066, which the
FPGA would take for the monitor's entry.

## 3. Runs

| run | checks | bounds and why |
|---|---|---|
| `waitport_steady` | `TypeOK`, `ServesPending`, `PortsAreMemory`, `ReleasedOnlyAnswered`, `FlaggedServed`, `ExchangeServes` | two cells, two bytes, one exchange or flag update a pass: a pass whose poll finds no flag changes nothing, so passes chain into every order of stale and fresh status |
| `waitport_boot` | `FreshReleaseAnswered` | as above with start-up and resets |
| `zxkeyboard` | `TypeOK`, `RestShown`, `CountsHeld`, `FrameWhole`, `ShiftSeenFirst`, `OncePerKey`, `CapsLiftedLast`, `Settles` | two users: three strokes on four PS/2 keys (plain, shift, both, ESC) with errors, or five strokes, two chords, of the matrix; a FIFO of three fills, errors meet each transfer state |
| `kbd_stuck` | violated: `NoStuckKey` | two strokes and an error |
| `rs232` | `TypeOK`, `RingOK`, `DeltaTold`, `RingsAreQueues`, `CreditHonoured`, `Drains` | rings of two: empty, wrapped and full in both directions at once; two uses: both byte values on a quiet line, or damaged bytes and a CTS that moves |
| `ps2_link` | `TypeOK`, `ClockHolds`, `StagesAgree`, `SentWhole`, `Recovers` | frames of four bits, so first, middle, last but one and last bit differ; a timeout of three, so it runs out at rest and is renewed; two edges before a send; all faults |
| `ps2_mouse` | `TypeOK`, `PacketsInStep`, `Ready` | both kinds of mouse, the whole initialisation, four faults: they hit an initialisation that a fault began. Deadlock is not checked: mouse and AVR may be left waiting for each other (`Silent`) |
| `mouse_reinit` | violated: `ReInit` | one fault |
| `gluk_clock` | `TypeOK`, `InStep`, `NextDate` | minutes of two seconds, hours of two minutes, days of one hour, two months of one and two days, leap days, eight years: every carry and the end of the century. States with `apart` are not followed further (`Together`), so power is off for less than four years; the proofs follow them |
| `gluk_flag` | violated: `UpdateTold` | the same calendar |
| `video_fetch` | `TypeOK`, `Deadline`, `CpuServed`, `PicWhole` | blocks of four cycles and a buffer of four: shares 1, 2 and the whole block; word numbers modulo eight tell a word from that of the group before |
| `nmi` | `TypeOK`, `MonitorPaged`, `OneMonitor`, `RequestServed` | no constants: the whole state machine |

Every property of a passing run has a mutant of a mapped definition that breaks
it (marked "Mutant" in the modules).

### Fairness

`WaitPort`: weak fairness of the main loop's steps, of INT6 and of `LatchPorts`, a
clock of the Z80; the AVR never blocks outside start-up, and the Z80 is obliged
to nothing. `ExchangeServes`
assumes in addition that some task exchanges a register again and again, as
those of keyboard and mouse do when there is something to send; without it a
lost flag leaves the Z80 stopped.
`ZxKeyboard`: weak fairness of the passes and of the timer; no key is ever
pressed. `Settles` is about behaviours in which the user stops. `Rs232`: weak
fairness of the task and of the transmitter, nothing of the Z80 or the peer.
`Ps2Link`: weak fairness of INT4, the timer and the task; the keyboard owes
nothing, and `Recovers` holds when it is unplugged within a byte.
`Ps2Mouse`: weak fairness of the task, of the mouse's answers and of its
movement (`Ready` is about a mouse that is moved), strong fairness of `TaskSend`,
because a moved mouse sends a packet every 10 ms and the main loop turns many
times between two packets. `Nmi`: weak fairness of the frame interrupt, which
the video counters make, and of the Z80, which runs on its clock.

## 4. What the checks found

1. `kbd_stuck`: `zx_clr_kb` after a PS/2 error (`ps2.c` 272) is not sent and
   leaves the FIFO: the Z80 may see a key nobody holds until something changes.
2. `gluk_flag`: `gluk_get_reg` clears the update flag of register C (`rtc.c` 355)
   after it has read the register (345), and `gluk_set_reg` changes its other bits
   by a load and a store. A second that INT7 counts in between is never told.
3. `mouse_reinit`: an error of the line starts the initialisation of the mouse
   again (`ps2.c` 582) but leaves `ps2mouse_resp_count`, and a command is only sent
   when that is 0 (509). If the mouse is not enabled yet, or waits for an
   argument, no bytes come that would bring it there, and the mouse stays dead.

Seen in passing, without a run of their own; the properties leave these cases
out where the modules say so:

* INTF6 latched in start-up leaves, after `sei`, a `zx_wait_task` with an empty
  status, whose $40 exchange is unconditional (`zx.c` 593-594) and releases an
  access begun meanwhile without an answer (hence `FreshReleaseAnswered`).
* `wait_rnw` follows the wait by a clock (`zports.v` 746-753, "only meanful during
  wait"). A rise of CS in that clock latches a status that has the new wait and
  the direction of the last port access: the OUT to $DFF7 before an IN from $BFF7,
  for example. The task then serves the IN as an OUT, overwrites the cell with the
  byte last written and gives the Z80 $FF; or an OUT as an IN, which is lost. (`early`;
  the strobe is a clock of the Z80, so this needs an exchange of another task or
  the poll to hit it.)
* Changes of `flags_register` in the main loop are not atomic (`tape.c` 18) and can
  lose FLAG_SPI_INT: the Z80 waits for the next exchange of any task
  (`ExchangeServes`).
* The counters are cleared twice for one CLRKYS (`zx.c` 466, 164); the second
  pause for releases tests `prev_code` again (203, 205) and never applies.
* `ps2keyboard_task` does not look at the counter again after its 100 us
  (`ps2.c` 230): if the keyboard has begun a byte, the rest of it is counted as the
  bits of the command. A scancode that comes while a command waits to be sent is
  dropped without a look (`TaskReceive`, its last disjunct).
* FE and UPE are read after UDR1 (`rs232.c` 356, 374), when they already belong to
  the next byte (`TaskStatus`).
* The AVR may be one second ahead of the chip after start-up (a second between
  the clearing of INTF7 and the read of the seconds is counted twice). A field
  set then, or while the chip ticks, leaves the two apart until the next restart.
* A write to #BE counts outside the NMI state too, though
  `evonmi.txt` 87 limits it to that state: one right before an NMI is acknowledged
  ends the state at its beginning (`wroteBE`). A request that ends in the very
  clock of the frame interrupt is lost.
* `nmi_start` is kept out by `in_nmi` alone (`znmi.v` 168, 197), which is set only
  behind the opcode at 0066. If NMI_N is high again before that, a breakpoint in
  the acknowledge or at 0066, or a frame interrupt with a request pending that
  falls into the entry a breakpoint has begun, pulls it down a second time
  (`twice`). The Z80 takes that edge in the monitor: it nests, and behind the RETN
  of the inner monitor the outer one runs without its page.
* A resolution key pressed within the few milliseconds of ENABLE replaces the
  code of the command in hand: its answer is counted as that of the new command,
  whose argument the mouse then refuses, or a packet that comes meanwhile is
  taken for the answer and its rest for a packet of its own (`replaced`).
  The resolution is not set again after a new initialisation, and a mouse that
  was unplugged while it worked is never enabled again, as nothing times out.

## 5. What is proved

For every value of the constants allowed by the assumptions:

* `WaitPort_proofs`, under `NoReset` (the tasks do not reset the Z80):
  `Invariant`, `TypeCorrect`, `AlwaysServesPending`, `ReleaseAnswered`,
  `ImplementsMemory`.
  `ServesPending` is not inductive: one needs to know that every status kept
  anywhere (`shiftOut`, `status`) names the access in progress, with its direction
  unless the access is `early` (`StatusCurrent`, `Reports`), that flag, INTF6 and the copy in a flag update outlive no
  access (`FlagsCurrent`), that CS toggles strobe nothing twice
  (`RegnumMatches`), and that address and byte in the task are the access's
  (`TaskCurrent`). `WInv` is their conjunction; there is one lemma for each
  action. Every end of a wait is a `ReplyStrobe` (`ReleaseIsReply`), from which
  the two safety properties and the refinement follow: behind a status that is
  `fresh` or of an access that is not early it is an answer, else perhaps a `Turn`.
  `BootInvariant`, `BootTypes`, `FreshAnswered` hold of `BootSpec`, through start-up
  and soft resets, without `NoReset` and whatever registers the tasks exchange.
  `WInv` fails there: a wait may be over while the task still runs for it. `BInv`
  keeps what is left: a status that tells of a wait tells of the one in progress
  (`StatusLatched`), though only one latched behind its strobe of its direction,
  as a reset clears both and no exchange of a task outlasts it;
  and of an access the task attends to (`Attended`) it has address and byte
  (`TaskAttends`). So a task ends
  a wait unanswered only with a status from before it or from its strobe (section 4).
* `ZxKeyboard_proofs`: `KeyInvariant`, `KeyTypes`, `CodesTell`, `RestIsShown`,
  `WholeFrames`, `ShiftsFirst`, `KeysOnce`, `CountsAreHeld`, `CapsLast`.
  The core is `FifoTells`: for every key the last code about it in the FIFO says
  what its counter says, and a key without a code is in the bitmap exactly if it
  is counted. With `SentIsCurrent` (the register holds the rows already sent, of
  the present bitmap: codes are applied only in `task_state` 0) and `Shown` it
  is inductive. The assumption that the set of keys is finite and the map has
  one or two codes a key is that of the code.
  `KeysOnce` adds `FifoAlternates`: the first code about a key undoes what the
  bitmap shows, and each later one the one before it. `CountsAreHeld` adds
  `CountInv`: a key is counted at most, and unless a code was lost or the keyboard
  cleared under a held key exactly, as often as held PS/2 keys map to it (two
  codes of a press or release in a row, `ToZxCounts`; cardinalities from the
  library's `FS_*` facts). It assumes `ClearAlone`, that the key which clears has no
  other code: `kbmap.c` gives CLRKYS to one key, with NO_KEY behind it.
  `CapsLast` follows CS from the hands through scan, copy and port (`ChordOf`): at
  each stage it is there before the other keys of the chord and as long as them. The
  stretched scan of row 0 holds it until the scans of all rows have lost the rest
  (`Swept`), and a copy that loses it loses the rest before it ends. Its hypotheses
  (`ChordsOnly`): a user of the PS/2 keyboard leaves the matrix alone, one of the
  matrix types chords of CS (`Chords`), and CS is in byte 0, whose scan is stretched.

* `Ps2Link_proofs`: `LinkInvariant`, `LinkTypes`, `ClockHeld`, `StagesHeld`,
  `SendsHeard`, for frames of any length, any timeout, with and without faults.
  That the counter never wraps below zero needs `ClockHolds` (a byte that waits
  is behind a held clock, so INT4 cannot come), `DirectionAgrees` (a byte that is
  received never has one bit left, so turning the direction round cannot skip
  the end) and `FewEdges` (which turns the timing assumption into a bound on the
  counter wherever a hold or a release is under way). `SendsNext` carries the
  test at the top of the task over the 100 us to `Pull`, for `StagesAgree`;
  `BitsAgree` counts the bits on both sides of the wire, for `SentWhole`.

* `Rs232_proofs`: `RingInvariant`, `RingTypes`, `RingsAgree`, `DeltaKept`,
  `CreditKept`, `ImplementsQueues`, for rings of any size and any bytes. Three
  lemmas about a ring carry it: what it reads as (`RingIsSeq`), a byte stored at
  its end (`RingPut`), a byte taken from its start (`RingTake`), each with the
  count of bytes, empty and full told apart by the LSR bit. To the properties
  the invariant adds only `CreditFits`: what a driver may still write has room.
  The refinement has one step lemma each for the Z80, the task and the UART.
* `Ps2Mouse_proofs`: `MouseInvariant`, `MouseTypes`, `PacketsTaken`, for any number
  of faults and both kinds of mouse. `MInv` ties what the mouse has still to send
  (`out`), a byte that has come (`Got`) and the task's one counter together:
  in the initialisation `out` is the rest of the answer counted (`Awaits`), behind it
  the rest of a packet (`Moved`) or the answer of a resolution command
  (`Exchange`). Packets still on their way when an initialisation begins (`Stray`)
  are eaten by the first two resets, before the mouse is disabled; the rest of the
  sequence (`SetsUp`) relies on that. All but the ranges is under `~spoilt` and
  `~replaced`.
* `VideoFetch_proofs`: `ArbiterInvariant`, `FetchTypes`, `VideoInTime`,
  `CpuInTime`, for any length of a block and any shares of it. `ArbInv` says that
  the video accesses left fit into the cycles left, and that the Z80 is refused
  only when they fill them. `GroupInvariant` and `PicturesWhole`: `InBlock` says in
  which cycle of its two blocks a group is, `Holds(Stored)` that the buffer has
  the words the arbiter has given to it, in order and with the pointer behind them.
  At a sync the arbiter has done a share twice, so the buffer holds the group.
  That words and pointer wrap only between groups (`GroupFits`, `Divides`) needs the
  buffer to be a multiple of the group, `FetchAssumption`: both are powers of two.
* `Nmi_proofs`: `NmiInvariant`, `PageFollows`, `MonitorsAlone`. The page is tied
  to the place and phase of the Z80 (`InPage`, `OnItsWay`), the end of the NMI
  state to the two opcodes of RETN (`ClrFollows`), and the pulse, which a start within
  the entry may prolong, to the entry and the monitor's first opcode, so that NMI_N
  is high when the monitor ends (`PulseFollows`); all of it under `Clean`, without
  the two cases of section 4. `DepthInvariant` and `NmiTypes` are about those cases
  too: an NMI is taken in a monitor only with its page mapped and no other NMI
  latched (`Nested`). A start within the entry can leave an edge latched when the
  monitor begins, but its first opcode takes it, no start follows with the page
  mapped, and a count begun by the program is over behind 0066 (`Entry`); then the
  page stays to the RETN of the inner monitor (`Return`) and `depth` to two.
* `GlukClock_proofs`: `CountsDates`, for calendars of any size: `gluk_inc` takes a
  date to a date (`IncDate`) and none lies between (`NoneBetween`, by the field in
  which the two differ first). It needs no invariant. `ClockInvariant`, `ClockTypes`,
  `ShowsChip`: `InReading` says that the fields read so far are the chip's unless a
  second was counted in the first pass, which then shows as seconds of zero and
  makes the second pass one without a carry; `InSetting` and `Ahead` that the AVR
  differs from the chip by the field being set, or is one second ahead of it.
  `YearComesBack` recovers the year from two bits and the year saved.

Only model-checked is liveness (`ExchangeServes`, `FlaggedServed`, `Settles`,
`Drains`, `Recovers`, `Ready`, `RequestServed`), which is out of the prover's reach:
every safety property of a passing run is also a theorem.

## 6. Not modelled, and what comes next

Of modelled components: the scancode parser and the log of `ps2.c`; the values of
the mouse's packets; BCD, alarms, NVRAM and EEPROM of the clock; `zdos.v`; the
pins, refresh and strobes of `dram.v`; `rs232_set_baud` (pure arithmetic). A
video mode switched in a line misaligns the groups of that line; `PicWhole`
speaks of groups fetched in one mode.

Components left out, in the order in which they would be added:

1. Register $50 and its writers (`zx_set_config`: tape, NMI button, Print Screen,
   mode keys): each bit follows its own source. Two hazards wait for it (the tape
   bit lost at `zx.c` 131, FLAG_EX_NMI shared by two keys at 136).
2. `atx.c`: short and long press, and the counter that the interrupt clears
   between its test (119) and its use (124).
3. `spihub.v` and `spi2.v`: one master of the card.
4. The parser, and `Ps2Link` and `ZxKeyboard` composed through it; `WaitPort`
   with `Rs232` in place of the cells.

By far the most lines of the repository are tools, assembler and emulator
sources from elsewhere, ROMs in Z80 assembler, boards and older copies of this
code; they are no part of the machine modelled here. Of the rest, floppy glue,
sound, the pixel pipeline, the Z80's clock and memory interface and the loaders
are datapaths, timing or straight-line code without state worth a model.
