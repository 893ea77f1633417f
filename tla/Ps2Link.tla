------------------------------ MODULE Ps2Link ------------------------------
(***************************************************************************)
(* The wire to the PS/2 keyboard.  INT4 shifts one bit at each falling     *)
(* edge of the clock, the timer interrupt lets the clock go after a        *)
(* request to send and counts the timeout down, ps2keyboard_task takes     *)
(* bytes, sends commands, waits for their answers and recovers from        *)
(* errors.  ps2keyboard_count is the only word between the three: Idle     *)
(* when nothing is under way, 0 when a byte waits for the task.            *)
(*                                                                         *)
(* A step is an interrupt or a part of the task with no interrupt in it.   *)
(* INT4 is taken before main or the timer go on: nothing in the main loop  *)
(* disables interrupts, and a bit takes longer than any other interrupt.   *)
(*                                                                         *)
(* What a byte says is left to the parser: "FA" and "AA" are the answers   *)
(* to commands, "code" is any byte of a scancode.                          *)
(***************************************************************************)
EXTENDS Naturals

CONSTANTS
  Bits,        \* bits of a frame: 11
  Timeout,     \* PS2KEYBOARD_TIMEOUT: 20
  DelayEdges,  \* edges a keyboard can make in the 100 us before a send: 2
  Faults       \* whether edges may get lost or come from nowhere, and a
               \* keyboard give up within a byte

ASSUME Ps2LinkAssumption ==
  /\ Bits \in Nat /\ Timeout \in Nat /\ DelayEdges \in Nat
  /\ Bits > 3 /\ Timeout > 2 /\ DelayEdges + 1 < Bits
  /\ Faults \in BOOLEAN

VARIABLES
  count, timeout, \* ps2keyboard_count, ps2keyboard_timeout
  dir,         \* FLAG_PS2KEYBOARD_DIRECTION: "send" or "recv"
  clk, dat,    \* whether the AVR holds the clock low, drives the data pin
  good,        \* the shifter holds the bits of one byte from its first
  cmd, stage,  \* ps2keyboard_cmd: "none", "led", "reset"; ps2keyboard_cmd_count
  pc,          \* where ps2keyboard_task is; "loop": in the other tasks
  intf,        \* INTF4: 0, or the bit the keyboard puts on the line, or Other
  \* the keyboard
  kb, bit, byte,  \* "idle", "sends", "listens"; bits done; the byte it sends
  \* history
  heard,       \* the keyboard has heard a whole byte since the last Pull
  clean,       \* that Pull found the line free, and no fault came since
  out          \* what this pass of the task gave to the parser, or "clear"

wire == <<count, timeout, dir, clk, dat, good, intf>>
command == <<cmd, stage>>
keyboard == <<kb, bit, byte>>
history == <<heard, clean, out>>
vars == <<wire, command, pc, keyboard, history>>

Idle == Bits + 1
Other == Bits + 1

-----------------------------------------------------------------------------
(* Interrupts *)

\* Mutant: INT4 does not hold the clock behind the last bit.
NeverLast == FALSE

\* Mutant: a byte that is sent ends where one that is received does.
EarlyLast == count = 2

\* This edge is the last of a byte, received or sent.
LastEdge == count = IF dir = "send" THEN 1 ELSE 2

\* ps2keyboard_count is a byte.
Dec(n) == IF n = 0 THEN 255 ELSE n - 1

\* INT4_vect
Int4 ==
  /\ intf # 0
  /\ IF LastEdge THEN count' = 0 /\ clk' = TRUE
                 ELSE count' = Dec(count) /\ UNCHANGED clk
  /\ IF dir = "send"
     THEN /\ dat' = IF count = Idle THEN TRUE ELSE dat /\ count # 2
          /\ UNCHANGED good
     ELSE /\ good' = (intf = Idle - count + 1 /\ (good \/ count = Idle))
          /\ UNCHANGED dat
  /\ timeout' = Timeout
  /\ intf' = 0
  /\ UNCHANGED <<dir, command, pc, keyboard, history>>

\* The hold that tells the keyboard to listen has lasted a tick.
LetsGo == dir = "send" /\ count = Bits /\ timeout < Timeout

\* TIMER2_OVF_vect, the part for the keyboard's link.
Tick ==
  /\ intf = 0
  /\ 0 < count /\ count < Idle
  /\ clk' = (clk /\ ~LetsGo)
  /\ timeout' = IF timeout > 0 THEN timeout - 1 ELSE 0
  /\ UNCHANGED <<count, dir, dat, good, intf, command, pc, keyboard, history>>

-----------------------------------------------------------------------------
(* ps2keyboard_task, and who else calls into it *)

At(l) == pc = l /\ intf = 0

\* Mutant: a command takes the place of one that is under way.
TakesOver == TRUE

CmdFree == cmd = "none"

\* ps2keyboard_send_cmd(PS2KEYBOARD_CMD_SETLED)
SendCmd ==
  /\ At("loop") /\ CmdFree
  /\ cmd' = "led" /\ stage' = 4
  /\ UNCHANGED <<wire, pc, keyboard, history>>

ToSend == \/ cmd = "led" /\ stage \in {2, 4}
          \/ cmd = "reset" /\ stage = 3
WaitsFA == \/ cmd = "led" /\ stage \in {1, 3}
           \/ cmd = "reset" /\ stage = 2
WaitsAA == cmd = "reset" /\ stage = 1

TaskStart ==
  /\ At("loop")
  /\ pc' = IF count = Idle /\ ToSend THEN "delay" ELSE "task"
  /\ out' = "none"
  /\ UNCHANGED <<wire, command, keyboard, heard, clean>>

\* ps2keyboard_send, after 100 us: the flag, then the clock.
SetDirection ==
  /\ At("delay")
  /\ dir' = "send"
  /\ pc' = "pull"
  /\ UNCHANGED <<count, timeout, clk, dat, good, intf, command, keyboard, history>>

\* A keyboard that is held stops; the pull is an edge unless it held the clock
\* low itself.
Pull ==
  /\ At("pull")
  /\ clk' = TRUE
  /\ intf' \in IF kb = "sends" /\ bit > 0 /\ count < Idle THEN {0, Other} ELSE {Other}
  /\ stage' = stage - 1
  /\ pc' = "task"
  /\ kb' = "idle"
  /\ heard' = FALSE /\ clean' = (count = Idle)
  /\ UNCHANGED <<count, timeout, dir, dat, good, cmd, bit, byte, out>>

\* Mutant: only a byte that is received can time out.
ReceiveTimesOut == dir = "recv" /\ count < Idle /\ timeout = 0

TimedOut == count < Idle /\ timeout = 0

\* "error due send/receive": a reset, or nothing if the reset itself failed.
TaskError ==
  /\ At("task") /\ TimedOut
  /\ IF cmd # "reset" THEN cmd' = "reset" /\ stage' = 3
                      ELSE cmd' = "none" /\ stage' = 0
  /\ out' = "clear"
  /\ pc' = "rel"
  /\ UNCHANGED <<wire, keyboard, heard, clean>>

TaskReturns ==
  /\ At("task") /\ ~TimedOut /\ count # 0
  /\ pc' = "loop"
  /\ UNCHANGED <<wire, command, keyboard, history>>

\* ps2_decode: "none" for a frame that cannot be; one that is only wrong may
\* pass for any byte.
Decode == IF good THEN {byte} ELSE {"none", "FA", "AA", "code"}

Parse(b) == out' = IF b = "code" THEN "code" ELSE "none"

\* A code that no command waits behind may switch a mode, and so send the LEDs.
TaskReceive ==
  /\ At("task") /\ ~TimedOut /\ count = 0 /\ dir = "recv"
  /\ \E b \in Decode :
       \/ /\ cmd = "none"
          /\ Parse(b)
          /\ \/ UNCHANGED command
             \/ b = "code" /\ cmd' = "led" /\ stage' = 4
       \/ /\ WaitsFA
          /\ stage' = IF b = "FA" THEN stage - 1 ELSE 0
          /\ cmd' = IF stage' = 0 THEN "none" ELSE cmd
          /\ Parse(b)
       \/ /\ WaitsAA
          /\ stage' = 0 /\ cmd' = "none"
          /\ Parse(b)
       \/ /\ ToSend                       \* the byte is not looked at
          /\ UNCHANGED <<command, out>>
  /\ pc' = "rel"
  /\ UNCHANGED <<wire, keyboard, heard, clean>>

TaskSent ==
  /\ At("task") /\ ~TimedOut /\ count = 0 /\ dir = "send"
  /\ pc' = "rel"
  /\ UNCHANGED <<wire, command, keyboard, history>>

\* ps2keyboard_release_clk
Release ==
  /\ At("rel")
  /\ count' = Idle
  /\ pc' = IF dir = "send" THEN "relDat" ELSE "relClk"
  /\ UNCHANGED <<timeout, dir, clk, dat, good, intf, command, keyboard, history>>

ReleaseDat ==
  /\ At("relDat")
  /\ dat' = FALSE
  /\ pc' = "relDir"
  /\ UNCHANGED <<count, timeout, dir, clk, good, intf, command, keyboard, history>>

ReleaseDir ==
  /\ At("relDir")
  /\ dir' = "recv"
  /\ pc' = "relClk"
  /\ UNCHANGED <<count, timeout, clk, dat, good, intf, command, keyboard, history>>

\* (INTF4, which it clears, is not set: Int4 came before.)
ReleaseClk ==
  /\ At("relClk")
  /\ clk' = FALSE
  /\ pc' = "loop"
  /\ UNCHANGED <<count, timeout, dir, dat, good, intf, command, keyboard, history>>

-----------------------------------------------------------------------------
(* The keyboard and the line *)

\* The 100 us before a send are shorter than a byte, and so is the release.
SlowEnough ==
  pc \in {"delay", "pull", "relDat", "relDir", "relClk"} => Idle - count < DelayEdges

Line(e) ==
  /\ intf = 0 /\ ~clk
  /\ intf' = e
  /\ UNCHANGED <<count, timeout, dir, clk, dat, good, command, pc>>

KbStart(b) ==
  /\ kb = "idle" /\ ~dat /\ Line(0)
  /\ kb' = "sends" /\ bit' = 0 /\ byte' = b
  /\ UNCHANGED history

KbSends ==
  /\ kb = "sends" /\ SlowEnough /\ Line(bit + 1)
  /\ bit' = bit + 1
  /\ kb' = IF bit' = Bits THEN "idle" ELSE "sends"
  /\ UNCHANGED <<byte, history>>

\* The clock is high and the data low: a request to send.
KbListens ==
  /\ kb = "idle" /\ dat /\ Line(0)
  /\ kb' = "listens" /\ bit' = 0
  /\ UNCHANGED <<byte, history>>

KbClocks ==
  /\ kb = "listens" /\ SlowEnough /\ Line(Other)
  /\ bit' = bit + 1
  /\ kb' = IF bit' = Bits THEN "idle" ELSE "listens"
  /\ heard' = (heard \/ bit' = Bits)
  /\ UNCHANGED <<byte, clean, out>>

\* Unplugged, or tired of waiting.
KbGivesUp ==
  /\ Faults /\ kb # "idle" /\ Line(0)
  /\ kb' = "idle"
  /\ clean' = FALSE
  /\ UNCHANGED <<bit, byte, heard, out>>

LostEdge ==
  /\ Faults /\ kb # "idle" /\ pc \in {"loop", "task", "rel"} /\ Line(0)
  /\ bit' = bit + 1
  /\ kb' = IF bit' = Bits THEN "idle" ELSE kb
  /\ clean' = FALSE
  /\ UNCHANGED <<byte, heard, out>>

Spike ==
  /\ Faults /\ SlowEnough /\ Line(Other)
  /\ clean' = FALSE
  /\ UNCHANGED <<keyboard, heard, out>>

-----------------------------------------------------------------------------
\* ps2keyboard_init, and the LED command of main.
Init ==
  /\ count = Idle /\ timeout = 0 /\ dir = "recv" /\ clk = FALSE /\ dat = FALSE
  /\ good = FALSE /\ intf = 0
  /\ cmd = "led" /\ stage = 4
  /\ pc = "loop"
  /\ kb = "idle" /\ bit = 0 /\ byte = "AA"
  /\ heard = FALSE /\ clean = FALSE /\ out = "none"

Task ==
  \/ TaskStart \/ SetDirection \/ Pull
  \/ TaskError \/ TaskReturns \/ TaskReceive \/ TaskSent
  \/ Release \/ ReleaseDat \/ ReleaseDir \/ ReleaseClk

Keyboard ==
  \/ \E b \in {"FA", "AA", "code"} : KbStart(b)
  \/ KbSends \/ KbListens \/ KbClocks \/ KbGivesUp
  \/ LostEdge \/ Spike

Next == Int4 \/ Tick \/ SendCmd \/ Task \/ Keyboard

Spec == Init /\ [][Next]_vars

\* Interrupts are taken, the main loop goes on; the keyboard owes nothing.
FairSpec == Spec /\ WF_vars(Int4) /\ WF_vars(Tick) /\ WF_vars(Task)

-----------------------------------------------------------------------------
(* Properties *)

\* The range of every variable: ps2keyboard_count never wraps below zero.
TypeOK ==
  /\ count \in 0..Idle /\ timeout \in 0..Timeout
  /\ dir \in {"send", "recv"}
  /\ clk \in BOOLEAN /\ dat \in BOOLEAN /\ good \in BOOLEAN
  /\ cmd \in {"none", "led", "reset"} /\ stage \in 0..4
  /\ pc \in {"loop", "delay", "pull", "task", "rel", "relDat", "relDir", "relClk"}
  /\ intf \in 0..Other
  /\ kb \in {"idle", "sends", "listens"} /\ bit \in 0..Bits
  /\ byte \in {"FA", "AA", "code"}
  /\ heard \in BOOLEAN /\ clean \in BOOLEAN
  /\ out \in {"none", "code", "clear"}

Releasing == pc \in {"rel", "relDat", "relDir", "relClk"}

\* A byte that waits for the task is protected by the held clock, and the clock
\* is held for nothing else but a send.  Between two bytes the link receives.
ClockHolds ==
  /\ count = 0 => clk
  /\ clk => count = 0 \/ dir = "send" \/ Releasing
  /\ pc = "loop" /\ count = Idle => ~clk /\ dir = "recv"

\* A send is under way only for a command that has gone on to wait for its
\* answer, and no command is left without a stage.
StagesAgree ==
  /\ (cmd = "none") <=> (stage = 0)
  /\ dir = "send" /\ pc \in {"loop", "task"} => WaitsFA

\* When the task takes a byte for sent whose send began on a free line, the
\* keyboard has heard all its bits.
SentWhole == count = 0 /\ dir = "send" /\ clean => heard

\* The edges that INT4 has not counted yet.
Pending == IF intf = 0 THEN 0 ELSE 1

\* Where a hold or a release is under way, INT4 can not have come far.
FewEdges ==
  pc \in {"delay", "pull", "relDat", "relDir", "relClk"} =>
    count <= Idle /\ Idle - count + Pending <= DelayEdges

\* Direction and counter: a send is under way exactly between Pull and
\* Release, and a byte that is received never has one bit left.
DirectionAgrees ==
  /\ pc \in {"pull", "relDat", "relDir"} => dir = "send"
  /\ pc \in {"delay", "relClk"} => dir = "recv"
  /\ dir = "send" /\ pc = "loop" => count < Idle
  /\ dir = "send" /\ pc = "task" => count < Idle \/ intf # 0
  /\ dir = "recv" => count # 1
  /\ count = 0 => intf = 0

\* The task is about to send only what is to be sent.
SendsNext == pc \in {"delay", "pull"} => ToSend

\* How far a clean send has come, on both sides of the wire.
BitsAgree ==
  /\ kb # "idle" => bit < Bits
  /\ dir = "send" /\ clean /\ pc \in {"loop", "task", "rel"} =>
       /\ kb # "sends"
       /\ kb = "listens" => ~heard /\ bit + count = Bits + Pending
       /\ kb = "idle" => \/ heard /\ count = Pending
                         \/ ~heard /\ count = Bits /\ intf = 0 /\ dat
                         \/ ~heard /\ count = Idle /\ intf # 0

\* The inductive invariant.
LinkInv ==
  TypeOK /\ ClockHolds /\ StagesAgree /\ FewEdges /\ DirectionAgrees /\ SendsNext
  /\ BitsAgree

\* Whatever the keyboard does, or if it is unplugged, the link becomes free.
Recovers == count # Idle ~> count = Idle /\ ~clk
=============================================================================
