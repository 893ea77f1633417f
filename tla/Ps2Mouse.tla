------------------------------ MODULE Ps2Mouse ------------------------------
(***************************************************************************)
(* The mouse side of ps2.c above the bits of a frame: the commands by which *)
(* ps2mouse_task starts a mouse, sets its resolution and enables it, the    *)
(* answers it counts, and the packets of three or four bytes it then takes  *)
(* apart.  One counter, ps2mouse_resp_count, stands for the answers of a    *)
(* command and for the bytes of a packet.                                   *)
(*                                                                         *)
(* A byte is sent or received in one step, or stalls until the timeout;     *)
(* Ps2Link has the frames of the same link.                                 *)
(***************************************************************************)
EXTENDS Integers, Sequences, Functions

CONSTANT MaxFaults   \* bound: faults of the line in a behaviour

ASSUME MouseAssumption == MaxFaults \in Nat

VARIABLES
  \* the AVR
  initstep,  \* ps2mouse_initstep
  resp,      \* ps2mouse_resp_count
  cmd,       \* ps2mouse_cmd, "none" for 0
  cmdFlag,   \* FLAG_EX_PS2MOUSE_CMD
  type,      \* FLAG_PS2MOUSE_TYPE: packets of four bytes
  both,      \* zx_mouse_button has the left and the right button down
  \* the line
  link,      \* "idle", "send", "sent", "got"; "stallS", "stallR" until the timeout
  byte,      \* the byte on its way
  \* the mouse
  wheel,     \* it knows packets of four bytes
  knock,     \* how many of the rates 200, 100, 80 it has been set to in turn
  on,        \* it has been enabled
  arg,       \* the command whose argument it waits for
  out,       \* what it has to send
  \* history
  faults,
  spoilt,    \* a command or an answer has been damaged, not only a packet
  replaced   \* a key has replaced the ENABLE in hand, whose answer was still to come

avr == <<initstep, resp, cmd, cmdFlag, type, both>>
mouse == <<wheel, knock, on, arg, out>>
vars == <<avr, link, byte, mouse, faults, spoilt, replaced>>

-----------------------------------------------------------------------------
(* ps2mouse_task *)

InitSequence == <<"FF", "FF", "FF", "F3", "C8", "F3", "64", "F3", "50", "F2", "E6", "F3", "64", "F4">>

Code == IF initstep = Len(InitSequence) THEN "end" ELSE InitSequence[initstep + 1]

Send(b, r) ==
  /\ link = "idle" /\ link' = "send"
  /\ byte' = b
  /\ resp' = r

\* The next command of the initialisation, a command, or the argument of one.
TaskSend ==
  /\ \/ Code # "end" /\ resp = 0 /\ Send(Code, 1) /\ UNCHANGED cmdFlag
     \/ Code = "end" /\ cmd # "none" /\ resp = 0 /\ Send(cmd, 1) /\ cmdFlag' = TRUE
     \/ Code = "end" /\ cmd = "E8" /\ cmdFlag /\ resp = 2 /\ Send("res", 3) /\ UNCHANGED cmdFlag
  /\ UNCHANGED <<initstep, cmd, type, both, mouse, faults, spoilt, replaced>>

\* Mutant: the initialisation is not begun again.
KeepStep == initstep

\* Where an error puts the initialisation; the counter of answers stays.
StepAfterError == 0

\* A mouse that does not take the first byte is not there: zx_mouse_reset(0).
TaskTimeout ==
  /\ link \in {"stallS", "stallR"} /\ link' = "idle"
  /\ IF link = "stallS" /\ initstep = 0
     THEN both' = FALSE /\ UNCHANGED initstep
     ELSE initstep' = StepAfterError /\ UNCHANGED both
  /\ byte' = "none"
  /\ UNCHANGED <<resp, cmd, cmdFlag, type, mouse, faults, spoilt, replaced>>

\* Mutant: the count of answers is left where it was.
AbandonHalf ==
  /\ resp' = resp /\ cmdFlag' = FALSE
  /\ IF cmdFlag THEN cmd' = "none" /\ UNCHANGED initstep
     ELSE initstep' = 0 /\ UNCHANGED cmd

\* The answer is wrong: the command is dropped, or the initialisation starts again.
Abandon ==
  /\ resp' = 0 /\ cmdFlag' = FALSE
  /\ IF cmdFlag THEN cmd' = "none" /\ UNCHANGED initstep
     ELSE initstep' = 0 /\ UNCHANGED cmd

Complete(next) ==
  /\ resp' = 0 /\ cmdFlag' = FALSE
  /\ IF cmdFlag THEN cmd' = next /\ UNCHANGED initstep
     ELSE initstep' = initstep + 1 /\ UNCHANGED cmd

Counts(r) == resp' = r /\ UNCHANGED <<initstep, cmd, cmdFlag>>

\* Mutant: compared before the byte is counted.
PacketAndOne == IF type THEN 5 ELSE 4

PacketSize == IF type THEN 4 ELSE 3

\* The first byte has the buttons.
InPacket ==
  /\ Counts(IF resp + 1 = PacketSize THEN 0 ELSE resp + 1)
  /\ both' \in (IF resp = 0 THEN BOOLEAN ELSE {both})
  /\ UNCHANGED type

\* Acknowledge, result of the test, type.
InReset ==
  /\ UNCHANGED type
  /\ IF resp = 1 /\ byte # "FA" THEN Abandon
     ELSE IF resp + 1 >= 4 THEN Complete("none") ELSE Counts(resp + 1)

InGetType ==
  IF resp = 1
  THEN /\ UNCHANGED type
       /\ IF byte # "FA" THEN Abandon ELSE Counts(2)
  ELSE Complete("none") /\ type' = (byte # "00")

InSetResolution ==
  /\ UNCHANGED type
  /\ IF byte # "FA" THEN Abandon
     ELSE IF resp >= 3 THEN Complete("F4") ELSE Counts(resp + 1)

\* A command by itself is over with any answer.
InOther ==
  /\ UNCHANGED type
  /\ IF ~cmdFlag /\ resp = 1 /\ byte # "FA" THEN Abandon ELSE Complete("none")

TaskReceive ==
  /\ link = "got" /\ link' = "idle" /\ byte' = "none"
  /\ LET current == IF cmdFlag THEN cmd ELSE Code
     IN  CASE current = "end" -> InPacket
           [] current = "FF"  -> InReset /\ UNCHANGED both
           [] current = "F2"  -> InGetType /\ UNCHANGED both
           [] current = "E8"  -> InSetResolution /\ UNCHANGED both
           [] OTHER           -> InOther /\ UNCHANGED both
  /\ UNCHANGED <<mouse, faults, spoilt, replaced>>

TaskSent ==
  /\ link = "sent" /\ link' = "idle" /\ byte' = "none"
  /\ UNCHANGED <<avr, mouse, faults, spoilt, replaced>>

\* ps2mouse_set_resolution: a key of the keypad pressed with both buttons held, at
\* any time.
SetResolution ==
  /\ both
  /\ cmd' = "E8"
  /\ replaced' = (replaced \/ (cmdFlag /\ cmd = "F4"))
  /\ UNCHANGED <<initstep, resp, cmdFlag, type, both, link, byte, mouse, faults, spoilt>>

-----------------------------------------------------------------------------
(* The mouse *)

Packet(n) == [i \in 1..n |-> <<"p1", "p2", "p3", "p4">>[i]]
FourBytes == wheel /\ knock = 3

Rates == <<"C8", "64", "50">>
Knocks(b) == IF knock = 3 THEN 3 ELSE IF b = Rates[knock + 1] THEN knock + 1
             ELSE IF b = Rates[1] THEN 1 ELSE 0

\* The mouse has heard a byte; what it was about to send is dropped.  A command in
\* place of an argument is taken for what it is; nothing else is asked for again.
Hears ==
  /\ link = "send" /\ link' = "sent"
  /\ out' = CASE byte = "FF" -> <<"FA", "AA", "00">>
              [] byte = "F2" -> <<"FA", IF FourBytes THEN "03" ELSE "00">>
              [] (arg = "none" /\ byte \in {"C8", "64", "50", "res"}) -> <<"FE">>
              [] OTHER -> <<"FA">>
  /\ on' = (byte = "F4" \/ (on /\ byte # "FF"))
  /\ knock' = IF byte = "FF" THEN 0 ELSE IF arg = "F3" /\ byte \in Range(Rates) THEN Knocks(byte) ELSE knock
  /\ arg' = IF byte \in {"F3", "E8"} THEN byte ELSE "none"
  /\ UNCHANGED <<avr, byte, wheel, faults, spoilt, replaced>>

IsPacket(b) == b \in {"p1", "p2", "p3", "p4"}

Sends ==
  /\ link = "idle" /\ out # <<>>
  /\ link' = "got" /\ byte' = Head(out) /\ out' = Tail(out)
  /\ UNCHANGED <<avr, wheel, knock, on, arg, faults, spoilt, replaced>>

Moves ==
  /\ on /\ out = <<>> /\ arg = "none" /\ link = "idle"
  /\ out' = Packet(IF FourBytes THEN 4 ELSE 3)
  /\ UNCHANGED <<avr, link, byte, wheel, knock, on, arg, faults, spoilt, replaced>>

-----------------------------------------------------------------------------
(* Faults *)

\* The mouse asks for a byte again instead of taking it.
AsksAgain ==
  /\ link = "send" /\ link' = "sent"
  /\ out' = <<"FE">>
  /\ faults' = faults + 1
  /\ UNCHANGED <<avr, byte, wheel, knock, on, arg, spoilt, replaced>>

\* An edge of the clock is lost: the frame is completed by the first edge of the
\* next byte, which the mouse then repeats, or by the timeout if there is none.
\* What does not decode is 00.
EdgeLost ==
  /\ link = "idle" /\ out # <<>>
  /\ link' \in (IF Len(out) > 1 THEN {"got"} ELSE IF on THEN {"got", "stallR"} ELSE {"stallR"})
  /\ byte' \in {"00", "junk"} /\ out' = Tail(out)
  /\ faults' = faults + 1
  /\ spoilt' = (spoilt \/ ~IsPacket(Head(out)))
  /\ UNCHANGED <<avr, wheel, knock, on, arg, replaced>>

\* The mouse does not fetch a byte in time.
SendStalls ==
  /\ link = "send" /\ link' = "stallS"
  /\ faults' = faults + 1
  /\ spoilt' = TRUE
  /\ UNCHANGED <<avr, byte, mouse, replaced>>

Fault == faults < MaxFaults /\ (AsksAgain \/ EdgeLost \/ SendStalls)

-----------------------------------------------------------------------------

Init ==
  /\ initstep = 0 /\ resp = 0 /\ cmd = "E8" /\ cmdFlag = FALSE /\ type = FALSE /\ both = FALSE
  /\ link = "idle" /\ byte = "none"
  /\ wheel \in BOOLEAN
  /\ knock = 0 /\ on = FALSE /\ arg = "none" /\ out = <<>>
  /\ faults = 0 /\ spoilt = FALSE /\ replaced = FALSE

Task == TaskSend \/ TaskTimeout \/ TaskReceive \/ TaskSent

Next == Task \/ SetResolution \/ Hears \/ Sends \/ Moves \/ Fault

Spec == Init /\ [][Next]_vars

\* The main loop runs, also between two packets (10 ms at 100 a second), the mouse
\* answers, and is moved again.
FairSpec == Spec /\ WF_vars(Task) /\ SF_vars(TaskSend) /\ WF_vars(Hears) /\ WF_vars(Sends) /\ WF_vars(Moves)

-----------------------------------------------------------------------------
(* Properties *)

\* The range of every variable.
TypeOK ==
  /\ initstep \in 0..Len(InitSequence) /\ resp \in 0..3
  /\ cmd \in {"none", "E8", "F4"} /\ {cmdFlag, type, both, wheel, on, spoilt, replaced} \subseteq BOOLEAN
  /\ link \in {"idle", "send", "sent", "got", "stallS", "stallR"}
  /\ knock \in 0..3 /\ arg \in {"none", "F3", "E8"} /\ Len(out) <= 4
  /\ faults \in 0..MaxFaults

Working == Code = "end" /\ on /\ ~cmdFlag

\* A byte of a packet is taken for what it is: buttons for buttons, movement for
\* movement, also behind a lost byte, a command between packets and a new
\* initialisation, and in packets of the size the mouse sends, until a command or an
\* answer is damaged or a key replaces the ENABLE in hand.
PacketsInStep ==
  ~spoilt /\ ~replaced /\ link = "got" /\ Code = "end" /\ ~cmdFlag =>
    /\ IsPacket(byte) => byte = <<"p1", "p2", "p3", "p4">>[resp + 1]
    /\ type = FourBytes

\* A mouse that is moved comes to work, again after every fault.  All that can keep
\* it from that is a byte lost while it is not enabled, or while it waits for an
\* argument: neither side has the word.
Silent == (~on \/ arg # "none") /\ out = <<>> /\ link = "idle" /\ resp # 0
Ready == []<>Working \/ (<>spoilt /\ <>[]Silent)

\* ps2.c 581, behind an error of the line: "re-init mouse".
Failed == link = "stallR" \/ (link = "stallS" /\ initstep # 0)
ReInit == Failed ~> (link = "send" /\ byte = "FF")
=============================================================================
