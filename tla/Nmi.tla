-------------------------------- MODULE Nmi --------------------------------
(***************************************************************************)
(* Entry to and return from the NMI monitor (znmi.v, zbreak.v).  A request  *)
(* waits for the next frame interrupt, a breakpoint does not; the FPGA      *)
(* pulls NMI_N down, puts a NOP under the opcode at 0066 and then maps the  *)
(* last page of RAM to 0000-3FFF, where the monitor goes on.  The monitor   *)
(* leaves by OUT (#BE),A and RETN: the page goes at the second refresh      *)
(* behind the OUT, when RETN has been fetched.                              *)
(*                                                                         *)
(* An opcode takes the Z80 three steps: the fetch (M1 low), the refresh     *)
(* behind it, and the rest of the instruction.  Whatever happens in a       *)
(* single clock of the FPGA is one step.  The program itself does not       *)
(* execute the address 0066.                                                *)
(***************************************************************************)
EXTENDS Naturals

VARIABLES
  \* znmi.v
  pending,     \* pending_nmi
  entering,    \* in_nmi_2
  inNmi,       \* in_nmi: page #FF at 0000-3FFF
  clrCount,    \* clr_count
  pendingClr,  \* pending_clr
  lastAt0066,  \* last_m1_0066
  pulse,       \* gen_nmi, NMI_N is low: the Z80's steps that may last, 0 if it is high
  \* the Z80
  latch,       \* NMI_N has fallen: "none", "young" (perhaps too late for the
               \* instruction in progress) or "seen"
  place,       \* where the opcode comes from: the program, 0066 or the monitor
  phase,       \* "fetch", "refresh" or "rest" comes next
  depth,       \* monitors entered and not left
  \* history
  wasReset,
  wroteBE,     \* an NMI was acknowledged right behind a write of the program to #BE
  twice        \* NMI_N fell again while the Z80 was in the acknowledge or at 0066

nmiVars == <<pending, entering, inNmi, pulse>>
clrVars == <<clrCount, pendingClr>>
z80Vars == <<place, phase, depth>>
history == <<wasReset, wroteBE, twice>>
vars == <<nmiVars, clrVars, lastAt0066, latch, z80Vars, history>>

Places == {"prog", "ack", "nmi", "mon", "out", "ed", "45"}

-----------------------------------------------------------------------------
(* The FPGA *)

\* Mutant: only while the program runs in ROM (a condition the code once had).
StartInRom(now) == now /\ ~inNmi /\ lastAt0066

\* Mutant: an NMI within the monitor.
StartAlways(now) == now

\* nmi_start, where it takes effect.
Starts(now) == now /\ ~inNmi

\* An opcode takes four clocks or more, as many as the pulse.
PulseSteps == 3

\* NMI_N falls when it was high; the Z80 remembers one edge until it takes it.
Edge(now) == Starts(now) /\ pulse = 0 /\ latch = "none"

\* NMI_N is pulled down, or held down for longer; its edge is what the Z80 sees.
\* A start in the very clock that ends the entry goes before.
Pull(now, stays, low) ==
  /\ entering' = (stays \/ Starts(now))
  /\ pulse' = IF Starts(now) THEN PulseSteps ELSE low
  /\ latch' = IF Edge(now) THEN "young" ELSE latch
  /\ twice' = (twice \/ (Edge(now) /\ place \in {"ack", "nmi"}))

\* Mutant: the counter runs on.
PulseRunsOn == pulse - 1

PulseWanes == IF pulse = 0 THEN 0 ELSE pulse - 1

\* A request ends (set_nmi falls), or a frame interrupt starts, or both in the same
\* clock: then the request is lost.  The interrupt may fall into an entry, and start
\* it again.
Frame(fall, int) ==
  /\ fall \/ int
  /\ pending' = (~int /\ (pending \/ fall))
  /\ Pull(int /\ pending, entering, pulse)
  /\ UNCHANGED <<inNmi, clrVars, lastAt0066, z80Vars, wasReset, wroteBE>>

PulseEnd ==
  /\ pulse > 0
  /\ pulse' = 0
  /\ UNCHANGED <<pending, entering, inNmi, clrVars, lastAt0066, latch, z80Vars, history>>

\* Mutant: the page goes at the first refresh.
CountFromTwo ==
  /\ clrCount' = 2
  /\ pendingClr' = TRUE

\* clr_nmi, the write to port #BE.
ClrNmi ==
  /\ clrCount' = 3
  /\ pendingClr' = TRUE

-----------------------------------------------------------------------------
(* The Z80 *)

\* Every opcode comes from where it belongs: the monitor's, to the last byte of its
\* RETN, from the page of the NMI state (or, at 0066, from the bus), the program's
\* never; and what an NMI interrupts is one or the other.
Paged ==
  phase = "fetch" =>
    /\ place \in {"mon", "out", "ed", "45"} => inNmi
    /\ place = "nmi" => entering \/ inNmi
    /\ place = "prog" => ~inNmi
    /\ place = "ack" => (inNmi <=> depth > 0)

\* The breakpoint is compared with the address of every M1, also of the one by
\* which the Z80 acknowledges an NMI and of the one at 0066.  Where the opcode
\* comes from a wrong place, nothing is known of what the Z80 does.
Fetch(hit) ==
  /\ phase = "fetch" /\ phase' = "refresh"
  /\ Paged
  /\ lastAt0066' = (place = "nmi")
  /\ Pull(hit, entering, PulseWanes)
  /\ UNCHANGED <<pending, inNmi, clrVars, place, depth, wasReset, wroteBE>>

\* The page is mapped behind the opcode at 0066, and goes one clock after the
\* second refresh behind clr_nmi.  A frame interrupt may start in the same clock.
Refresh(int) ==
  LET count == IF clrCount >= 2 THEN clrCount - 1 ELSE clrCount
  IN  /\ phase = "refresh" /\ phase' = "rest"
      /\ clrCount' = count
      /\ pendingClr' = (pendingClr /\ count >= 2)
      /\ pending' = (pending /\ ~int)
      /\ Pull(int /\ pending, entering /\ ~lastAt0066, PulseWanes)
      /\ inNmi' = IF pendingClr /\ count < 2 THEN FALSE
                  ELSE inNmi \/ (lastAt0066 /\ entering)
      /\ UNCHANGED <<lastAt0066, place, depth, wasReset, wroteBE>>

\* The opcode that follows, were there no NMI.
Follows(next) ==
  CASE place = "prog" -> next = "prog"
    [] place = "ack"  -> next = "nmi"
    [] place = "nmi"  -> next = "mon"
    [] place = "mon"  -> next \in {"mon", "out"}
    [] place = "out"  -> next = "ed"
    [] place = "ed"   -> next = "45"
    [] place = "45"   -> next = IF depth <= 1 THEN "prog" ELSE "mon"

\* Behind an instruction the Z80 takes the NMI it has seen.
Rest(next) ==
  /\ phase = "rest" /\ phase' = "fetch"
  /\ Follows(next)
  /\ depth' = CASE place = "ack" -> depth + 1
                [] place = "45" -> depth - 1
                [] OTHER -> depth
  /\ \/ /\ latch # "none" /\ place \notin {"ack", "ed"}
        /\ place' = "ack" /\ latch' = "none"
     \/ /\ latch # "seen" \/ place \in {"ack", "ed"}
        /\ place' = next
        /\ latch' = IF latch = "young" THEN "seen" ELSE latch
  /\ \/ place = "out" /\ ClrNmi
     \/ place = "prog" /\ ClrNmi
     \/ place # "out" /\ UNCHANGED clrVars
  /\ pulse' = PulseWanes
  /\ wroteBE' = (wroteBE \/ (place' = "ack" /\ pendingClr'))
  /\ UNCHANGED <<pending, entering, inNmi, lastAt0066, wasReset, twice>>

\* rst_n of the FPGA is the Z80's reset; it does not reach clr_count.
Reset ==
  /\ pending' = FALSE /\ entering' = FALSE /\ inNmi' = FALSE /\ pulse' = 0
  /\ latch' = "none" /\ place' = "prog" /\ phase' = "fetch" /\ depth' = 0
  /\ wasReset' = TRUE
  /\ UNCHANGED <<clrVars, lastAt0066, wroteBE, twice>>

Init ==
  /\ pending = FALSE /\ entering = FALSE /\ inNmi = FALSE /\ pulse = 0
  /\ clrCount = 0 /\ pendingClr = FALSE /\ lastAt0066 = FALSE
  /\ latch = "none" /\ place = "prog" /\ phase = "fetch" /\ depth = 0
  /\ wasReset = FALSE /\ wroteBE = FALSE /\ twice = FALSE

Int == \E fall \in BOOLEAN : Frame(fall, TRUE)
Z80 == \/ \E hit \in BOOLEAN : Fetch(hit)
       \/ \E int \in BOOLEAN : Refresh(int)
       \/ \E next \in Places : Rest(next)

Next == Int \/ Frame(TRUE, FALSE) \/ PulseEnd \/ Z80 \/ Reset

Spec == Init /\ [][Next]_vars

\* Frames come and the Z80 runs on its clock.
FairSpec == Spec /\ WF_vars(Int) /\ WF_vars(Z80)

-----------------------------------------------------------------------------
(* Properties *)

\* The range of every variable.
TypeOK ==
  /\ {pending, entering, inNmi, pendingClr, lastAt0066} \subseteq BOOLEAN
  /\ history \in BOOLEAN \X BOOLEAN \X BOOLEAN
  /\ pulse \in 0..PulseSteps
  /\ latch \in {"none", "young", "seen"}
  /\ clrCount \in 0..3
  /\ place \in Places /\ phase \in {"fetch", "refresh", "rest"} /\ depth \in 0..2

\* The page is there for the whole monitor and for nothing else, whatever is
\* requested, hit, written or reset meanwhile, as long as no NMI is acknowledged
\* right behind a write to #BE and NMI_N does not fall again in the acknowledge or at
\* 0066.
MonitorPaged == wroteBE \/ twice \/ Paged

\* A monitor is not interrupted by another NMI, whose return it would not survive,
\* as long as the same holds.
OneMonitor == depth > 0 => place # "ack" \/ wroteBE \/ twice

\* A request that has reached the FPGA outside the NMI state leads to the monitor.
RequestServed ==
  (pending /\ ~inNmi) ~> (inNmi \/ wasReset \/ wroteBE \/ twice)
=============================================================================
