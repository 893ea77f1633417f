----------------------------- MODULE ZxKeyboard -----------------------------
(***************************************************************************)
(* The ZX keyboard: keys of the PS/2 keyboard (to_zx, update_keys, the     *)
(* FIFO) and of the original matrix (the timer interrupt) become a bitmap  *)
(* in the AVR, which zx_task sends to the FPGA one byte per pass of the    *)
(* main loop and then strobes into the port the Z80 reads.                 *)
(*                                                                         *)
(* A pass is the PS/2 task and then zx_task.  The timer interrupt comes    *)
(* between any two steps, also between the copies of two matrix rows.  A   *)
(* byte of the bitmap is the set of the keys pressed in it.                *)
(***************************************************************************)
EXTENDS Naturals, Sequences, FiniteSets

CONSTANTS
  Keys,        \* ZX keys
  Shifts,      \* CS and SS
  Caps,        \* CS, which the matrix scan stretches
  Rows,        \* bytes of the bitmap: 5
  Row,         \* the byte of each key
  Scancodes,   \* keys of the PS/2 keyboard
  KbMap,       \* kbmap_get: one or two codes for each of them
  MatrixKeys,  \* keys wired on the original keyboard
  FifoLen,     \* entries the FIFO takes: 255
  ShiftPause,  \* SHIFT_PAUSE, in timer ticks: 8
  Chords,      \* whether the user only types chords of CS, one after another has gone
  Users        \* bound: keys pressed in a behaviour on the two keyboards, and
               \* whether PS/2 frames may time out in it

CLRKYS == "CLRKYS"
Press(k) == [key |-> k, to |-> "down"]
Release(k) == [key |-> k, to |-> "up"]
Clear == Release(CLRKYS)
Code == [key : Keys, to : {"down", "up"}] \cup {Clear}
Presses(code) == code.to = "down"

Bounds == [ps2 : Nat, matrix : Nat, errors : BOOLEAN]

ASSUME ZxKeyboardAssumption ==
  /\ CLRKYS \notin Keys /\ IsFiniteSet(Keys)
  /\ Shifts \subseteq Keys /\ Caps \subseteq Keys /\ MatrixKeys \subseteq Keys
  /\ Rows \in Nat \ {0}
  /\ Row \in [Keys -> 0..Rows-1]
  /\ KbMap \in [Scancodes -> Seq(Keys \cup {CLRKYS})]
  /\ \A x \in Scancodes : Len(KbMap[x]) \in 1..2
  /\ FifoLen \in Nat \ {0} /\ ShiftPause \in Nat \ {0}
  /\ Chords \in BOOLEAN
  /\ Users \subseteq Bounds

VARIABLES
  down,       \* PS/2 keys held
  pins,       \* matrix keys held
  strokes,    \* what is left of the bounds
  counters,   \* zx_counters
  fifo,       \* zx_fifo
  zxmap,      \* zx_map
  real,       \* zx_realkbd[0..4]
  scanned,    \* zx_realkbd[5..9]
  copyReq,    \* zx_realkbd[10]
  scankbd,    \* the matrix row the timer reads next
  csPrev,     \* cskey: CS was down in the last scan
  prev,       \* prev_code
  pause,      \* shift_pause
  taskState,  \* task_state
  wasData,    \* was_data
  copied,     \* rows copied so far
  pc,         \* "ps2", "zx" or "copy"
  kbdReg,     \* slavespi.v kbd_reg: the last Rows bytes
  z80keys,    \* zkbdmus.v kbd: what the Z80 reads
  \* history
  lost,       \* why codes and bitmap may disagree with the counters: a code
              \* was dropped ("full") or the keyboard cleared under one
  forgot      \* counters were cleared while keys were held

userVars == <<down, pins, strokes>>
ps2Vars == <<counters, fifo>>
scanVars == <<scanned, copyReq, scankbd, csPrev>>
drainVars == <<zxmap, prev, wasData>>
sendVars == <<kbdReg, z80keys>>
history == <<lost, forgot>>
vars == <<down, pins, strokes, counters, fifo, zxmap, real, scanned, copyReq,
          scankbd, csPrev, prev, pause, taskState, wasData, copied, pc,
          kbdReg, z80keys, lost, forgot>>

NoPrev == Release(CLRKYS)   \* KEY_V+1
NoCounts == [k \in Keys |-> 0]
InRow(S, r) == {k \in S : Row[k] = r}

-----------------------------------------------------------------------------
(* The original keyboard *)

PressMatrix(S) ==
  /\ strokes.matrix >= Cardinality(S) /\ S \cap pins = {}
  /\ Chords => /\ Caps \cap MatrixKeys \subseteq pins \cup S
               /\ pins # {} \/ (scanned \cup real \cup z80keys = {})
  /\ pins' = pins \cup S
  /\ strokes' = [strokes EXCEPT !.matrix = @ - Cardinality(S)]
  /\ UNCHANGED <<down, ps2Vars, drainVars, real, scanVars, pause, taskState,
                 copied, pc, sendVars, history>>

\* The user lifts CS last, or together with the rest, and holds it for a scan.
ReleaseMatrix(S) ==
  /\ S \subseteq pins
  /\ S \cap Caps # {} => S = pins /\ S \cap Caps \subseteq csPrev
  /\ pins' = pins \ S
  /\ UNCHANGED <<down, strokes, ps2Vars, drainVars, real, scanVars, pause,
                 taskState, copied, pc, sendVars, history>>

\* Mutant: CS is not stretched.
NoStretch(S) == S

\* CS counts as down in the scan after its release as well.
Stretch(S) == IF scankbd = 0 THEN S \cup csPrev ELSE S

\* The timer interrupt: shift_pause, and one row of the matrix.  One pass of
\* the FIFO loop is shorter than a tick, so a tick there acts as one after it.
Tick ==
  /\ ~(pc = "zx" /\ wasData)
  /\ pause' = IF pause > 0 THEN pause - 1 ELSE 0
  /\ scanned' = (scanned \ InRow(Keys, scankbd)) \cup Stretch(InRow(pins, scankbd))
  /\ scankbd' = IF scankbd = 0 THEN Rows - 1 ELSE scankbd - 1
  /\ csPrev' = IF scankbd = 0 THEN pins \cap Caps ELSE csPrev
  /\ copyReq' = (copyReq \/ scankbd = 0)
  /\ UNCHANGED <<userVars, ps2Vars, drainVars, real, taskState, copied, pc,
                 sendVars, history>>

-----------------------------------------------------------------------------
(* The PS/2 task: at most one key or error in a pass *)

\* zx_fifo_put behind zx_fifo_isfull.
Put(s, code) ==
  IF Len(s.fifo) < FifoLen THEN [s EXCEPT !.fifo = Append(@, code)]
                           ELSE [s EXCEPT !.lost = @ \cup {"full"}]

\* Mutant: a release does not look whether the counter is zero.
CountUnchecked(n) == TRUE

Counted(n) == n > 0

\* Mutant: every release sends a code.
EveryUp(n) == TRUE

LastUp(n) == n = 0

\* update_keys, on the record of what it changes.
UpdateKeys(s, k, release) ==
  CASE k = CLRKYS /\ ~release -> Put([s EXCEPT !.counters = NoCounts], Clear)
    [] k # CLRKYS /\ release /\ Counted(s.counters[k]) ->
         LET t == [s EXCEPT !.counters[k] = @ - 1]
         IN IF LastUp(t.counters[k]) THEN Put(t, Release(k)) ELSE t
    [] k # CLRKYS /\ ~release ->
         LET t == [s EXCEPT !.counters[k] = @ + 1]
         IN IF s.counters[k] = 0 THEN Put(t, Press(k)) ELSE t
    [] OTHER -> s

\* The end of to_zx: both codes of the scancode, in order.
ToZx(x, release) ==
  LET s0 == [counters |-> counters, fifo |-> fifo, lost |-> lost]
      s1 == UpdateKeys(s0, KbMap[x][1], release)
      s2 == IF Len(KbMap[x]) = 2 THEN UpdateKeys(s1, KbMap[x][2], release)
                                 ELSE s1
  IN /\ counters' = s2.counters
     /\ fifo' = s2.fifo
     /\ lost' = s2.lost

Forgets(x) == \E i \in DOMAIN KbMap[x] : KbMap[x][i] = CLRKYS

Ps2Press(x) ==
  /\ pc = "ps2" /\ strokes.ps2 > 0 /\ x \notin down
  /\ ToZx(x, FALSE)
  /\ down' = down \cup {x}
  /\ strokes' = [strokes EXCEPT !.ps2 = @ - 1]
  /\ forgot' = IF Forgets(x) THEN down # {} ELSE forgot
  /\ pc' = "zx"
  /\ UNCHANGED <<pins, drainVars, real, scanVars, pause, taskState, copied, sendVars>>

Ps2Release(x) ==
  /\ pc = "ps2" /\ x \in down
  /\ ToZx(x, TRUE)
  /\ down' = down \ {x}
  /\ forgot' = (forgot /\ down' # {})
  /\ pc' = "zx"
  /\ UNCHANGED <<pins, strokes, drainVars, real, scanVars, pause, taskState, copied,
                 sendVars>>

\* zx_clr_kb.
ClrKb ==
  /\ zxmap' = {} /\ real' = {} /\ scanned' = {}
  /\ copyReq' = TRUE
  /\ counters' = NoCounts

\* A frame timed out: "reset buffer".
Ps2Error ==
  /\ pc = "ps2" /\ strokes.errors
  /\ ClrKb
  /\ lost' = IF fifo = <<>> /\ zxmap = {} /\ real = {} THEN lost
             ELSE lost \cup {"cleared"}
  /\ forgot' = (forgot \/ down # {})
  /\ pc' = "zx"
  /\ UNCHANGED <<userVars, fifo, scankbd, csPrev, prev, wasData, pause,
                 taskState, copied, sendVars>>

Ps2Idle ==
  /\ pc = "ps2"
  /\ pc' = "zx"
  /\ UNCHANGED <<userVars, ps2Vars, drainVars, real, scanVars, pause, taskState,
                 copied, sendVars, history>>

-----------------------------------------------------------------------------
(* zx_task, task_state = 0: the FIFO, then the matrix *)

\* Mutant: no pause.
NeverHold(code) == FALSE

\* Inside the pause, a press of another key behind the press of a shift waits.
\* (The test meant for releases asks prev_code to be a shift and not to be
\* one: it never holds.)
HoldBack(code) ==
  /\ pause > 0
  /\ Presses(prev) /\ Presses(code)
  /\ prev.key \in Shifts /\ code.key \notin Shifts

Draining == pc = "zx" /\ taskState = 0

ApplyCode ==
  /\ Draining /\ fifo # <<>>
  /\ LET code == Head(fifo)
     IN /\ code # Clear /\ ~HoldBack(code)
        /\ zxmap' = IF Presses(code) THEN zxmap \cup {code.key} ELSE zxmap \ {code.key}
        /\ prev' = code
  /\ fifo' = Tail(fifo)
  /\ pause' = ShiftPause
  /\ wasData' = TRUE
  /\ UNCHANGED <<userVars, counters, real, scanVars, taskState, copied, pc,
                 sendVars, history>>

\* CLRKYS clears the keyboard and is sent at once.
ApplyClear ==
  /\ Draining /\ fifo # <<>> /\ Head(fifo) = Clear
  /\ fifo' = Tail(fifo)
  /\ prev' = NoPrev
  /\ ClrKb
  /\ wasData' = TRUE
  /\ lost' = IF Tail(fifo) = <<>> THEN lost ELSE lost \cup {"cleared"}
  /\ forgot' = (forgot \/ (Tail(fifo) # <<>> /\ down # {}))
  /\ pc' = "copy"
  /\ UNCHANGED <<userVars, scankbd, csPrev, pause, taskState, copied, sendVars>>

StopDrain ==
  /\ Draining
  /\ fifo # <<>> => Head(fifo) # Clear /\ HoldBack(Head(fifo))
  /\ pc' = "copy"
  /\ UNCHANGED <<userVars, ps2Vars, drainVars, real, scanVars, pause, taskState,
                 copied, sendVars, history>>

\* One row of the last matrix scan; the interrupt may come before the next.
CopyRow ==
  /\ pc = "copy" /\ copied < Rows
  /\ copied = 0 => copyReq
  /\ LET row == InRow(scanned, copied)
     IN /\ real' = (real \ InRow(Keys, copied)) \cup row
        /\ wasData' = (wasData \/ row # InRow(real, copied))
  /\ copied' = copied + 1
  /\ UNCHANGED <<userVars, ps2Vars, zxmap, prev, scanVars, pause, taskState, pc,
                 sendVars, history>>

\* Mutant: one transfer step too few.
OneShort == Rows

FirstState == Rows + 1

EndTask ==
  /\ pc = "copy"
  /\ copied = Rows \/ (copied = 0 /\ ~copyReq)
  /\ copyReq' = FALSE
  /\ copied' = 0
  /\ taskState' = IF wasData THEN FirstState ELSE 0
  /\ wasData' = FALSE
  /\ pc' = "ps2"
  /\ UNCHANGED <<userVars, ps2Vars, zxmap, prev, real, scanned, scankbd, csPrev,
                 pause, sendVars, history>>

-----------------------------------------------------------------------------
(* zx_task, task_state > 0: one byte a pass, then the strobe *)

SendByte ==
  /\ pc = "zx" /\ taskState > 1
  /\ taskState' = taskState - 1
  /\ kbdReg' = [i \in 1..Rows |->
        IF i = Rows THEN InRow(zxmap \cup real, taskState - 2) ELSE kbdReg[i + 1]]
  /\ pc' = "ps2"
  /\ UNCHANGED <<userVars, ps2Vars, drainVars, real, scanVars, pause, copied,
                 z80keys, history>>

\* The byte in place i of the register is row Rows - i of the port.
Strobe ==
  /\ pc = "zx" /\ taskState = 1
  /\ taskState' = 0
  /\ z80keys' = {k \in Keys : k \in kbdReg[Rows - Row[k]]}
  /\ pc' = "ps2"
  /\ UNCHANGED <<userVars, ps2Vars, drainVars, real, scanVars, pause, copied,
                 kbdReg, history>>

-----------------------------------------------------------------------------
Init ==
  /\ down = {} /\ pins = {}
  /\ strokes \in Users
  /\ counters = NoCounts
  /\ fifo = <<>>
  /\ zxmap = {} /\ real = {} /\ scanned = {}
  /\ copyReq = TRUE
  /\ scankbd = 0
  /\ csPrev = {}
  /\ prev = NoPrev
  /\ pause = 0
  /\ taskState = 0
  /\ wasData = FALSE
  /\ copied = 0
  /\ pc = "ps2"
  /\ kbdReg = [i \in 1..Rows |-> {}]
  /\ z80keys = {}
  /\ lost = {} /\ forgot = FALSE

User ==
  \/ \E S \in SUBSET MatrixKeys \ {{}} : PressMatrix(S) \/ ReleaseMatrix(S)
  \/ \E x \in Scancodes : Ps2Press(x) \/ Ps2Release(x)
  \/ Ps2Error

ZxTask ==
  \/ ApplyCode \/ ApplyClear \/ StopDrain \/ CopyRow \/ EndTask
  \/ SendByte \/ Strobe

Next == User \/ Tick \/ Ps2Idle \/ ZxTask

Spec == Init /\ [][Next]_vars

\* The main loop and the timer go on; nobody has to press a key.
FairSpec == Spec /\ WF_vars(Ps2Idle \/ ZxTask) /\ WF_vars(Tick)

-----------------------------------------------------------------------------
(* Properties *)

\* The range of every variable; the FIFO never outgrows its ring, task_state
\* never its 0..6.
TypeOK ==
  /\ down \in SUBSET Scancodes
  /\ pins \in SUBSET MatrixKeys
  /\ strokes \in Bounds
  /\ counters \in [Keys -> Nat]
  /\ fifo \in Seq(Code) /\ Len(fifo) <= FifoLen
  /\ zxmap \in SUBSET Keys /\ real \in SUBSET Keys /\ scanned \in SUBSET Keys
  /\ copyReq \in BOOLEAN
  /\ scankbd \in 0..Rows-1
  /\ csPrev \in SUBSET Caps
  /\ prev \in Code
  /\ pause \in 0..ShiftPause
  /\ taskState \in 0..Rows+1
  /\ wasData \in BOOLEAN
  /\ copied \in 0..Rows
  /\ pc \in {"ps2", "zx", "copy"}
  /\ kbdReg \in [1..Rows -> SUBSET Keys]
  /\ z80keys \in SUBSET Keys
  /\ lost \in SUBSET {"full", "cleared"}
  /\ forgot \in BOOLEAN

Pressed == {k \in Keys : counters[k] > 0}

\* A code that decides whether k is down.
About(code, k) == code.key = k \/ code = Clear

\* The codes on their way tell what the bitmap does not show yet: the last
\* one about a key says what its counter says, and a key without one is in
\* the bitmap exactly if it is counted.
IsLast(f, i, k) ==
  About(f[i], k) /\ \A j \in i+1..Len(f) : ~About(f[j], k)

TellsOf(f, c, m) ==
  \A k \in Keys :
    /\ \A i \in 1..Len(f) : IsLast(f, i, k) => (Presses(f[i]) <=> c[k] > 0)
    /\ (\A i \in 1..Len(f) : ~About(f[i], k)) => (k \in m <=> c[k] > 0)

FifoTells == lost = {} => TellsOf(fifo, counters, zxmap)

\* During a transfer the register holds the rows of the bitmap sent so far,
\* none of them from another bitmap.
SentIsCurrent ==
  "cleared" \notin lost /\ taskState \in 1..Rows =>
    \A r \in taskState-1..Rows-1 :
      kbdReg[Rows - r + taskState - 1] = InRow(zxmap \cup real, r)

\* Between transfers the port shows the bitmap, unless a change is noted.
Shown == lost = {} /\ taskState = 0 /\ ~wasData => z80keys = zxmap \cup real

\* zx_task's own control.
TaskControl ==
  /\ pc = "copy" => taskState = 0
  /\ pc # "copy" => copied = 0
  /\ wasData => pc \in {"zx", "copy"} /\ taskState = 0
  /\ wasData /\ pc = "zx" => pause = ShiftPause

\* The last code applied shows in the bitmap.
PrevShows == lost = {} /\ Presses(prev) => prev.key \in zxmap

\* The inductive invariant.
KInv ==
  /\ TypeOK /\ TaskControl
  /\ FifoTells /\ SentIsCurrent /\ Shown /\ PrevShows

\* When nothing is on its way, the Z80 sees exactly the keys that are
\* counted or closed in the matrix.
AtRest == pc = "ps2" /\ fifo = <<>> /\ taskState = 0
RestShown == AtRest /\ lost = {} => z80keys = Pressed \cup real

\* A key is counted as often as the PS/2 keys held map to it, so at rest the
\* Z80 sees the keys of the PS/2 keys held, and no key once all are up.
Places(k) ==
  {p \in down \X {1, 2} : p[2] \in DOMAIN KbMap[p[1]] /\ KbMap[p[1]][p[2]] = k}

CountsHeld ==
  /\ lost = {} /\ ~forgot => \A k \in Keys : counters[k] = Cardinality(Places(k))
  /\ down = {} => Pressed = {}

\* Each strobe publishes one whole bitmap, though its bytes are sent in
\* different passes with key events and full FIFOs between them, as long as no
\* error has cleared the keyboard under a key: one within a frame publishes rows of
\* two bitmaps.
FrameWhole ==
  [][Strobe /\ "cleared" \notin lost => z80keys' = zxmap \cup real]_vars

\* A press of another key behind the press of a shift comes into the bitmap
\* only when the Z80 already reads the shift (zx.c 112..119).
ShiftSeenFirst ==
  [][ApplyCode /\ lost = {} /\ Presses(prev) /\ Presses(prev')
       /\ prev.key \in Shifts /\ prev'.key \notin Shifts
     => prev.key \in z80keys]_vars

\* CS and another key of the matrix, lifted together: the Z80 never sees the
\* key without CS on the way, as long as the PS/2 keyboard is not in use.
CapsLiftedLast ==
  [][\A c \in Caps, k \in MatrixKeys \ Caps :
       {c, k} \subseteq z80keys /\ c \notin z80keys' /\ zxmap = {} /\ lost = {}
       => k \notin z80keys']_vars

\* zx.c 36: "filter ZX keystrokes here to assure every is pressed and released
\* only once": a code changes the bitmap, as long as none was dropped or overtaken
\* by a clearing.
OncePerKey == [][ApplyCode /\ lost = {} => zxmap' # zxmap]_vars

\* ps2.c 271, zx.h 120: an error resets the keyboard's buffers.  At rest with
\* every key up, the Z80 sees none.
NoStuckKey == AtRest /\ down = {} /\ pins = {} /\ scanned = {} /\ ~copyReq => z80keys = {}

\* When the user's hands come to rest, the Z80 comes to see what they hold.
Wanted == {k \in Keys : Places(k) # {}} \cup pins
Settles ==
  <>[][~User]_vars => <>[](lost # {} \/ forgot \/ z80keys = Wanted)
=============================================================================
