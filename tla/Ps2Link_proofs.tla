--------------------------- MODULE Ps2Link_proofs ---------------------------
(***************************************************************************)
(* The invariant of Ps2Link, for frames of any length, any timeout, any    *)
(* number of edges before a send, with and without faults of the line.     *)
(***************************************************************************)
EXTENDS Ps2Link, TLAPS

USE DEF LinkInv

\* Nothing is under way at start-up.
LEMMA InitHolds == Init => LinkInv
<1> SUFFICES ASSUME Init PROVE LinkInv OBVIOUS
<1>1. TypeOK
  <2>1. /\ clk \in BOOLEAN /\ dat \in BOOLEAN /\ good \in BOOLEAN
        /\ heard \in BOOLEAN /\ clean \in BOOLEAN
    BY DEF Init
  <2> QED BY <2>1, Ps2LinkAssumption DEF Init, TypeOK, Idle, Other
<1>2. ClockHolds /\ StagesAgree
  BY Ps2LinkAssumption DEF Init, ClockHolds, StagesAgree, Idle
<1>3. FewEdges /\ DirectionAgrees /\ SendsNext /\ BitsAgree
  BY Ps2LinkAssumption
     DEF Init, FewEdges, DirectionAgrees, SendsNext, BitsAgree, Idle
<1> QED BY <1>1, <1>2, <1>3

\* INT4: one edge further on both sides, the clock held behind the last.
LEMMA Int4Keeps == ASSUME LinkInv, Int4 PROVE LinkInv'
<1>1. TypeOK'
  <2>1. count # 0 /\ (dir = "recv" => count # 1) BY DEF Int4, DirectionAgrees
  <2>2. count' \in 0..Idle
    BY <2>1, Ps2LinkAssumption DEF Int4, TypeOK, LastEdge, Dec, Idle
  <2>3. clk' \in BOOLEAN BY DEF Int4, TypeOK
  <2>4. dat' \in BOOLEAN BY DEF Int4, TypeOK
  <2>5. good' \in BOOLEAN BY DEF Int4, TypeOK
  <2> QED BY <2>2, <2>3, <2>4, <2>5, Ps2LinkAssumption
          DEF Int4, TypeOK, command, keyboard, history, Other, Idle
<1>2. ClockHolds'
  BY Ps2LinkAssumption DEF Int4, LastEdge, Dec, Idle, Other, wire, command,
    keyboard, history, TypeOK, ClockHolds, DirectionAgrees, FewEdges, Pending,
    Releasing
<1>3. StagesAgree'
  BY Ps2LinkAssumption DEF Int4, LastEdge, Dec, Idle, Other, wire, command,
    keyboard, history, TypeOK, StagesAgree, SendsNext, DirectionAgrees,
    ToSend, WaitsFA, WaitsAA
<1>4. FewEdges'
  BY Ps2LinkAssumption DEF Int4, LastEdge, Dec, Idle, Other, wire, command,
    keyboard, history, TypeOK, FewEdges, DirectionAgrees, Pending
<1>5. DirectionAgrees'
  BY Ps2LinkAssumption DEF Int4, LastEdge, Dec, Idle, Other, wire, command,
    keyboard, history, TypeOK, DirectionAgrees, FewEdges, Pending, ClockHolds,
    StagesAgree, WaitsFA, ToSend
<1>6. SendsNext'
  BY Ps2LinkAssumption DEF Int4, LastEdge, Dec, Idle, Other, wire, command,
    keyboard, history, SendsNext, ToSend, TypeOK
<1>7. BitsAgree'
  <2>1. count \in 1..Idle /\ bit \in 0..Bits /\ intf # 0 /\ intf' = 0
    BY Ps2LinkAssumption DEF Int4, DirectionAgrees, TypeOK, Idle
  <2>2. /\ dir' = dir /\ pc' = pc /\ kb' = kb /\ bit' = bit
        /\ (heard' <=> heard) /\ (clean' <=> clean)
    BY DEF Int4, keyboard, history
  <2>3. kb # "idle" => bit < Bits
    BY DEF BitsAgree
  <2>4. ASSUME dir = "send" PROVE count' = count - 1
    BY <2>1, <2>4 DEF Int4, LastEdge, Dec
  <2>5. ASSUME dir = "send", count = Idle PROVE dat'
    <3>1. dat' = TRUE BY <2>5 DEF Int4
    <3> QED BY <3>1
  <2>6. Pending = 1 /\ Pending' = 0
    BY <2>1 DEF Pending
  <2>7. ASSUME dir = "send", clean, pc \in {"loop", "task", "rel"}
        PROVE  /\ kb # "sends"
               /\ kb = "listens" => ~heard /\ bit + count' = Bits
               /\ kb = "idle" => \/ heard /\ count' = 0
                                 \/ ~heard /\ count' = Bits /\ dat'
    <3>1. /\ kb # "sends"
          /\ kb = "listens" => ~heard /\ bit + count = Bits + 1
          /\ kb = "idle" => \/ heard /\ count = 1
                            \/ ~heard /\ count = Idle
      BY <2>1, <2>6, <2>7 DEF BitsAgree
    <3>2. kb = "listens" => bit + count' = Bits
      BY <2>1, <2>4, <2>7, <3>1, Ps2LinkAssumption
    <3>3. count = 1 => count' = 0
      BY <2>4, <2>7
    <3>4. count = Idle => count' = Bits /\ dat'
      BY <2>4, <2>5, <2>7, Ps2LinkAssumption DEF Idle
    <3> QED BY <3>1, <3>2, <3>3, <3>4
  <2>8. Bits + 0 = Bits BY Ps2LinkAssumption
  <2> QED BY <2>1, <2>2, <2>3, <2>6, <2>7, <2>8 DEF BitsAgree
<1> QED BY <1>1, <1>2, <1>3, <1>4, <1>5, <1>6, <1>7

\* The timer.
LEMMA TickKeeps == ASSUME LinkInv, Tick PROVE LinkInv'
BY Ps2LinkAssumption DEF Tick, LetsGo, Idle, Other, wire, command, keyboard,
  history, TypeOK, ClockHolds, StagesAgree, FewEdges, DirectionAgrees,
  SendsNext, BitsAgree, Releasing, Pending, ToSend, WaitsFA, WaitsAA

\* A command is taken up.
LEMMA SendCmdKeeps == ASSUME LinkInv, SendCmd PROVE LinkInv'
BY Ps2LinkAssumption DEF SendCmd, CmdFree, At, Idle, Other, wire, command,
  keyboard, history, TypeOK, ClockHolds, StagesAgree, FewEdges,
  DirectionAgrees, SendsNext, BitsAgree, Releasing, Pending, ToSend, WaitsFA,
  WaitsAA

\* ps2keyboard_task, step by step.
LEMMA TaskStartKeeps == ASSUME LinkInv, TaskStart PROVE LinkInv'
BY Ps2LinkAssumption DEF TaskStart, At, Idle, Other, wire, command, keyboard,
  history, TypeOK, ClockHolds, StagesAgree, FewEdges, DirectionAgrees,
  SendsNext, BitsAgree, Releasing, Pending, ToSend, WaitsFA, WaitsAA

LEMMA SetDirectionKeeps == ASSUME LinkInv, SetDirection PROVE LinkInv'
BY Ps2LinkAssumption DEF SetDirection, At, Idle, Other, wire, command,
  keyboard, history, TypeOK, ClockHolds, StagesAgree, FewEdges,
  DirectionAgrees, SendsNext, BitsAgree, Releasing, Pending, ToSend, WaitsFA,
  WaitsAA

\* The send: both sides start again from nothing.
LEMMA PullKeeps == ASSUME LinkInv, Pull PROVE LinkInv'
<1>1. TypeOK'
  <2>1. ToSend BY DEF Pull, At, SendsNext
  <2>2. stage' \in 0..4 BY <2>1 DEF Pull, ToSend
  <2>3. intf' \in 0..Other BY Ps2LinkAssumption DEF Pull, Other
  <2> QED BY <2>2, <2>3, Ps2LinkAssumption DEF Pull, TypeOK
<1>2. ClockHolds'
  BY Ps2LinkAssumption DEF Pull, At, Idle, Other, wire, command, keyboard,
    history, TypeOK, ClockHolds, DirectionAgrees, FewEdges, Pending, Releasing
<1>3. StagesAgree'
  BY Ps2LinkAssumption DEF Pull, At, Idle, Other, wire, command, keyboard,
    history, TypeOK, StagesAgree, SendsNext, DirectionAgrees, ToSend, WaitsFA,
    WaitsAA
<1>4. FewEdges'
  BY Ps2LinkAssumption DEF Pull, At, Idle, Other, wire, command, keyboard,
    history, TypeOK, FewEdges, DirectionAgrees, Pending
<1>5. DirectionAgrees'
  BY Ps2LinkAssumption DEF Pull, At, Idle, Other, wire, command, keyboard,
    history, TypeOK, DirectionAgrees, FewEdges, Pending, ClockHolds,
    StagesAgree, WaitsFA, ToSend
<1>6. SendsNext'
  BY Ps2LinkAssumption DEF Pull, At, Idle, Other, wire, command, keyboard,
    history, SendsNext, ToSend, TypeOK
<1>7. BitsAgree'
  <2>1. kb' = "idle" /\ ~heard' /\ (clean' <=> (count = Idle)) /\ count' = count
    BY DEF Pull
  <2>2. count = Idle => intf' = Other BY Ps2LinkAssumption DEF Pull, Idle
  <2>3. Other # 0 BY Ps2LinkAssumption DEF Other
  <2>4. SUFFICES ASSUME clean' PROVE count' = Idle /\ intf' # 0
    BY <2>1 DEF BitsAgree
  <2> QED BY <2>1, <2>2, <2>3, <2>4
<1> QED BY <1>1, <1>2, <1>3, <1>4, <1>5, <1>6, <1>7

LEMMA TaskErrorKeeps == ASSUME LinkInv, TaskError PROVE LinkInv'
BY Ps2LinkAssumption DEF TaskError, At, TimedOut, Idle, Other, wire, command,
  keyboard, history, TypeOK, ClockHolds, StagesAgree, FewEdges,
  DirectionAgrees, SendsNext, BitsAgree, Releasing, Pending, ToSend, WaitsFA,
  WaitsAA

LEMMA TaskReturnsKeeps == ASSUME LinkInv, TaskReturns PROVE LinkInv'
BY Ps2LinkAssumption DEF TaskReturns, At, TimedOut, Idle, Other, wire,
  command, keyboard, history, TypeOK, ClockHolds, StagesAgree, FewEdges,
  DirectionAgrees, SendsNext, BitsAgree, Releasing, Pending, ToSend, WaitsFA,
  WaitsAA

LEMMA TaskReceiveKeeps == ASSUME LinkInv, TaskReceive PROVE LinkInv'
BY Ps2LinkAssumption DEF TaskReceive, At, TimedOut, Decode, Parse, Idle,
  Other, wire, command, keyboard, history, TypeOK, ClockHolds, StagesAgree,
  FewEdges, DirectionAgrees, SendsNext, BitsAgree, Releasing, Pending, ToSend,
  WaitsFA, WaitsAA

LEMMA TaskSentKeeps == ASSUME LinkInv, TaskSent PROVE LinkInv'
BY Ps2LinkAssumption DEF TaskSent, At, TimedOut, Idle, Other, wire, command,
  keyboard, history, TypeOK, ClockHolds, StagesAgree, FewEdges,
  DirectionAgrees, SendsNext, BitsAgree, Releasing, Pending, ToSend, WaitsFA,
  WaitsAA

\* ps2keyboard_release_clk.
LEMMA ReleaseKeeps == ASSUME LinkInv, Release PROVE LinkInv'
BY Ps2LinkAssumption DEF Release, At, Idle, Other, wire, command, keyboard,
  history, TypeOK, ClockHolds, StagesAgree, FewEdges, DirectionAgrees,
  SendsNext, BitsAgree, Releasing, Pending, ToSend, WaitsFA, WaitsAA

LEMMA ReleaseDatKeeps == ASSUME LinkInv, ReleaseDat PROVE LinkInv'
<1>1. TypeOK'
  BY Ps2LinkAssumption DEF ReleaseDat, At, Idle, Other, wire, command,
    keyboard, history, TypeOK
<1>2. ClockHolds'
  BY Ps2LinkAssumption DEF ReleaseDat, At, Idle, Other, wire, command,
    keyboard, history, TypeOK, ClockHolds, DirectionAgrees, FewEdges, Pending,
    Releasing
<1>3. StagesAgree'
  BY Ps2LinkAssumption DEF ReleaseDat, At, Idle, Other, wire, command,
    keyboard, history, TypeOK, StagesAgree, SendsNext, DirectionAgrees,
    ToSend, WaitsFA, WaitsAA
<1>4. FewEdges'
  BY Ps2LinkAssumption DEF ReleaseDat, At, Idle, Other, wire, command,
    keyboard, history, TypeOK, FewEdges, DirectionAgrees, Pending
<1>5. DirectionAgrees'
  BY Ps2LinkAssumption DEF ReleaseDat, At, Idle, Other, wire, command,
    keyboard, history, TypeOK, DirectionAgrees, FewEdges, Pending, ClockHolds,
    StagesAgree, WaitsFA, ToSend
<1>6. SendsNext'
  BY Ps2LinkAssumption DEF ReleaseDat, At, Idle, Other, wire, command,
    keyboard, history, SendsNext, ToSend, TypeOK
<1>7. BitsAgree'
  BY Ps2LinkAssumption DEF ReleaseDat, At, Idle, Other, wire, command,
    keyboard, history, TypeOK, BitsAgree, ClockHolds, DirectionAgrees,
    FewEdges, Pending
<1> QED BY <1>1, <1>2, <1>3, <1>4, <1>5, <1>6, <1>7

LEMMA ReleaseDirKeeps == ASSUME LinkInv, ReleaseDir PROVE LinkInv'
BY Ps2LinkAssumption DEF ReleaseDir, At, Idle, Other, wire, command, keyboard,
  history, TypeOK, ClockHolds, StagesAgree, FewEdges, DirectionAgrees,
  SendsNext, BitsAgree, Releasing, Pending, ToSend, WaitsFA, WaitsAA

LEMMA ReleaseClkKeeps == ASSUME LinkInv, ReleaseClk PROVE LinkInv'
<1>1. TypeOK'
  BY Ps2LinkAssumption DEF ReleaseClk, At, Idle, Other, wire, command,
    keyboard, history, TypeOK
<1>2. ClockHolds'
  BY Ps2LinkAssumption DEF ReleaseClk, At, Idle, Other, wire, command,
    keyboard, history, TypeOK, ClockHolds, DirectionAgrees, FewEdges, Pending,
    Releasing
<1>3. StagesAgree'
  BY Ps2LinkAssumption DEF ReleaseClk, At, Idle, Other, wire, command,
    keyboard, history, TypeOK, StagesAgree, SendsNext, DirectionAgrees,
    ToSend, WaitsFA, WaitsAA
<1>4. FewEdges'
  BY Ps2LinkAssumption DEF ReleaseClk, At, Idle, Other, wire, command,
    keyboard, history, TypeOK, FewEdges, DirectionAgrees, Pending
<1>5. DirectionAgrees'
  BY Ps2LinkAssumption DEF ReleaseClk, At, Idle, Other, wire, command,
    keyboard, history, TypeOK, DirectionAgrees, FewEdges, Pending, ClockHolds,
    StagesAgree, WaitsFA, ToSend
<1>6. SendsNext'
  BY Ps2LinkAssumption DEF ReleaseClk, At, Idle, Other, wire, command,
    keyboard, history, SendsNext, ToSend, TypeOK
<1>7. BitsAgree'
  BY Ps2LinkAssumption DEF ReleaseClk, At, Idle, Other, wire, command,
    keyboard, history, TypeOK, BitsAgree, ClockHolds, DirectionAgrees,
    FewEdges, Pending
<1> QED BY <1>1, <1>2, <1>3, <1>4, <1>5, <1>6, <1>7

\* The keyboard and the line.
LEMMA KbStartKeeps ==
  ASSUME LinkInv, NEW b \in {"FA", "AA", "code"}, KbStart(b) PROVE LinkInv'
BY Ps2LinkAssumption DEF KbStart, Line, Idle, Other, wire, command, keyboard,
  history, TypeOK, ClockHolds, StagesAgree, FewEdges, DirectionAgrees,
  SendsNext, BitsAgree, Releasing, Pending, ToSend, WaitsFA, WaitsAA

LEMMA KbSendsKeeps == ASSUME LinkInv, KbSends PROVE LinkInv'
BY Ps2LinkAssumption DEF KbSends, Line, SlowEnough, Idle, Other, wire,
  command, keyboard, history, TypeOK, ClockHolds, StagesAgree, FewEdges,
  DirectionAgrees, SendsNext, BitsAgree, Releasing, Pending, ToSend, WaitsFA,
  WaitsAA

LEMMA KbListensKeeps == ASSUME LinkInv, KbListens PROVE LinkInv'
BY Ps2LinkAssumption DEF KbListens, Line, Idle, Other, wire, command,
  keyboard, history, TypeOK, ClockHolds, StagesAgree, FewEdges,
  DirectionAgrees, SendsNext, BitsAgree, Releasing, Pending, ToSend, WaitsFA,
  WaitsAA

LEMMA KbClocksKeeps == ASSUME LinkInv, KbClocks PROVE LinkInv'
BY Ps2LinkAssumption DEF KbClocks, Line, SlowEnough, Idle, Other, wire,
  command, keyboard, history, TypeOK, ClockHolds, StagesAgree, FewEdges,
  DirectionAgrees, SendsNext, BitsAgree, Releasing, Pending, ToSend, WaitsFA,
  WaitsAA

LEMMA KbGivesUpKeeps == ASSUME LinkInv, KbGivesUp PROVE LinkInv'
<1>1. TypeOK'
  <2>1. clean' \in BOOLEAN /\ heard' \in BOOLEAN BY DEF KbGivesUp, TypeOK
  <2>2. intf' \in 0..Other BY Ps2LinkAssumption DEF KbGivesUp, Line, Other
  <2>3. kb' \in {"idle", "sends", "listens"} BY DEF KbGivesUp
  <2> QED BY <2>1, <2>2, <2>3 DEF KbGivesUp, Line, TypeOK, command, Idle
<1>2. ClockHolds'
  BY Ps2LinkAssumption DEF KbGivesUp, Line, Idle, Other, wire, command,
    keyboard, history, TypeOK, ClockHolds, DirectionAgrees, FewEdges, Pending,
    Releasing
<1>3. StagesAgree'
  BY Ps2LinkAssumption DEF KbGivesUp, Line, Idle, Other, wire, command,
    keyboard, history, TypeOK, StagesAgree, SendsNext, DirectionAgrees,
    ToSend, WaitsFA, WaitsAA
<1>4. FewEdges'
  BY Ps2LinkAssumption DEF KbGivesUp, Line, Idle, Other, wire, command,
    keyboard, history, TypeOK, FewEdges, DirectionAgrees, Pending
<1>5. DirectionAgrees'
  BY Ps2LinkAssumption DEF KbGivesUp, Line, Idle, Other, wire, command,
    keyboard, history, TypeOK, DirectionAgrees, FewEdges, Pending, ClockHolds,
    StagesAgree, WaitsFA, ToSend
<1>6. SendsNext'
  BY Ps2LinkAssumption DEF KbGivesUp, Line, Idle, Other, wire, command,
    keyboard, history, SendsNext, ToSend, TypeOK
<1>7. BitsAgree'
  BY Ps2LinkAssumption DEF KbGivesUp, Line, Idle, Other, wire, command,
    keyboard, history, TypeOK, BitsAgree, ClockHolds, DirectionAgrees,
    FewEdges, Pending
<1> QED BY <1>1, <1>2, <1>3, <1>4, <1>5, <1>6, <1>7

LEMMA LostEdgeKeeps == ASSUME LinkInv, LostEdge PROVE LinkInv'
<1>1. TypeOK'
  <2>1. bit < Bits BY DEF LostEdge, BitsAgree
  <2>2. clean' \in BOOLEAN /\ heard' \in BOOLEAN BY DEF LostEdge, TypeOK
  <2>3. intf' \in 0..Other BY Ps2LinkAssumption DEF LostEdge, Line, Other
  <2>4. bit' \in 0..Bits BY <2>1, Ps2LinkAssumption DEF LostEdge, TypeOK
  <2>5. kb' \in {"idle", "sends", "listens"} BY DEF LostEdge, TypeOK
  <2> QED BY <2>2, <2>3, <2>4, <2>5 DEF LostEdge, Line, TypeOK, command, Idle
<1>2. ClockHolds'
  BY Ps2LinkAssumption DEF LostEdge, Line, Idle, Other, wire, command,
    keyboard, history, TypeOK, ClockHolds, DirectionAgrees, FewEdges, Pending,
    Releasing
<1>3. StagesAgree'
  BY Ps2LinkAssumption DEF LostEdge, Line, Idle, Other, wire, command,
    keyboard, history, TypeOK, StagesAgree, SendsNext, DirectionAgrees,
    ToSend, WaitsFA, WaitsAA
<1>4. FewEdges'
  BY Ps2LinkAssumption DEF LostEdge, Line, Idle, Other, wire, command,
    keyboard, history, TypeOK, FewEdges, DirectionAgrees, Pending
<1>5. DirectionAgrees'
  BY Ps2LinkAssumption DEF LostEdge, Line, Idle, Other, wire, command,
    keyboard, history, TypeOK, DirectionAgrees, FewEdges, Pending, ClockHolds,
    StagesAgree, WaitsFA, ToSend
<1>6. SendsNext'
  BY Ps2LinkAssumption DEF LostEdge, Line, Idle, Other, wire, command,
    keyboard, history, SendsNext, ToSend, TypeOK
<1>7. BitsAgree'
  BY Ps2LinkAssumption DEF LostEdge, Line, Idle, Other, wire, command,
    keyboard, history, TypeOK, BitsAgree, ClockHolds, DirectionAgrees,
    FewEdges, Pending
<1> QED BY <1>1, <1>2, <1>3, <1>4, <1>5, <1>6, <1>7

LEMMA SpikeKeeps == ASSUME LinkInv, Spike PROVE LinkInv'
<1>1. TypeOK'
  <2>1. clean' \in BOOLEAN /\ heard' \in BOOLEAN BY DEF Spike, TypeOK
  <2>2. intf' \in 0..Other BY Ps2LinkAssumption DEF Spike, Line, Other
  <2> QED BY <2>1, <2>2 DEF Spike, Line, TypeOK, command, keyboard, Idle
<1>2. ClockHolds'
  BY Ps2LinkAssumption DEF Spike, Line, SlowEnough, Idle, Other, wire,
    command, keyboard, history, TypeOK, ClockHolds, DirectionAgrees, FewEdges,
    Pending, Releasing
<1>3. StagesAgree'
  BY Ps2LinkAssumption DEF Spike, Line, SlowEnough, Idle, Other, wire,
    command, keyboard, history, TypeOK, StagesAgree, SendsNext,
    DirectionAgrees, ToSend, WaitsFA, WaitsAA
<1>4. FewEdges'
  BY Ps2LinkAssumption DEF Spike, Line, SlowEnough, Idle, Other, wire,
    command, keyboard, history, TypeOK, FewEdges, DirectionAgrees, Pending
<1>5. DirectionAgrees'
  BY Ps2LinkAssumption DEF Spike, Line, SlowEnough, Idle, Other, wire,
    command, keyboard, history, TypeOK, DirectionAgrees, FewEdges, Pending,
    ClockHolds, StagesAgree, WaitsFA, ToSend
<1>6. SendsNext'
  BY Ps2LinkAssumption DEF Spike, Line, SlowEnough, Idle, Other, wire,
    command, keyboard, history, SendsNext, ToSend, TypeOK
<1>7. BitsAgree'
  BY Ps2LinkAssumption DEF Spike, Line, SlowEnough, Idle, Other, wire,
    command, keyboard, history, TypeOK, BitsAgree, ClockHolds,
    DirectionAgrees, FewEdges, Pending
<1> QED BY <1>1, <1>2, <1>3, <1>4, <1>5, <1>6, <1>7

\* Steps of the rest.
LEMMA Stutters == ASSUME LinkInv, UNCHANGED vars PROVE LinkInv'
BY DEF vars, Idle, Other, wire, command, keyboard, history, TypeOK,
  ClockHolds, StagesAgree, FewEdges, DirectionAgrees, SendsNext, BitsAgree,
  Releasing, Pending, ToSend, WaitsFA, WaitsAA

LEMMA StepKeeps == ASSUME LinkInv, [Next]_vars PROVE LinkInv'
<1>1. CASE Int4 BY <1>1, Int4Keeps
<1>2. CASE Tick BY <1>2, TickKeeps
<1>3. CASE SendCmd BY <1>3, SendCmdKeeps
<1>4. CASE Task
  BY <1>4, TaskStartKeeps, SetDirectionKeeps, PullKeeps, TaskErrorKeeps,
     TaskReturnsKeeps, TaskReceiveKeeps, TaskSentKeeps, ReleaseKeeps,
     ReleaseDatKeeps, ReleaseDirKeeps, ReleaseClkKeeps DEF Task
<1>5. CASE Keyboard
  BY <1>5, KbStartKeeps, KbSendsKeeps, KbListensKeeps, KbClocksKeeps,
     KbGivesUpKeeps, LostEdgeKeeps, SpikeKeeps DEF Keyboard
<1>6. CASE UNCHANGED vars BY <1>6, Stutters
<1> QED BY <1>1, <1>2, <1>3, <1>4, <1>5, <1>6 DEF Next

-----------------------------------------------------------------------------
\* The link's invariant, whatever the keyboard and the line do.
THEOREM LinkInvariant == Spec => []LinkInv
<1>1. Init => LinkInv BY InitHolds
<1>2. LinkInv /\ [Next]_vars => LinkInv' BY StepKeeps
<1> QED BY <1>1, <1>2, PTL DEF Spec

\* ps2keyboard_count stays within 0..Bits+1: INT4 never takes it below zero.
THEOREM LinkTypes == Spec => []TypeOK
<1>1. LinkInv => TypeOK OBVIOUS
<1> QED BY <1>1, LinkInvariant, PTL

\* A byte that waits is protected by the held clock, and nothing else holds it.
THEOREM ClockHeld == Spec => []ClockHolds
<1>1. LinkInv => ClockHolds OBVIOUS
<1> QED BY <1>1, LinkInvariant, PTL

\* The stage of a command is that of the byte on the wire.
THEOREM StagesHeld == Spec => []StagesAgree
<1>1. LinkInv => StagesAgree OBVIOUS
<1> QED BY <1>1, LinkInvariant, PTL

\* A send begun on a free line, and free of faults, is heard to the last bit.
THEOREM SendsHeard == Spec => []SentWhole
<1>1. LinkInv => SentWhole
  <2> SUFFICES ASSUME LinkInv, count = 0, dir = "send", clean PROVE heard
    BY DEF SentWhole
  <2>1. intf = 0 /\ Pending = 0 BY DEF DirectionAgrees, Pending
  <2>2. count \in Nat /\ bit \in Nat /\ kb \in {"idle", "sends", "listens"}
    BY Ps2LinkAssumption DEF TypeOK, Idle
  <2>3. pc \in {"loop", "task", "rel"}
    BY Ps2LinkAssumption DEF TypeOK, DirectionAgrees, FewEdges, Pending, Idle
  <2> QED
    BY <2>1, <2>2, <2>3, Ps2LinkAssumption DEF BitsAgree, Idle
<1> QED BY <1>1, LinkInvariant, PTL
=============================================================================
