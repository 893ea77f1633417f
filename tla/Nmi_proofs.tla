----------------------------- MODULE Nmi_proofs -----------------------------
(***************************************************************************)
(* Why the page of the NMI state is there for the monitor and for nothing   *)
(* else: the two flags of znmi.v follow the Z80 through the entry and the   *)
(* return, step by step, unless an NMI is acknowledged right behind a write *)
(* to #BE or NMI_N falls twice in one entry.  And how deep monitors nest    *)
(* when it does.                                                            *)
(***************************************************************************)
EXTENDS Nmi, TLAPS

Clean == ~wroteBE /\ ~twice

\* Where the Z80 is in a monitor whose page is mapped.
InPage ==
  \/ place = "nmi" /\ phase = "rest"
  \/ place \in {"mon", "out", "ed"}
  \/ place = "45" /\ phase # "rest"

\* Where an NMI is on its way.
OnItsWay ==
  \/ latch # "none"
  \/ place = "ack"
  \/ place = "nmi" /\ phase # "rest"

\* How far the return has come.
ClrFollows ==
  /\ place \in {"ack", "nmi", "mon", "out"} => ~pendingClr
  /\ place = "ed" => pendingClr /\ clrCount = IF phase = "rest" THEN 2 ELSE 3
  /\ place = "45" => IF phase = "rest" THEN ~pendingClr ELSE pendingClr /\ clrCount = 2

\* NMI_N, which may be held down throughout the entry, is high again before the
\* monitor ends.
PulseFollows ==
  /\ pulse > 0 =>
       latch # "none" \/ place \in {"ack", "nmi"} \/ (place = "mon" /\ phase # "rest")
  /\ place = "mon" => pulse <= (IF phase = "fetch" THEN 2 ELSE IF phase = "refresh" THEN 1 ELSE 0)

Ranges ==
  /\ pending \in BOOLEAN /\ entering \in BOOLEAN /\ inNmi \in BOOLEAN
  /\ pendingClr \in BOOLEAN /\ lastAt0066 \in BOOLEAN
  /\ wasReset \in BOOLEAN /\ wroteBE \in BOOLEAN /\ twice \in BOOLEAN
  /\ pulse \in 0..PulseSteps
  /\ latch \in {"none", "young", "seen"}
  /\ clrCount \in 0..3
  /\ place \in Places /\ phase \in {"fetch", "refresh", "rest"}

Follow ==
  /\ inNmi <=> InPage
  /\ OnItsWay => entering
  /\ latch # "none" => place = "prog" \/ (place = "45" /\ phase = "rest")
  /\ depth = IF place \in {"prog", "ack"} THEN 0 ELSE 1
  /\ phase # "fetch" => (lastAt0066 <=> place = "nmi")
  /\ ClrFollows
  /\ PulseFollows

NInv ==
  /\ Ranges
  /\ pendingClr => clrCount >= 2
  /\ Clean => Follow

LEMMA NInit == Init => NInv
<1> SUFFICES ASSUME Init PROVE NInv
  OBVIOUS
<1>1. Ranges
  <2>1. /\ {pending, entering, inNmi, pendingClr, lastAt0066, wasReset, wroteBE, twice} \subseteq BOOLEAN
    BY DEF Init
  <2>2. pulse \in 0..PulseSteps /\ clrCount \in 0..3
    BY DEF Init, PulseSteps
  <2>3. latch \in {"none", "young", "seen"} /\ place \in Places /\ phase \in {"fetch", "refresh", "rest"}
    BY DEF Init, Places
  <2> QED
    BY <2>1, <2>2, <2>3 DEF Ranges
<1>2. (pendingClr => clrCount >= 2) /\ Follow
  BY DEF Init, Follow, InPage, OnItsWay, ClrFollows, PulseFollows
<1> QED
  BY <1>1, <1>2 DEF NInv

LEMMA FrameStep ==
  ASSUME NInv, NEW fall \in BOOLEAN, NEW int \in BOOLEAN, Frame(fall, int)
  PROVE  NInv'
<1> USE DEF Frame, Pull, Edge, Starts, NInv, clrVars, z80Vars, history
<1>1. Ranges'
  BY DEF Ranges, PulseSteps, Places
<1>2. (pendingClr => clrCount >= 2)'
  OBVIOUS
<1>3. ASSUME Clean' PROVE Follow'
  BY <1>3 DEF Ranges, Clean, Follow, InPage, OnItsWay, ClrFollows, PulseFollows, PulseSteps, Places
<1> QED
  BY <1>1, <1>2, <1>3

LEMMA FetchStep ==
  ASSUME NInv, NEW hit \in BOOLEAN, Fetch(hit)
  PROVE  NInv'
<1> USE DEF Fetch, Pull, Edge, Starts, PulseWanes, NInv, clrVars
<1>1. Ranges'
  BY DEF Ranges, PulseSteps, Places
<1>2. (pendingClr => clrCount >= 2)'
  OBVIOUS
<1>3. ASSUME Clean' PROVE Follow'
  BY <1>3 DEF Ranges, Clean, Follow, InPage, OnItsWay, ClrFollows, PulseFollows, PulseSteps, Places
<1> QED
  BY <1>1, <1>2, <1>3

LEMMA RefreshStep ==
  ASSUME NInv, NEW int \in BOOLEAN, Refresh(int)
  PROVE  NInv'
<1> USE DEF Refresh, Pull, Edge, Starts, PulseWanes, NInv
<1>1. Ranges'
  <2>1. {pending', entering', inNmi', pendingClr', twice'} \subseteq BOOLEAN
    BY DEF Ranges
  <2>2. clrCount' \in 0..3 /\ pulse' \in 0..PulseSteps /\ latch' \in {"none", "young", "seen"}
    BY DEF Ranges, PulseSteps
  <2>3. /\ UNCHANGED <<lastAt0066, place, wasReset, wroteBE>>
        /\ phase' \in {"fetch", "refresh", "rest"}
    OBVIOUS
  <2> QED
    BY <2>1, <2>2, <2>3 DEF Ranges
<1>2. (pendingClr => clrCount >= 2)'
  BY DEF Ranges
<1>3. ASSUME Clean' PROVE Follow'
  BY <1>3 DEF Ranges, Clean, Follow, InPage, OnItsWay, ClrFollows, PulseFollows, PulseSteps, Places
<1> QED
  BY <1>1, <1>2, <1>3

LEMMA RestStep ==
  ASSUME NInv, NEW next \in Places, Rest(next)
  PROVE  NInv'
<1>1. /\ phase = "rest" /\ phase' = "fetch"
      /\ UNCHANGED <<pending, entering, inNmi, lastAt0066, wasReset, twice>>
      /\ pulse' = IF pulse = 0 THEN 0 ELSE pulse - 1
      /\ wroteBE' = (wroteBE \/ (place' = "ack" /\ pendingClr'))
  BY DEF Rest, PulseWanes
<1>2. /\ place' \in Places /\ Follows(next)
      /\ \/ latch # "none" /\ place \notin {"ack", "ed"} /\ place' = "ack" /\ latch' = "none"
         \/ /\ latch # "seen" \/ place \in {"ack", "ed"}
            /\ place' = next
            /\ latch' = IF latch = "young" THEN "seen" ELSE latch
  BY DEF Rest, Places
<1>3. /\ \/ place \in {"out", "prog"} /\ clrCount' = 3 /\ pendingClr'
         \/ place # "out" /\ clrCount' = clrCount /\ (pendingClr' <=> pendingClr)
      /\ pendingClr' \in BOOLEAN
  <2>1. CASE ClrNmi /\ place \in {"out", "prog"}
    BY <2>1 DEF ClrNmi
  <2>2. CASE UNCHANGED clrVars /\ place # "out"
    BY <2>2 DEF clrVars, NInv, Ranges
  <2> QED
    BY <2>1, <2>2 DEF Rest
<1>4. depth' = IF place = "ack" THEN depth + 1 ELSE IF place = "45" THEN depth - 1 ELSE depth
  BY DEF Rest
<1>5. Ranges'
  <2>1. wroteBE' \in BOOLEAN /\ latch' \in {"none", "young", "seen"}
    BY <1>1, <1>2 DEF NInv, Ranges
  <2>2. clrCount' \in 0..3 /\ pendingClr' \in BOOLEAN
    BY <1>3 DEF NInv, Ranges
  <2>3. pulse' \in 0..PulseSteps
    BY <1>1 DEF NInv, Ranges, PulseSteps
  <2> QED
    BY <1>1, <1>2, <2>1, <2>2, <2>3 DEF NInv, Ranges
<1>6. (pendingClr => clrCount >= 2)'
  BY <1>3 DEF NInv
<1>7. ASSUME Clean' PROVE Follow'
  <2>1. Clean /\ Ranges /\ Follow
    BY <1>1, <1>7 DEF Clean, NInv, Ranges
  <2>2. ~(place' = "ack" /\ pendingClr')
    BY <1>1, <1>7 DEF Clean
  <2>3. CASE place' = "ack"
    <3>1. Follows(next) => next # "ack"
      BY <2>1 DEF Follows, Ranges, Places
    <3>2. latch # "none" /\ latch' = "none"
      BY <1>2, <2>3, <3>1
    <3>3. place \in {"prog", "45"}
      BY <2>1, <3>2 DEF Follow
    <3>4. ~inNmi' /\ entering' /\ depth' = 0
      BY <1>1, <1>4, <2>1, <3>2, <3>3 DEF Follow, InPage, OnItsWay
    <3>5. PulseFollows'
      BY <2>3 DEF PulseFollows
    <3>6. ClrFollows'
      BY <2>2, <2>3 DEF ClrFollows
    <3> QED
      BY <1>1, <2>3, <3>2, <3>4, <3>5, <3>6 DEF Follow, InPage, OnItsWay
  <2>4. CASE place' # "ack"
    <3>1. place' = next /\ (latch' = "none" <=> latch = "none") /\ (latch # "seen" \/ place \in {"ack", "ed"})
      BY <1>2, <2>4 DEF Ranges
    <3>2. CASE place = "prog"
      BY <1>1, <1>2, <1>3, <1>4, <2>1, <3>1, <3>2
         DEF Follows, Ranges, Follow, InPage, OnItsWay, ClrFollows, PulseFollows
    <3>3. CASE place = "ack"
      BY <1>1, <1>2, <1>3, <1>4, <2>1, <3>1, <3>3
         DEF Follows, Ranges, Follow, InPage, OnItsWay, ClrFollows, PulseFollows
    <3>4. CASE place \in {"nmi", "mon", "out"}
      <4>1. /\ place' \in {"mon", "out", "ed"} /\ (place' = "ed" <=> place = "out")
            /\ place = "nmi" => place' = "mon"
            /\ latch = "none" /\ depth = 1 /\ inNmi /\ ~pendingClr
        BY <1>1, <1>2, <2>1, <3>1, <3>4 DEF Follows, Follow, InPage, OnItsWay, ClrFollows
      <4>2. depth' = 1 /\ inNmi' /\ latch' = "none"
        BY <1>1, <1>4, <3>1, <3>4, <4>1
      <4>3. ClrFollows'
        BY <1>1, <1>3, <3>4, <4>1 DEF ClrFollows
      <4>4. PulseFollows'
        <5>1. pulse \in Nat /\ pulse <= (IF place = "nmi" THEN 3 ELSE 0)
          BY <1>1, <2>1, <3>4, <4>1 DEF Follow, Ranges, PulseFollows, PulseSteps
        <5>2. pulse' \in Nat /\ pulse' <= (IF place = "nmi" THEN 2 ELSE 0)
          BY <1>1, <5>1
        <5> QED
          BY <1>1, <4>1, <5>2 DEF PulseFollows
      <4> QED
        BY <1>1, <4>1, <4>2, <4>3, <4>4 DEF Follow, InPage, OnItsWay
    <3>5. CASE place = "ed"
      BY <1>1, <1>2, <1>3, <1>4, <2>1, <3>1, <3>5
         DEF Follows, Ranges, Follow, InPage, OnItsWay, ClrFollows, PulseFollows
    <3>6. CASE place = "45"
      BY <1>1, <1>2, <1>3, <1>4, <2>1, <3>1, <3>6
         DEF Follows, Ranges, Follow, InPage, OnItsWay, ClrFollows, PulseFollows
    <3> QED
      BY <2>1, <3>2, <3>3, <3>4, <3>5, <3>6 DEF Ranges, Places
  <2> QED
    BY <2>3, <2>4
<1> QED
  BY <1>5, <1>6, <1>7 DEF NInv

\* The flags follow the Z80 in every state, as long as no NMI is acknowledged right
\* behind a write to #BE and NMI_N does not fall in the acknowledge or at 0066.
THEOREM NmiInvariant == Spec => []NInv
<1>1. Init => NInv
  BY NInit
<1>2. NInv /\ [Next]_vars => NInv'
  <2> SUFFICES ASSUME NInv, [Next]_vars PROVE NInv'
    OBVIOUS
  <2>1. CASE Int
    BY <2>1, FrameStep DEF Int
  <2>2. CASE Frame(TRUE, FALSE)
    BY <2>2, FrameStep
  <2>3. CASE PulseEnd
    BY <2>3 DEF PulseEnd, NInv, Ranges, Clean, Follow, InPage, OnItsWay, ClrFollows,
                PulseFollows, PulseSteps, clrVars, z80Vars, history
  <2>4. CASE Z80
    BY <2>4, FetchStep, RefreshStep, RestStep DEF Z80
  <2>5. CASE Reset
    <3>1. Ranges'
      <4>1. /\ {pending', entering', inNmi', wasReset'} \subseteq BOOLEAN
            /\ UNCHANGED <<clrCount, pendingClr, lastAt0066, wroteBE, twice>>
        BY <2>5 DEF Reset, clrVars
      <4>2. pulse' \in 0..PulseSteps
        BY <2>5 DEF Reset, PulseSteps
      <4>3. latch' \in {"none", "young", "seen"} /\ place' \in Places /\ phase' \in {"fetch", "refresh", "rest"}
        BY <2>5 DEF Reset, Places
      <4> QED
        BY <4>1, <4>2, <4>3 DEF NInv, Ranges
    <3>2. (pendingClr => clrCount >= 2)' /\ Follow'
      BY <2>5 DEF Reset, NInv, Ranges, Follow, InPage, OnItsWay, ClrFollows, PulseFollows, clrVars
    <3> QED
      BY <3>1, <3>2 DEF NInv
  <2>6. CASE UNCHANGED vars
    BY <2>6 DEF vars, nmiVars, clrVars, z80Vars, history, NInv, Ranges, Clean, Follow, InPage,
                OnItsWay, ClrFollows, PulseFollows
  <2> QED
    BY <2>1, <2>2, <2>3, <2>4, <2>5, <2>6 DEF Next
<1> QED
  BY <1>1, <1>2, PTL DEF Spec

\* The page is there for the whole monitor and for nothing else, as long as the same
\* holds.
THEOREM PageFollows == Spec => []MonitorPaged
<1>1. NInv => MonitorPaged
  BY DEF NInv, Ranges, Clean, Follow, InPage, OnItsWay, MonitorPaged, Paged
<1> QED
  BY <1>1, NmiInvariant, PTL

\* No NMI is taken within a monitor, as long as the same holds.
THEOREM MonitorsAlone == Spec => []OneMonitor
<1>1. NInv => OneMonitor
  BY DEF NInv, Ranges, Clean, Follow, OneMonitor
<1> QED
  BY <1>1, NmiInvariant, PTL

-----------------------------------------------------------------------------
(* How deep monitors nest when one is interrupted after all *)

\* What M1 the FPGA remembers.
LastM1 == phase # "fetch" => (lastAt0066 <=> place = "nmi")

\* A monitor can be interrupted only while the page is mapped and no NMI waits: then
\* the page stays mapped to the second return and no third NMI begins.
Nested ==
  /\ depth \in 0..2
  /\ place = "prog" => depth = 0
  /\ depth = 0 => place \in {"prog", "ack"} /\ ~inNmi
  /\ depth = 1 /\ place = "ack" =>
       IF inNmi THEN latch = "none" /\ ~pendingClr ELSE phase = "fetch"
  /\ depth = 2 =>
       /\ place \notin {"prog", "ack"}
       /\ place = "nmi" => ~pendingClr
       /\ (inNmi /\ latch = "none") \/ (place = "45" /\ phase = "rest")

\* The way into a monitor, with a write to #BE perhaps right before it.
Entry ==
  /\ latch # "none" /\ (place = "prog" \/ (place = "45" /\ phase = "rest")) => entering
  /\ depth = 0 /\ place = "ack" => entering
  /\ depth = 1 /\ place = "nmi" /\ phase # "rest" => entering /\ ~inNmi
  /\ pendingClr /\ ((place = "ack" /\ phase = "rest") \/ (place = "nmi" /\ phase # "rest"))
       => clrCount = 2
  /\ place = "nmi" /\ phase = "rest" => ~pendingClr
  /\ place = "mon" /\ inNmi => latch # "young"
  /\ place = "mon" /\ phase # "fetch" => inNmi

\* The way out of it.
Return ==
  /\ place \in {"out", "ed"} => inNmi
  /\ place = "45" => (inNmi <=> phase # "rest")
  /\ place \in {"out", "ed", "45"} /\ inNmi => latch = "none"
  /\ place \in {"mon", "out"} => ~pendingClr
  /\ place = "ed" => pendingClr /\ clrCount = (IF phase = "rest" THEN 2 ELSE 3)
  /\ place = "45" => IF phase = "rest" THEN ~pendingClr ELSE pendingClr /\ clrCount = 2

\* It holds of every history, also of those that NInv leaves open.
DInv == LastM1 /\ Nested /\ Entry /\ Return

LEMMA FrameDepth ==
  ASSUME NInv, DInv, NEW fall \in BOOLEAN, NEW int \in BOOLEAN, Frame(fall, int)
  PROVE  DInv'
BY DEF Frame, Pull, Edge, Starts, clrVars, z80Vars, NInv, Ranges, DInv, LastM1, Nested, Entry, Return

LEMMA FetchDepth ==
  ASSUME NInv, DInv, NEW hit \in BOOLEAN, Fetch(hit)
  PROVE  DInv'
<1> USE DEF Fetch, Pull, Edge, Starts, Paged, clrVars, NInv, Ranges, DInv
<1>1. LastM1'
  BY DEF LastM1
<1>2. Nested'
  BY DEF Nested
<1>3. Entry'
  BY DEF Nested, Entry
<1>4. Return'
  BY DEF Return
<1> QED
  BY <1>1, <1>2, <1>3, <1>4

LEMMA RefreshDepth ==
  ASSUME NInv, DInv, NEW int \in BOOLEAN, Refresh(int)
  PROVE  DInv'
<1> USE DEF Refresh, Pull, Edge, Starts, NInv, Ranges, DInv
<1>1. LastM1'
  BY DEF LastM1
<1>2. Nested'
  <2>1. /\ phase = "refresh" /\ phase' = "rest" /\ pendingClr' \in BOOLEAN
        /\ UNCHANGED <<place, depth>> /\ (inNmi => latch' = latch)
        /\ pendingClr' => pendingClr
    OBVIOUS
  <2>2. CASE depth = 0
    <3>1. ~inNmi /\ ~lastAt0066 /\ place \in {"prog", "ack"}
      BY <2>1, <2>2 DEF LastM1, Nested
    <3>2. ~inNmi'
      BY <3>1
    <3> QED
      BY <2>1, <2>2, <3>1, <3>2 DEF Nested
  <2>3. CASE depth = 1
    <3>1. place = "ack" => inNmi' /\ latch' = "none" /\ ~pendingClr'
      BY <2>1, <2>3 DEF Nested
    <3> QED
      BY <2>1, <2>3, <3>1 DEF Nested
  <2>4. CASE depth = 2
    <3>1. inNmi /\ latch = "none" /\ place \notin {"prog", "ack"}
      BY <2>1, <2>4 DEF Nested
    <3>2. inNmi' \/ place = "45"
      <4>1. CASE place = "ed"
        <5>1. clrCount = 3
          BY <2>1, <4>1 DEF Return
        <5>2. inNmi' = (inNmi \/ (lastAt0066 /\ entering))
          BY <5>1
        <5> QED
          BY <3>1, <5>2
      <4>2. CASE place \in {"nmi", "mon", "out"}
        <5>1. ~pendingClr
          BY <2>4, <4>2 DEF Nested, Return
        <5> QED
          BY <3>1, <5>1
      <4> QED
        BY <3>1, <4>1, <4>2 DEF Places
    <3>3. place = "nmi" => ~pendingClr'
      BY <2>1, <2>4 DEF Nested
    <3> QED
      BY <2>1, <2>4, <3>1, <3>2, <3>3 DEF Nested
  <2> QED
    BY <2>2, <2>3, <2>4 DEF Nested
<1>3. Entry'
  BY DEF LastM1, Nested, Entry, Return
<1>4. Return'
  BY DEF LastM1, Return
<1> QED
  BY <1>1, <1>2, <1>3, <1>4

LEMMA RestDepth ==
  ASSUME NInv, DInv, NEW next \in Places, Rest(next)
  PROVE  DInv'
<1>1. /\ phase = "rest" /\ phase' = "fetch" /\ entering' = entering /\ inNmi' = inNmi
      /\ lastAt0066' = lastAt0066
      /\ depth' = IF place = "ack" THEN depth + 1 ELSE IF place = "45" THEN depth - 1 ELSE depth
  BY DEF Rest
<1>2. /\ Follows(next)
      /\ \/ latch # "none" /\ place \notin {"ack", "ed"} /\ place' = "ack" /\ latch' = "none"
         \/ /\ latch # "seen" \/ place \in {"ack", "ed"}
            /\ place' = next
            /\ latch' = IF latch = "young" THEN "seen" ELSE latch
  BY DEF Rest
<1>3. /\ \/ place \in {"out", "prog"} /\ clrCount' = 3 /\ pendingClr'
         \/ place # "out" /\ clrCount' = clrCount /\ (pendingClr' <=> pendingClr)
      /\ pendingClr' \in BOOLEAN
  <2>1. CASE ClrNmi /\ place \in {"out", "prog"}
    BY <2>1 DEF ClrNmi
  <2>2. CASE UNCHANGED clrVars /\ place # "out"
    BY <2>2 DEF clrVars, NInv, Ranges
  <2> QED
    BY <2>1, <2>2 DEF Rest
<1>4. LastM1'
  BY <1>1 DEF LastM1
<1> USE DEF NInv, Ranges, DInv
<1>5. CASE place' = "ack" /\ latch # "none" /\ latch' = "none" /\ place \notin {"ack", "ed"}
  <2>1. Nested'
    BY <1>1, <1>3, <1>5 DEF Nested, Entry, Return, Places
  <2>2. Entry' /\ Return'
    BY <1>1, <1>5 DEF Nested, Entry, Return, Places
  <2> QED
    BY <1>4, <2>1, <2>2
<1>6. CASE place' = next /\ (latch' = "none" <=> latch = "none") /\ latch' # "young"
  <2>1. CASE place = "prog"
    BY <1>1, <1>2, <1>3, <1>4, <1>6, <2>1 DEF Follows, Nested, Entry, Return
  <2>2. CASE place = "ack"
    BY <1>1, <1>2, <1>3, <1>4, <1>6, <2>2 DEF Follows, Nested, Entry, Return
  <2>3. CASE place \in {"nmi", "mon", "out"}
    BY <1>1, <1>2, <1>3, <1>4, <1>6, <2>3 DEF Follows, Nested, Entry, Return
  <2>4. CASE place = "ed"
    BY <1>1, <1>2, <1>3, <1>4, <1>6, <2>4 DEF Follows, Nested, Entry, Return
  <2>5. CASE place = "45"
    BY <1>1, <1>2, <1>3, <1>4, <1>6, <2>5 DEF Follows, Nested, Entry, Return
  <2> QED
    BY <2>1, <2>2, <2>3, <2>4, <2>5 DEF Places
<1> QED
  BY <1>2, <1>5, <1>6

\* Whatever the program writes to #BE, wherever a breakpoint hits and whenever a frame
\* interrupt meets a request, a monitor is interrupted once at most before it is left.
THEOREM DepthInvariant == Spec => [](NInv /\ DInv)
<1>1. Init => DInv
  BY DEF Init, DInv, LastM1, Nested, Entry, Return
<1>2. NInv /\ DInv /\ [Next]_vars => DInv'
  <2> SUFFICES ASSUME NInv, DInv, [Next]_vars PROVE DInv'
    OBVIOUS
  <2>1. CASE Int
    BY <2>1, FrameDepth DEF Int
  <2>2. CASE Frame(TRUE, FALSE)
    BY <2>2, FrameDepth
  <2>3. CASE PulseEnd
    BY <2>3 DEF PulseEnd, clrVars, z80Vars, DInv, LastM1, Nested, Entry, Return
  <2>4. CASE Z80
    BY <2>4, FetchDepth, RefreshDepth, RestDepth DEF Z80
  <2>5. CASE Reset
    <3>1. /\ ~inNmi' /\ ~entering' /\ latch' = "none" /\ place' = "prog" /\ phase' = "fetch"
          /\ depth' = 0
      BY <2>5 DEF Reset
    <3> QED
      BY <3>1 DEF DInv, LastM1, Nested, Entry, Return
  <2>6. CASE UNCHANGED vars
    BY <2>6 DEF vars, nmiVars, clrVars, z80Vars, DInv, LastM1, Nested, Entry, Return
  <2> QED
    BY <2>1, <2>2, <2>3, <2>4, <2>5, <2>6 DEF Next
<1> QED
  BY <1>1, <1>2, NmiInvariant, PTL DEF Spec

\* Every variable keeps its range, the depth of monitors with them.
THEOREM NmiTypes == Spec => []TypeOK
<1>1. NInv /\ DInv => TypeOK
  BY DEF NInv, Ranges, DInv, Nested, TypeOK, history
<1> QED
  BY <1>1, DepthInvariant, PTL
=============================================================================
