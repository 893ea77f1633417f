---------------------------- MODULE Rs232_proofs ----------------------------
(* The rings of the RS-232 port are queues, for rings of any size. *)
EXTENDS Rs232, SequenceTheorems, TLAPS

Ring(F, start, end, empty) ==
  [i \in 1..Count(start, end, empty) |-> F[At(start, i)]]

\* A ring's bytes lie in it, and their number tells empty from full.
LEMMA RingIsSeq ==
  ASSUME NEW F \in [Index -> Bytes], NEW start \in Index, NEW end \in Index,
         NEW empty \in BOOLEAN, empty => start = end
  PROVE  /\ Ring(F, start, end, empty) \in Seq(Bytes)
         /\ Len(Ring(F, start, end, empty)) = Count(start, end, empty)
         /\ Count(start, end, empty) \in 0..Depth
         /\ Count(start, end, empty) = 0 <=> empty
         /\ Count(start, end, empty) = Depth <=> start = end /\ ~empty
<1> DEFINE n == Count(start, end, empty)
<1>1. /\ Depth \in Nat \ {0} /\ start \in 0..Depth-1 /\ end \in 0..Depth-1
  BY Rs232Assumption DEF Rs232Assumption, Index
<1>2. /\ n \in 0..Depth
      /\ n = 0 <=> empty
      /\ n = Depth <=> start = end /\ ~empty
  BY <1>1 DEF Count
<1>3. \A i \in 1..n : At(start, i) \in Index
  BY <1>1, <1>2 DEF At, Index
<1>4. Ring(F, start, end, empty) = [i \in 1..n |-> F[At(start, i)]]
  BY DEF Ring
<1>5. n \in Nat
  BY <1>1, <1>2
<1> HIDE DEF n
<1>6. Ring(F, start, end, empty) \in [1..n -> Bytes]
  BY <1>3, <1>4
<1>7. Ring(F, start, end, empty) \in Seq(Bytes) /\ Len(Ring(F, start, end, empty)) = n
  BY <1>5, <1>6
<1> QED
  BY <1>2, <1>7 DEF n

\* A byte stored at the end index of a ring with room is the queue's new last.
LEMMA RingPut ==
  ASSUME NEW F \in [Index -> Bytes], NEW start \in Index, NEW end \in Index,
         NEW empty \in BOOLEAN, empty => start = end, end # start \/ empty, NEW b \in Bytes
  PROVE  /\ Ring([F EXCEPT ![end] = b], start, Succ(end), FALSE)
              = Append(Ring(F, start, end, empty), b)
         /\ Count(start, Succ(end), FALSE) = Count(start, end, empty) + 1
<1> DEFINE n == Count(start, end, empty)
           G == [F EXCEPT ![end] = b]
           q == Ring(F, start, end, empty)
           r == Ring(G, start, Succ(end), FALSE)
<1>1. /\ Depth \in Nat \ {0} /\ start \in 0..Depth-1 /\ end \in 0..Depth-1
  BY Rs232Assumption DEF Rs232Assumption, Index
<1>2. n \in Nat /\ n < Depth
  BY <1>1 DEF Count
<1>3. Count(start, Succ(end), FALSE) = n + 1
  BY <1>1 DEF Count, Succ
<1>4. At(start, n + 1) = end
  BY <1>1 DEF Count, At
<1>5. \A i \in 1..n : At(start, i) \in Index /\ At(start, i) # end
  BY <1>1 DEF Count, At, Index
<1>6. q \in Seq(Bytes) /\ Len(q) = n /\ q = [i \in 1..n |-> F[At(start, i)]]
  BY RingIsSeq DEF Ring
<1>7. r = [i \in 1..(n+1) |-> G[At(start, i)]]
  BY <1>3 DEF Ring
<1> HIDE DEF n, q, r
<1>8. \A i \in 1..n : G[At(start, i)] = F[At(start, i)]
  BY <1>5
<1>9. G[At(start, n + 1)] = b
  BY <1>4
<1>10. Append(q, b) = [i \in 1..(n+1) |-> IF i <= n THEN q[i] ELSE b]
  <2>1. /\ Append(q, b) \in Seq(Bytes) /\ Len(Append(q, b)) = n + 1
        /\ \A i \in 1..n : Append(q, b)[i] = q[i]
        /\ Append(q, b)[n + 1] = b
    BY <1>2, <1>6, AppendProperties
  <2>2. Append(q, b) \in [1..(n+1) -> Bytes]
    BY <2>1, LenProperties
  <2>3. \A i \in 1..(n+1) : Append(q, b)[i] = IF i <= n THEN q[i] ELSE b
    BY <1>2, <2>1
  <2> QED
    BY <2>2, <2>3
<1>11. \A i \in 1..(n+1) : G[At(start, i)] = IF i <= n THEN q[i] ELSE b
  BY <1>2, <1>6, <1>8, <1>9
<1>12. r = Append(q, b)
  BY <1>7, <1>10, <1>11
<1> QED
  BY <1>3, <1>12 DEF n, q, r

\* The byte at the start index is the queue's first, and the rest its tail.
LEMMA RingTake ==
  ASSUME NEW F \in [Index -> Bytes], NEW start \in Index, NEW end \in Index
  PROVE  /\ Ring(F, start, end, FALSE) # <<>>
         /\ Head(Ring(F, start, end, FALSE)) = F[start]
         /\ Ring(F, Succ(start), end, Succ(start) = end) = Tail(Ring(F, start, end, FALSE))
         /\ Count(Succ(start), end, Succ(start) = end) = Count(start, end, FALSE) - 1
<1> DEFINE n == Count(start, end, FALSE)
           s == Succ(start)
           q == Ring(F, start, end, FALSE)
           r == Ring(F, s, end, s = end)
<1>1. /\ Depth \in Nat \ {0} /\ start \in 0..Depth-1 /\ end \in 0..Depth-1
  BY Rs232Assumption DEF Rs232Assumption, Index
<1>2. n \in Nat \ {0}
  BY <1>1 DEF Count
<1>3. Count(s, end, s = end) = n - 1
  BY <1>1 DEF Count, Succ
<1>4. \A i \in 1..(n-1) : At(s, i) = At(start, i + 1)
  BY <1>1 DEF Count, At, Succ
<1>5. At(start, 1) = start
  BY <1>1 DEF At
<1>6. q \in Seq(Bytes) /\ Len(q) = n /\ q = [i \in 1..n |-> F[At(start, i)]]
  <2>1. FALSE \in BOOLEAN
    OBVIOUS
  <2>2. q \in Seq(Bytes) /\ Len(q) = n
    BY <2>1, RingIsSeq, Zenon
  <2> QED
    BY <2>2 DEF Ring
<1>7. r = [i \in 1..(n-1) |-> F[At(s, i)]]
  BY <1>3 DEF Ring
<1> HIDE DEF n, q, r, s
<1>8. q # <<>> /\ Head(q) = q[1] /\ q[1] = F[start]
  <2>1. 1 \in 1..n /\ Len(q) # 0
    BY <1>2, <1>6
  <2>2. q[1] = F[At(start, 1)]
    BY <1>6, <2>1
  <2>3. q # <<>>
    BY <2>1
  <2> QED
    BY <1>5, <1>6, <2>2, <2>3
<1>9. /\ Tail(q) \in Seq(Bytes) /\ Len(Tail(q)) = n - 1
      /\ \A i \in 1..(n-1) : Tail(q)[i] = q[i + 1]
  BY <1>2, <1>6, <1>8, HeadTailProperties
<1>10. Tail(q) \in [1..(n-1) -> Bytes]
  BY <1>9, LenProperties
<1>11. \A i \in 1..(n-1) : F[At(s, i)] = Tail(q)[i]
  <2> TAKE i \in 1..(n-1)
  <2>1. i + 1 \in 1..n
    BY <1>2
  <2>2. q[i + 1] = F[At(start, i + 1)]
    BY <1>6, <2>1
  <2> QED
    BY <1>4, <1>9, <2>2
<1>12. r = Tail(q)
  BY <1>7, <1>10, <1>11
<1> QED
  BY <1>3, <1>8, <1>12 DEF n, q, r, s

-----------------------------------------------------------------------------
\* What a driver may still write has room in the ring.
CreditFits == credit <= Depth - Count(foStart, foEnd, thre)

RInv == TypeOK /\ RingOK /\ DeltaTold /\ CreditFits

\* RInv says of the constants and the ring what the lemmas above ask for.
LEMMA Facts ==
  ASSUME RInv
  PROVE  /\ Depth \in Nat \ {0} /\ 0 \in Index /\ 0 \in Bytes
         /\ use.bytes \subseteq Bytes /\ use.bad \subseteq BOOLEAN
         /\ \A i \in Index : Succ(i) \in Index
         /\ Count(foStart, foEnd, thre) \in 0..Depth
         /\ Count(foStart, foEnd, thre) = 0 <=> thre
         /\ Count(foStart, foEnd, thre) = Depth <=> foStart = foEnd /\ ~thre
         /\ Count(fiStart, fiEnd, ~dr) \in 0..Depth
         /\ Count(fiStart, fiEnd, ~dr) = 0 <=> ~dr
         /\ Count(fiStart, fiEnd, ~dr) = Depth <=> fiStart = fiEnd /\ dr
<1>1. Depth \in Nat \ {0} /\ 0 \in Bytes
  BY Rs232Assumption DEF Rs232Assumption
<1>2. use.bytes \subseteq Bytes /\ use.bad \subseteq BOOLEAN
  BY Rs232Assumption DEF Rs232Assumption, RInv, TypeOK
<1>3. 0 \in Index /\ \A i \in Index : Succ(i) \in Index
  BY <1>1 DEF Index, Succ
<1>4. /\ Count(foStart, foEnd, thre) \in 0..Depth
      /\ Count(foStart, foEnd, thre) = 0 <=> thre
      /\ Count(foStart, foEnd, thre) = Depth <=> foStart = foEnd /\ ~thre
  <2>1. /\ FO \in [Index -> Bytes] /\ foStart \in Index /\ foEnd \in Index
        /\ thre \in BOOLEAN /\ (thre => foStart = foEnd)
    BY DEF RInv, TypeOK, RingOK
  <2> QED
    BY <2>1, RingIsSeq
<1>5. (~dr) \in BOOLEAN /\ (~dr => fiStart = fiEnd)
  BY Zenon DEF RInv, RingOK
<1>6. /\ Count(fiStart, fiEnd, ~dr) \in 0..Depth
      /\ Count(fiStart, fiEnd, ~dr) = 0 <=> ~dr
      /\ Count(fiStart, fiEnd, ~dr) = Depth <=> fiStart = fiEnd /\ ~~dr
  <2>1. fiStart \in Index /\ fiEnd \in Index /\ FI \in [Index -> Bytes]
    BY DEF RInv, TypeOK
  <2> QED
    BY <1>5, <2>1, RingIsSeq, Zenon
<1> QED
  BY <1>1, <1>2, <1>3, <1>4, <1>6

LEMMA InitRInv == Init => RInv
<1> SUFFICES ASSUME Init PROVE RInv
  OBVIOUS
<1>1. Depth \in Nat \ {0} /\ UartDepth \in Nat \ {0} /\ 0 \in Bytes /\ 0 \in Index
  BY Rs232Assumption DEF Rs232Assumption, Index
<1>2. TypeOK
  BY <1>1 DEF Init, TypeOK
<1>3. RingOK /\ DeltaTold /\ CreditFits
  BY <1>1 DEF Init, RingOK, DeltaTold, CreditFits, Count
<1> QED
  BY <1>2, <1>3 DEF RInv

\* The Z80's calls.
LEMMA Z80Step ==
  ASSUME RInv, Z80, UNCHANGED use
  PROVE  RInv'
<1>1. ASSUME NEW b \in use.bytes, WriteThr(b) PROVE RInv'
  <2>1. TypeOK'
    BY <1>1, Facts DEF WriteThr, RInv, TypeOK, txVars, rxVars, msrVars
  <2>2. RingOK' /\ DeltaTold'
    BY <1>1 DEF WriteThr, RInv, TypeOK, RingOK, DeltaTold, TxRoom, txVars, rxVars, msrVars
  <2>3. CASE TxRoom
    <3>1. b \in Bytes /\ foStart' = foStart /\ foEnd' = Succ(foEnd) /\ thre' = FALSE
      BY <1>1, <2>3, Facts DEF WriteThr
    <3>2. Count(foStart, Succ(foEnd), FALSE) = Count(foStart, foEnd, thre) + 1
      BY <2>3, <3>1, RingPut DEF TxRoom, RInv, TypeOK, RingOK
    <3>3. Count(foStart, foEnd, thre) < Depth
      BY <2>3, Facts DEF TxRoom
    <3>4. credit' = IF credit > 0 THEN credit - 1 ELSE 0
      BY <1>1 DEF WriteThr
    <3>5. CreditFits'
      BY <3>1, <3>2, <3>3, <3>4, Facts DEF CreditFits, RInv, TypeOK
    <3> QED
      BY <2>1, <2>2, <3>5 DEF RInv
  <2>4. CASE ~TxRoom
    <3>1. UNCHANGED txVars /\ credit' = IF credit > 0 THEN credit - 1 ELSE 0
      BY <1>1, <2>4 DEF WriteThr
    <3>2. CreditFits'
      BY <3>1, Facts DEF CreditFits, RInv, TypeOK, txVars
    <3> QED
      BY <2>1, <2>2, <3>2 DEF RInv
  <2> QED
    BY <2>3, <2>4
<1>2. ASSUME NEW rx \in BOOLEAN, NEW tx \in BOOLEAN, WriteFcr(rx, tx) PROVE RInv'
  <2>1. TypeOK'
    <3>1. /\ fiStart' \in Index /\ fiEnd' \in Index /\ dr' \in BOOLEAN /\ oe' \in BOOLEAN
      BY <1>2, Facts, Zenon DEF WriteFcr, RInv, TypeOK
    <3>2. /\ foStart' \in Index /\ foEnd' \in Index /\ thre' \in BOOLEAN
      BY <1>2, Facts, Zenon DEF WriteFcr, RInv, TypeOK
    <3> QED
      BY <1>2, <3>1, <3>2 DEF WriteFcr, RInv, TypeOK, msrVars, zVars
  <2>2. RingOK' /\ DeltaTold'
    BY <1>2 DEF WriteFcr, RInv, RingOK, DeltaTold, msrVars, zVars
  <2>3. CreditFits'
    BY <1>2, Facts DEF WriteFcr, RInv, TypeOK, CreditFits, Count, zVars
  <2> QED
    BY <2>1, <2>2, <2>3 DEF RInv
<1>3. ASSUME NEW d \in BOOLEAN, WriteLcr(d) PROVE RInv'
  BY <1>3 DEF WriteLcr, RInv, TypeOK, RingOK, DeltaTold, CreditFits, txVars, rxVars, msrVars, zVars
<1>4. ASSUME ReadRbr PROVE RInv'
  <2>1. TypeOK'
    BY <1>4, Facts DEF ReadRbr, RInv, TypeOK, txVars, msrVars
  <2>2. RingOK' /\ DeltaTold' /\ CreditFits'
    BY <1>4 DEF ReadRbr, RInv, TypeOK, RingOK, DeltaTold, CreditFits, txVars, msrVars
  <2> QED
    BY <2>1, <2>2 DEF RInv
<1>5. ASSUME ReadLsr PROVE RInv'
  <2>1. TypeOK'
    BY <1>5, Facts DEF ReadLsr, RInv, TypeOK, txVars, rxVars, msrVars
  <2>2. RingOK' /\ DeltaTold'
    BY <1>5 DEF ReadLsr, RInv, RingOK, DeltaTold, txVars, rxVars, msrVars
  <2>3. CreditFits'
    BY <1>5, Facts DEF ReadLsr, RInv, CreditFits, txVars
  <2> QED
    BY <2>1, <2>2, <2>3 DEF RInv
<1>6. ASSUME ReadMsr PROVE RInv'
  BY <1>6 DEF ReadMsr, RInv, TypeOK, RingOK, DeltaTold, CreditFits, txVars, rxVars
<1> QED
  BY <1>1, <1>2, <1>3, <1>4, <1>5, <1>6 DEF Z80

\* The task's steps.
LEMMA TaskStep ==
  ASSUME RInv, Task, UNCHANGED use
  PROVE  RInv'
<1>1. ASSUME TaskTx PROVE RInv'
  <2>1. TypeOK'
    <3>1. thre' \in BOOLEAN
      BY <1>1, Zenon DEF TaskTx, RInv, TypeOK, LastSent
    <3>2. foStart' \in Index
      BY <1>1, Facts, Zenon DEF TaskTx, RInv, TypeOK
    <3>3. FO[foStart] \in Bytes
      BY DEF RInv, TypeOK
    <3>4. udr' \in {<<>>} \cup {<<b>> : b \in Bytes}
      BY <1>1, <3>3 DEF TaskTx, RInv, TypeOK
    <3> QED
      BY <1>1, <3>1, <3>2, <3>4 DEF TaskTx, RInv, TypeOK, rxVars, msrVars, zVars
  <2>2. RingOK' /\ DeltaTold'
    BY <1>1 DEF TaskTx, RInv, TypeOK, RingOK, DeltaTold, LastSent, rxVars, msrVars, zVars
  <2>3. CASE ToSend /\ udr = <<>>
    <3>1. /\ foStart' = Succ(foStart) /\ foEnd' = foEnd /\ credit' = credit
          /\ thre = FALSE /\ thre' = (Succ(foStart) = foEnd)
      BY <1>1, <2>3 DEF TaskTx, ToSend, LastSent, zVars, RInv, TypeOK
    <3>2. Count(Succ(foStart), foEnd, Succ(foStart) = foEnd) = Count(foStart, foEnd, FALSE) - 1
      BY RingTake DEF RInv, TypeOK
    <3>3. CreditFits'
      BY <3>1, <3>2, Facts DEF CreditFits, RInv, TypeOK
    <3> QED
      BY <2>1, <2>2, <3>3 DEF RInv
  <2>4. CASE ~(ToSend /\ udr = <<>>)
    <3>1. CreditFits'
      BY <1>1, <2>4 DEF TaskTx, RInv, CreditFits, zVars
    <3> QED
      BY <2>1, <2>2, <3>1 DEF RInv
  <2> QED
    BY <2>3, <2>4
<1>2. ASSUME TaskRx PROVE RInv'
  <2>1. CASE urx = <<>>
    BY <1>2, <2>1 DEF TaskRx, RInv, TypeOK, RingOK, DeltaTold, CreditFits, txVars, rxVars, msrVars, zVars
  <2>2. CASE urx # <<>>
    <3>1. /\ Head(urx) \in [byte : Bytes, bad : BOOLEAN]
          /\ Tail(urx) \in Seq([byte : Bytes, bad : BOOLEAN])
          /\ Len(Tail(urx)) <= UartDepth
      <4>1. urx \in Seq([byte : Bytes, bad : BOOLEAN]) /\ Len(urx) <= UartDepth /\ UartDepth \in Nat
        BY Rs232Assumption DEF RInv, TypeOK, Rs232Assumption
      <4>2. /\ Head(urx) \in [byte : Bytes, bad : BOOLEAN]
            /\ Tail(urx) \in Seq([byte : Bytes, bad : BOOLEAN])
            /\ Len(Tail(urx)) = Len(urx) - 1
        BY <2>2, <4>1, HeadTailProperties, Zenon
      <4>3. Len(urx) \in Nat
        BY <4>1
      <4> QED
        BY <4>1, <4>2, <4>3
    <3>2. Head(urx).byte \in Bytes
      BY <3>1
    <3>3. TypeOK'
      <4>1. dr' \in BOOLEAN /\ oe' \in BOOLEAN
        BY <1>2, <2>2, Zenon DEF TaskRx, RInv, TypeOK
      <4>2. fiStart' \in Index /\ fiEnd' \in Index
        BY <1>2, <2>2, Facts, Zenon DEF TaskRx, RInv, TypeOK
      <4>3. FI' \in [Index -> Bytes]
        BY <1>2, <2>2, <3>2 DEF TaskRx, RInv, TypeOK
      <4> QED
        BY <1>2, <2>2, <3>1, <4>1, <4>2, <4>3 DEF TaskRx, RInv, TypeOK, txVars, msrVars, zVars
    <3>4. RingOK' /\ DeltaTold' /\ CreditFits'
      BY <1>2, <2>2 DEF TaskRx, RInv, RingOK, DeltaTold, CreditFits, txVars, msrVars, zVars
    <3> QED
      BY <3>3, <3>4 DEF RInv
  <2> QED
    BY <2>1, <2>2
<1>3. ASSUME TaskStatus PROVE RInv'
  <2>1. (urx # <<>> /\ Head(urx).bad) \in BOOLEAN
    OBVIOUS
  <2> QED
    BY <1>3, <2>1 DEF TaskStatus, RInv, TypeOK, RingOK, DeltaTold, CreditFits, txVars, rxVars, msrVars, zVars
<1>4. ASSUME TaskCts PROVE RInv'
  BY <1>4 DEF TaskCts, Delta, RInv, TypeOK, RingOK, DeltaTold, CreditFits, txVars, rxVars, zVars
<1> QED
  BY <1>1, <1>2, <1>3, <1>4 DEF Task

\* UART and line.
LEMMA UartStep ==
  ASSUME RInv, Uart, UNCHANGED use
  PROVE  RInv'
<1>1. ASSUME NEW b \in use.bytes, NEW bad \in use.bad, UartReceive(b, bad) PROVE RInv'
  <2>1. [byte |-> b, bad |-> bad] \in [byte : Bytes, bad : BOOLEAN]
    BY Facts
  <2>2. urx' \in Seq([byte : Bytes, bad : BOOLEAN]) /\ Len(urx') <= UartDepth
    BY <1>1, <2>1, AppendProperties, LenProperties, Rs232Assumption
       DEF UartReceive, RInv, TypeOK, Rs232Assumption
  <2> QED
    BY <1>1, <2>2 DEF UartReceive, RInv, TypeOK, RingOK, DeltaTold, CreditFits,
                      txVars, rxVars, msrVars, zVars
<1>2. ASSUME UartSend PROVE RInv'
  BY <1>2 DEF UartSend, RInv, TypeOK, RingOK, DeltaTold, CreditFits, txVars, rxVars, msrVars, zVars
<1>3. ASSUME PeerCts PROVE RInv'
  BY <1>3 DEF PeerCts, RInv, TypeOK, RingOK, DeltaTold, CreditFits, txVars, rxVars, msrVars, zVars
<1> QED
  BY <1>1, <1>2, <1>3 DEF Uart

\* The invariant of the port, for rings of any size and any bytes.
THEOREM RingInvariant == Spec => []RInv
<1>1. RInv /\ UNCHANGED vars => RInv'
  BY DEF vars, RInv, TypeOK, RingOK, DeltaTold, CreditFits
<1>2. RInv /\ [Next]_vars => RInv'
  BY <1>1, Z80Step, TaskStep, UartStep DEF Next
<1> QED
  BY <1>2, InitRInv, PTL DEF Spec

\* No index of a ring leaves it.
THEOREM RingTypes == Spec => []TypeOK
<1>1. RInv => TypeOK
  BY DEF RInv
<1> QED
  BY <1>1, RingInvariant, PTL

\* LSR says "empty" only of indices that agree.
THEOREM RingsAgree == Spec => []RingOK
<1>1. RInv => RingOK
  BY DEF RInv
<1> QED
  BY <1>1, RingInvariant, PTL

\* A CTS the Z80 has not read shows in the delta flag.
THEOREM DeltaKept == Spec => []DeltaTold
<1>1. RInv => DeltaTold
  BY DEF RInv
<1> QED
  BY <1>1, RingInvariant, PTL

-----------------------------------------------------------------------------
(* The rings as queues *)

\* The two queues, and what their lengths say of the indices.
LEMMA QueuesAre ==
  ASSUME RInv
  PROVE  /\ TxQueue = Ring(FO, foStart, foEnd, thre) /\ TxQueue \in Seq(Bytes)
         /\ Len(TxQueue) \in 0..Depth
         /\ TxQueue = <<>> <=> thre
         /\ Len(TxQueue) < Depth <=> TxRoom
         /\ RxQueue = Ring(FI, fiStart, fiEnd, ~dr) /\ RxQueue \in Seq(Bytes)
         /\ Len(RxQueue) \in 0..Depth
         /\ RxQueue = <<>> <=> ~dr
         /\ Len(RxQueue) < Depth <=> ~RxFull
<1>1. /\ FO \in [Index -> Bytes] /\ foStart \in Index /\ foEnd \in Index
      /\ thre \in BOOLEAN /\ (thre => foStart = foEnd)
  BY DEF RInv, TypeOK, RingOK
<1>2. /\ FI \in [Index -> Bytes] /\ fiStart \in Index /\ fiEnd \in Index
      /\ (~dr) \in BOOLEAN /\ (~dr => fiStart = fiEnd)
  BY Zenon DEF RInv, TypeOK, RingOK
<1>3. TxQueue = Ring(FO, foStart, foEnd, thre) /\ RxQueue = Ring(FI, fiStart, fiEnd, ~dr)
  BY DEF TxQueue, RxQueue, Ring
<1>4. TxQueue \in Seq(Bytes) /\ Len(TxQueue) = Count(foStart, foEnd, thre)
  BY <1>1, <1>3, RingIsSeq
<1>5. RxQueue \in Seq(Bytes) /\ Len(RxQueue) = Count(fiStart, fiEnd, ~dr)
  <2> DEFINE none == ~dr
  <2>1. /\ none \in BOOLEAN /\ (none => fiStart = fiEnd)
        /\ RxQueue = Ring(FI, fiStart, fiEnd, none)
    BY <1>2, <1>3, Zenon
  <2> HIDE DEF none
  <2>2. RxQueue \in Seq(Bytes) /\ Len(RxQueue) = Count(fiStart, fiEnd, none)
    BY <1>2, <2>1, RingIsSeq
  <2> QED
    BY <2>2, Zenon DEF none
<1>6. /\ TxQueue = <<>> <=> Len(TxQueue) = 0
      /\ RxQueue = <<>> <=> Len(RxQueue) = 0
  BY <1>4, <1>5, EmptySeq
<1>7. /\ Len(TxQueue) \in 0..Depth /\ (TxQueue = <<>> <=> thre)
      /\ Len(TxQueue) < Depth <=> TxRoom
  BY <1>4, <1>6, Facts DEF TxRoom
<1>8. /\ Len(RxQueue) \in 0..Depth /\ (RxQueue = <<>> <=> ~dr)
      /\ Len(RxQueue) < Depth <=> ~RxFull
  BY <1>5, <1>6, Facts DEF RxFull
<1> QED
  BY <1>3, <1>4, <1>5, <1>7, <1>8

\* A queue whose indices and bytes stay is the same queue.
LEMMA TxSame == UNCHANGED txVars => TxQueue' = TxQueue
BY DEF txVars, TxQueue, Count, At

LEMMA RxSame == UNCHANGED <<FI, fiStart, fiEnd, dr>> => RxQueue' = RxQueue
BY DEF RxQueue, Count, At

\* A byte the Z80 writes is appended, if the ring has room.
LEMMA WriteAppends ==
  ASSUME RInv, NEW b \in Bytes, WriteThr(b)
  PROVE  TxQueue' = IF TxRoom THEN Append(TxQueue, b) ELSE TxQueue
<1>1. CASE TxRoom
  <2>1. /\ FO' = [FO EXCEPT ![foEnd] = b] /\ foStart' = foStart /\ foEnd' = Succ(foEnd)
        /\ thre' = FALSE
    BY <1>1 DEF WriteThr
  <2>2. TxQueue' = Ring([FO EXCEPT ![foEnd] = b], foStart, Succ(foEnd), FALSE)
    BY <2>1 DEF TxQueue, Ring, Count, At
  <2>3. /\ FO \in [Index -> Bytes] /\ foStart \in Index /\ foEnd \in Index
        /\ thre \in BOOLEAN /\ (thre => foStart = foEnd) /\ (foEnd # foStart \/ thre)
    BY <1>1 DEF TxRoom, RInv, TypeOK, RingOK
  <2>4. TxQueue' = Append(Ring(FO, foStart, foEnd, thre), b)
    BY <2>2, <2>3, RingPut
  <2> QED
    BY <1>1, <2>4, QueuesAre
<1>2. CASE ~TxRoom
  BY <1>2, TxSame DEF WriteThr
<1> QED
  BY <1>1, <1>2

\* The task takes the first byte of the ring.
LEMMA TaskTakes ==
  ASSUME RInv, TaskTx, ToSend, udr = <<>>
  PROVE  /\ TxQueue # <<>> /\ udr' = <<Head(TxQueue)>>
         /\ TxQueue' = Tail(TxQueue)
<1>1. /\ FO' = FO /\ foStart' = Succ(foStart) /\ foEnd' = foEnd
      /\ ~thre /\ thre' = (Succ(foStart) = foEnd) /\ udr' = <<FO[foStart]>>
  BY DEF TaskTx, ToSend, LastSent
<1>2. TxQueue' = Ring(FO, Succ(foStart), foEnd, Succ(foStart) = foEnd)
  BY <1>1 DEF TxQueue, Ring, Count, At
<1>3. TxQueue = Ring(FO, foStart, foEnd, FALSE)
  BY <1>1 DEF TxQueue, Ring, Count
<1>4. FO \in [Index -> Bytes] /\ foStart \in Index /\ foEnd \in Index
  BY DEF RInv, TypeOK
<1>5. /\ Ring(FO, foStart, foEnd, FALSE) # <<>>
      /\ Head(Ring(FO, foStart, foEnd, FALSE)) = FO[foStart]
      /\ Ring(FO, Succ(foStart), foEnd, Succ(foStart) = foEnd)
           = Tail(Ring(FO, foStart, foEnd, FALSE))
  BY <1>4, RingTake, ZenonT(40)
<1> QED
  BY <1>1, <1>2, <1>3, <1>5, Zenon

\* A read takes the first byte, if there is one.
LEMMA ReadTakes ==
  ASSUME RInv, ReadRbr, dr
  PROVE  /\ RxQueue # <<>> /\ zdata' = Head(RxQueue)
         /\ RxQueue' = Tail(RxQueue)
<1>1. /\ FI' = FI /\ fiStart' = Succ(fiStart) /\ fiEnd' = fiEnd
      /\ dr' = (Succ(fiStart) # fiEnd) /\ zdata' = FI[fiStart]
  BY DEF ReadRbr
<1>2. RxQueue' = Ring(FI, Succ(fiStart), fiEnd, Succ(fiStart) = fiEnd)
  BY <1>1 DEF RxQueue, Ring, Count, At
<1>3. RxQueue = Ring(FI, fiStart, fiEnd, FALSE)
  BY DEF RxQueue, Ring, Count
<1>4. FI \in [Index -> Bytes] /\ fiStart \in Index /\ fiEnd \in Index
  BY DEF RInv, TypeOK
<1>5. /\ Ring(FI, fiStart, fiEnd, FALSE) # <<>>
      /\ Head(Ring(FI, fiStart, fiEnd, FALSE)) = FI[fiStart]
      /\ Ring(FI, Succ(fiStart), fiEnd, Succ(fiStart) = fiEnd)
           = Tail(Ring(FI, fiStart, fiEnd, FALSE))
  BY <1>4, RingTake, ZenonT(40)
<1> QED
  BY <1>1, <1>2, <1>3, <1>5, Zenon

\* A byte from the UART is appended, unless the ring is full.
LEMMA ReceiveAppends ==
  ASSUME RInv, TaskRx, urx # <<>>
  PROVE  /\ Head(urx).byte \in Bytes
         /\ RxQueue' = IF RxFull THEN RxQueue ELSE Append(RxQueue, Head(urx).byte)
<1> DEFINE b == Head(urx).byte
<1>1. b \in Bytes
  <2>1. urx \in Seq([byte : Bytes, bad : BOOLEAN])
    BY DEF RInv, TypeOK
  <2>2. Head(urx) \in [byte : Bytes, bad : BOOLEAN]
    BY <2>1, HeadTailProperties, Zenon
  <2> QED
    BY <2>2
<1>2. CASE ~RxFull
  <2>1. /\ FI' = [FI EXCEPT ![fiEnd] = b] /\ fiStart' = fiStart /\ fiEnd' = Succ(fiEnd)
        /\ dr' = TRUE
    BY <1>2 DEF TaskRx
  <2> HIDE DEF b
  <2>2. RxQueue' = Ring([FI EXCEPT ![fiEnd] = b], fiStart, Succ(fiEnd), FALSE)
    BY <2>1 DEF RxQueue, Ring, Count, At
  <2>3. /\ FI \in [Index -> Bytes] /\ fiStart \in Index /\ fiEnd \in Index
        /\ (~dr) \in BOOLEAN /\ (~dr => fiStart = fiEnd) /\ (fiEnd # fiStart \/ ~dr)
    BY <1>2, Zenon DEF RxFull, RInv, TypeOK, RingOK
  <2>4. RxQueue' = Append(Ring(FI, fiStart, fiEnd, ~dr), b)
    BY <1>1, <2>2, <2>3, RingPut, Zenon
  <2>5. RxQueue' = Append(RxQueue, b)
    BY <2>4, QueuesAre, Zenon
  <2> QED
    BY <1>1, <1>2, <2>5 DEF b
<1>3. CASE RxFull
  BY <1>1, <1>3, RxSame DEF TaskRx
<1> QED
  BY <1>2, <1>3

\* A driver that has seen THRE loses no byte of the ring it may write.
THEOREM CreditKept == Spec => CreditHonoured
<1> DEFINE Kept == \A b \in Bytes : WriteThr(b) /\ credit > 0 => TxQueue' = Append(TxQueue, b)
<1>1. RInv => Kept
  <2> SUFFICES ASSUME RInv, NEW b \in Bytes, WriteThr(b), credit > 0
               PROVE  TxQueue' = Append(TxQueue, b)
    OBVIOUS
  <2>1. credit \in 0..Depth /\ credit <= Depth - Count(foStart, foEnd, thre)
    BY DEF RInv, TypeOK, CreditFits
  <2>2. ~(foStart = foEnd /\ ~thre)
    BY <2>1, Facts
  <2> QED
    BY <2>2, WriteAppends DEF TxRoom
<1>2. Spec => [][Kept]_vars
  BY <1>1, RingInvariant, PTL DEF Spec
<1> QED
  BY <1>2 DEF CreditHonoured

\* A reset queue is empty.
LEMMA ResetEmpties ==
  /\ foStart' = foEnd' /\ thre' => TxQueue' = <<>>
  /\ fiStart' = fiEnd' /\ ~dr' => RxQueue' = <<>>
<1>1. ASSUME thre' PROVE TxQueue' = <<>>
  <2>1. Count(foStart, foEnd, thre)' = 0
    BY <1>1 DEF Count
  <2> QED
    BY <2>1 DEF TxQueue
<1>2. ASSUME ~dr' PROVE RxQueue' = <<>>
  <2>1. Count(fiStart, fiEnd, ~dr)' = 0
    BY <1>2 DEF Count
  <2> QED
    BY <2>1 DEF RxQueue
<1> QED
  BY <1>1, <1>2

\* A step of the queues, or a stutter.
QueueStep == [Queues!Next]_(Queues!vars)

QueuesSame == UNCHANGED <<TxQueue, RxQueue, oe, udr, zdata>>

LEMMA SameIsStep == QueuesSame => QueueStep
BY DEF QueuesSame, QueueStep, Queues!vars

LEMMA QueuesInit == Init => Queues!Init
<1> SUFFICES ASSUME Init PROVE Queues!Init
  OBVIOUS
<1>1. TxQueue = <<>> /\ RxQueue = <<>>
  BY DEF Init, TxQueue, RxQueue, Count
<1> QED
  BY <1>1 DEF Init, Queues!Init

\* What the Z80 does to the registers is a step of the queues.
LEMMA Z80Queues == ASSUME RInv, Z80, use \in Uses PROVE QueueStep
<1>1. ASSUME NEW b \in use.bytes, WriteThr(b) PROVE QueueStep
  <2>1. b \in Bytes
    BY <1>1, Rs232Assumption DEF Rs232Assumption
  <2>2. TxQueue' = Queues!Put(TxQueue, b)
    BY <1>1, <2>1, QueuesAre, WriteAppends DEF Queues!Put
  <2>3. RxQueue' = RxQueue /\ UNCHANGED <<oe, udr, zdata>>
    BY <1>1, RxSame DEF WriteThr, rxVars
  <2>4. Queues!Write(b)
    BY <2>2, <2>3 DEF Queues!Write
  <2> QED
    BY <2>1, <2>4 DEF QueueStep, Queues!Next
<1>2. ASSUME NEW rx \in BOOLEAN, NEW tx \in BOOLEAN, WriteFcr(rx, tx) PROVE QueueStep
  <2>1. TxQueue' = IF tx THEN <<>> ELSE TxQueue
    BY <1>2, ResetEmpties, TxSame DEF WriteFcr, txVars
  <2>2. IF rx THEN RxQueue' = <<>> /\ oe' = FALSE ELSE UNCHANGED <<RxQueue, oe>>
    BY <1>2, ResetEmpties, RxSame DEF WriteFcr
  <2>3. Queues!Reset(rx, tx)
    BY <1>2, <2>1, <2>2 DEF WriteFcr, zVars, Queues!Reset
  <2> QED
    BY <2>3 DEF QueueStep, Queues!Next
<1>3. ASSUME ReadRbr PROVE QueueStep
  <2>1. TxQueue' = TxQueue /\ UNCHANGED <<oe, udr>>
    BY <1>3, TxSame DEF ReadRbr
  <2>2. IF RxQueue = <<>> THEN zdata' = 0 /\ UNCHANGED RxQueue
                          ELSE zdata' = Head(RxQueue) /\ RxQueue' = Tail(RxQueue)
    <3>1. CASE dr
      BY <1>3, <3>1, ReadTakes
    <3>2. CASE ~dr
      BY <1>3, <3>2, QueuesAre, RxSame DEF ReadRbr
    <3> QED
      BY <3>1, <3>2
  <2>3. Queues!Read
    BY <2>1, <2>2 DEF Queues!Read
  <2> QED
    BY <2>3 DEF QueueStep, Queues!Next
<1>4. ASSUME (\E d \in BOOLEAN : WriteLcr(d)) \/ ReadLsr \/ ReadMsr PROVE QueueStep
  BY <1>4, TxSame, RxSame, SameIsStep DEF WriteLcr, ReadLsr, ReadMsr, QueuesSame, rxVars, zVars
<1> QED
  BY <1>1, <1>2, <1>3, <1>4 DEF Z80

\* A step of the task moves a byte of a queue, or none.
LEMMA TaskQueues == ASSUME RInv, Task PROVE QueueStep
<1>1. ASSUME TaskTx, ToSend, udr = <<>> PROVE QueueStep
  <2>1. /\ TxQueue # <<>> /\ udr' = <<Head(TxQueue)>> /\ TxQueue' = Tail(TxQueue)
    BY <1>1, TaskTakes
  <2>2. RxQueue' = RxQueue /\ UNCHANGED <<oe, zdata>>
    BY <1>1, RxSame DEF TaskTx, rxVars, zVars
  <2>3. Queues!Transmit
    BY <1>1, <2>1, <2>2 DEF Queues!Transmit
  <2> QED
    BY <2>3 DEF QueueStep, Queues!Next
<1>2. ASSUME TaskTx, ~(ToSend /\ udr = <<>>) PROVE QueueStep
  BY <1>2, TxSame, RxSame, SameIsStep DEF TaskTx, QueuesSame, txVars, rxVars, zVars
<1>3. ASSUME TaskRx, urx # <<>> PROVE QueueStep
  <2> DEFINE b == Head(urx).byte
  <2>1. b \in Bytes /\ RxQueue' = IF RxFull THEN RxQueue ELSE Append(RxQueue, b)
    BY <1>3, ReceiveAppends
  <2>2. RxFull <=> Len(RxQueue) = Depth
    BY QueuesAre, Facts
  <2>3. oe' = IF RxFull THEN TRUE ELSE oe
    BY <1>3 DEF TaskRx
  <2>4. TxQueue' = TxQueue /\ UNCHANGED <<udr, zdata>>
    BY <1>3, TxSame DEF TaskRx, zVars
  <2>5. oe \in BOOLEAN /\ Len(RxQueue) \in 0..Depth /\ Depth \in Nat
    BY QueuesAre, Rs232Assumption DEF RInv, TypeOK, Rs232Assumption
  <2> HIDE DEF b
  <2>6. RxQueue' = Queues!Put(RxQueue, b)
    BY <2>1, <2>2, <2>5 DEF Queues!Put
  <2>7. oe' = (oe \/ Len(RxQueue) = Depth)
    <3>1. CASE RxFull
      BY <2>2, <2>3, <3>1, Zenon
    <3>2. CASE ~RxFull
      BY <2>2, <2>3, <2>5, <3>2, Zenon
    <3> QED
      BY <3>1, <3>2
  <2>8. Queues!Receive(b)
    BY <2>4, <2>6, <2>7, Zenon DEF Queues!Receive
  <2> QED
    BY <2>1, <2>8, Zenon DEF QueueStep, Queues!Next
<1>4. ASSUME TaskRx, urx = <<>> PROVE QueueStep
  BY <1>4, TxSame, RxSame, SameIsStep DEF TaskRx, QueuesSame, rxVars, zVars
<1>5. ASSUME TaskStatus \/ TaskCts PROVE QueueStep
  BY <1>5, TxSame, RxSame, SameIsStep DEF TaskStatus, TaskCts, QueuesSame, rxVars, zVars
<1> QED
  BY <1>1, <1>2, <1>3, <1>4, <1>5 DEF Task

\* Of the UART's steps only the leaving byte shows.
LEMMA UartQueues == ASSUME Uart PROVE QueueStep
<1>1. ASSUME UartSend PROVE QueueStep
  <2>1. Queues!Leave
    BY <1>1, TxSame, RxSame DEF UartSend, rxVars, zVars, Queues!Leave
  <2> QED
    BY <2>1 DEF QueueStep, Queues!Next
<1>2. ASSUME NEW b, NEW bad, UartReceive(b, bad) PROVE QueueStep
  BY <1>2, TxSame, RxSame, SameIsStep DEF UartReceive, QueuesSame, rxVars, zVars
<1>3. ASSUME PeerCts PROVE QueueStep
  BY <1>3, TxSame, RxSame, SameIsStep DEF PeerCts, QueuesSame, rxVars, zVars
<1> QED
  BY <1>1, <1>2, <1>3 DEF Uart

\* The rings are queues of Depth bytes: nothing is lost, doubled or moved when
\* the indices wrap or meet (rs232.c), and only a full ring refuses a byte.
THEOREM ImplementsQueues == Spec => RingsAreQueues
<1>1. RInv /\ [Next]_vars => [Queues!Next]_(Queues!vars)
  <2> SUFFICES ASSUME RInv, [Next]_vars PROVE QueueStep
    BY DEF QueueStep
  <2>1. use \in Uses
    BY DEF RInv, TypeOK
  <2>2. ASSUME UNCHANGED vars PROVE QueueStep
    BY <2>2, TxSame, RxSame, SameIsStep DEF vars, QueuesSame, txVars
  <2> QED
    BY <2>1, <2>2, Z80Queues, TaskQueues, UartQueues DEF Next
<1> QED
  BY <1>1, QueuesInit, RingInvariant, PTL DEF Spec, RingsAreQueues, Queues!Spec
=============================================================================
