------------------------- MODULE VideoFetch_proofs -------------------------
(* The invariant of the arbiter, the range of the fetcher's counters, and why the *)
(* buffer holds one whole group of words at every sync.                          *)
EXTENDS VideoFetch, TLAPS

\* A cycle given away keeps the arbiter's invariant, whatever go, the mode and
\* the Z80's request are.
LEMMA ArbStep ==
  ASSUME ArbInv, NEW start \in BOOLEAN, NEW mode \in Shares, NEW req \in BOOLEAN,
         Arbitrate(start, mode, req)
  PROVE  ArbInv'
<1>1. /\ Block \in Nat /\ Block > 1 /\ mode \in 1..Block /\ Shares \subseteq 1..Block
      /\ blkRem \in 0..Block-1 /\ vidRem \in 0..Block-1 /\ due \in 0..Block
  BY ArbiterAssumption DEF ArbiterAssumption, ArbInv, ArbTypeOK
<1>2. CASE blkRem = 0 /\ start
  <2>1. /\ blkRem' = Block - 1 /\ due' = mode /\ stall' = (mode = Block)
        /\ vidRem' = IF req THEN Wrap(mode) ELSE Wrap(mode + Block - 1)
        /\ cur' = NextCycle(start, mode, req)
        /\ done' = IF cur' = "video" THEN 1 ELSE 0
        /\ refused' = IF CpuNext(start, mode) THEN 0 ELSE 1
    BY <1>2 DEF Arbitrate, BlockStarts, FirstLeft
  <2>2. /\ CpuNext(start, mode) <=> mode # Block
        /\ cur' = IF mode # Block /\ req THEN "cpu" ELSE "video"
    BY <1>2, <2>1 DEF CpuNext, NextCycle, BlockStarts
  <2>3. CASE mode = Block
    <3>1. stall' /\ cur' = "video" /\ done' = 1 /\ refused' = 1
      BY <2>1, <2>2, <2>3
    <3>2. vidRem' \in 0..Block-1
      BY <1>1, <2>1, <2>3 DEF Wrap
    <3> QED
      BY <1>1, <2>1, <2>3, <3>1, <3>2 DEF ArbInv, ArbTypeOK
  <2>4. CASE mode # Block
    <3>1. ~stall' /\ stall' \in BOOLEAN /\ refused' = 0
      BY <2>1, <2>2, <2>4
    <3>2. CASE req
      <4>1. cur' = "cpu" /\ done' = 0 /\ vidRem' = mode
        BY <1>1, <2>1, <2>2, <2>4, <3>2 DEF Wrap
      <4> QED
        BY <1>1, <2>1, <2>4, <3>1, <4>1 DEF ArbInv, ArbTypeOK
    <3>3. CASE ~req
      <4>1. cur' = "video" /\ done' = 1 /\ vidRem' = mode - 1
        BY <1>1, <2>1, <2>2, <2>4, <3>3 DEF Wrap
      <4> QED
        BY <1>1, <2>1, <2>4, <3>1, <4>1 DEF ArbInv, ArbTypeOK
    <3> QED
      BY <3>2, <3>3
  <2> QED
    BY <2>3, <2>4
<1>3. CASE blkRem = 0 /\ ~start
  <2>1. /\ blkRem' = 0 /\ due' = 0 /\ stall' = FALSE /\ CpuNext(start, mode)
        /\ cur' = (IF req THEN "cpu" ELSE "free") /\ vidRem' = vidRem
        /\ done' = 0 /\ refused' = 0
    BY <1>3 DEF Arbitrate, BlockStarts, Dec, NextCycle, CpuNext
  <2>2. vidRem = 0
    BY <1>1, <1>3 DEF ArbInv
  <2>3. cur' \in {"video", "cpu", "free"}
    BY <2>1
  <2>4. ~stall' /\ stall' \in BOOLEAN
    BY <2>1
  <2> QED
    BY <1>1, <2>1, <2>2, <2>3, <2>4 DEF ArbInv, ArbTypeOK
<1>4. CASE blkRem # 0
  <2>1. /\ blkRem' = blkRem - 1 /\ due' = due /\ stall' = stall
        /\ vidRem' = IF cur' = "video" THEN Dec(vidRem) ELSE vidRem
        /\ cur' = NextCycle(start, mode, req)
        /\ done' = done + (IF cur' = "video" THEN 1 ELSE 0)
        /\ refused' = refused + (IF CpuNext(start, mode) THEN 0 ELSE 1)
    BY <1>1, <1>4 DEF Arbitrate, BlockStarts, Dec
  <2>2. CpuNext(start, mode) <=> ~stall /\ vidRem # blkRem
    BY <1>4 DEF CpuNext
  <2>3. CASE stall
    BY <1>1, <1>4, <2>1, <2>2, <2>3 DEF ArbInv, ArbTypeOK, NextCycle, BlockStarts, Dec
  <2>4. CASE ~stall
    BY <1>1, <1>4, <2>1, <2>2, <2>4 DEF ArbInv, ArbTypeOK, NextCycle, BlockStarts, Dec
  <2> QED
    BY <2>3, <2>4
<1> QED
  BY <1>2, <1>3, <1>4

\* The counters of the fetcher.
FetchTypeOK ==
  /\ share \in Shares /\ go \in BOOLEAN
  /\ syncCtr \in 0..Group-1 /\ ptr \in 0..Buffer-1
  /\ data \in [0..Buffer-1 -> 0..Words-1]
  /\ word \in 0..Words-1 /\ base \in 0..Words-1 /\ age \in 0..2

LEMMA ModRange ==
  ASSUME NEW n \in Nat, NEW m \in Nat \ {0}
  PROVE  n % m \in 0..m-1
BY SMT

LEMMA FetchStep ==
  ASSUME FetchTypeOK, NEW req \in BOOLEAN, NEW start \in BOOLEAN, NEW end \in BOOLEAN,
         NEW mode \in Shares, Cycle(req, start, end, mode)
  PROVE  FetchTypeOK'
<1>1. Group \in Nat \ {0} /\ Words \in Nat \ {0} /\ Buffer \in Nat \ {0}
  BY ArbiterAssumption, FetchAssumption DEF ArbiterAssumption, FetchAssumption, Group, Words
<1>2. share' \in Shares
  BY DEF Cycle
<1>3. go' \in BOOLEAN
  BY DEF Cycle, Window, FetchTypeOK
<1>4. syncCtr' \in 0..Group-1
  BY <1>1, ModRange DEF Cycle, Window, FetchTypeOK
<1>5. ptr' \in 0..Buffer-1
  <2>1. ptr' \in {0, ptr, (ptr + 1) % Buffer}
    BY DEF Cycle, Store
  <2>2. (ptr + 1) % Buffer \in 0..Buffer-1
    BY <1>1, ModRange DEF FetchTypeOK
  <2> QED
    BY <1>1, <2>1, <2>2 DEF FetchTypeOK
<1>6. data' \in [0..Buffer-1 -> 0..Words-1]
  <2>1. data' = IF cur = "video" THEN [data EXCEPT ![ptr] = word] ELSE data
    BY DEF Cycle, Store
  <2> QED
    BY <2>1 DEF FetchTypeOK
<1>7. word' \in 0..Words-1
  BY <1>1, ModRange DEF Cycle, Store, FetchTypeOK
<1>8. base' \in 0..Words-1
  BY <1>7 DEF Cycle, Store, FetchTypeOK
<1>9. age' \in 0..2
  BY DEF Cycle, Age, FetchTypeOK
<1> QED
  BY <1>2, <1>3, <1>4, <1>5, <1>6, <1>7, <1>8, <1>9 DEF FetchTypeOK

\* The arbiter's invariant holds under the fetcher, for blocks and modes of any
\* size, and every counter keeps its range.
THEOREM ArbiterInvariant == Spec => [](ArbInv /\ FetchTypeOK)
<1>1. Init => ArbInv /\ FetchTypeOK
  <2> SUFFICES ASSUME Init PROVE ArbInv /\ FetchTypeOK
    OBVIOUS
  <2>1. Block \in Nat /\ Block > 1 /\ Buffer \in Nat \ {0}
    BY ArbiterAssumption, FetchAssumption DEF ArbiterAssumption, FetchAssumption
  <2>2. ArbInv
    <3>1. /\ blkRem = 0 /\ vidRem = 0 /\ ~stall /\ stall \in BOOLEAN
          /\ cur \in {"video", "cpu", "free"}
          /\ due = 0 /\ done = 0 /\ refused = 0
      BY DEF Init, ArbInit
    <3> QED
      BY <2>1, <3>1 DEF ArbInv, ArbTypeOK
  <2>3. 0 \in 0..Group-1 /\ 0 \in 0..Buffer-1 /\ 0 \in 0..Words-1
    BY <2>1 DEF Group, Words
  <2>4. FetchTypeOK
    <3>1. share \in Shares /\ go \in BOOLEAN
      BY DEF Init
    <3>2. /\ syncCtr \in 0..Group-1 /\ ptr \in 0..Buffer-1
          /\ data \in [0..Buffer-1 -> 0..Words-1]
          /\ word \in 0..Words-1 /\ base \in 0..Words-1 /\ age \in 0..2
      BY <2>3 DEF Init
    <3> QED
      BY <3>1, <3>2 DEF FetchTypeOK
  <2> QED
    BY <2>2, <2>4
<1>2. ArbInv /\ FetchTypeOK /\ [Next]_vars => (ArbInv /\ FetchTypeOK)'
  <2> SUFFICES ASSUME ArbInv, FetchTypeOK, [Next]_vars
               PROVE  (ArbInv /\ FetchTypeOK)'
    OBVIOUS
  <2>1. CASE Next
    <3>1. PICK req \in BOOLEAN, start \in BOOLEAN, end \in BOOLEAN, mode \in Shares :
            Cycle(req, start, end, mode)
      BY <2>1 DEF Next
    <3>2. ArbInv'
      BY <3>1, ArbStep DEF Cycle, FetchTypeOK
    <3>3. FetchTypeOK'
      BY <3>1, FetchStep
    <3> QED
      BY <3>2, <3>3
  <2>2. CASE UNCHANGED vars
    BY <2>2 DEF vars, arbVars, ArbInv, ArbTypeOK, FetchTypeOK
  <2> QED
    BY <2>1, <2>2
<1> QED
  BY <1>1, <1>2, PTL DEF Spec

\* Every variable keeps its range; no counter wraps below zero.
THEOREM FetchTypes == Spec => []TypeOK
<1>1. ArbInv /\ FetchTypeOK => TypeOK
  BY DEF ArbInv, FetchTypeOK, TypeOK
<1> QED
  BY <1>1, ArbiterInvariant, PTL

\* The last cycle of a block leaves no video access undone.
THEOREM VideoInTime == Spec => []Deadline
<1>1. ArbInv => Deadline
  BY DEF ArbInv, ArbTypeOK, Deadline
<1> QED
  BY <1>1, ArbiterInvariant, PTL

\* The Z80 misses at most as many cycles of a block as the video needs.
THEOREM CpuInTime == Spec => []CpuServed
<1>1. ArbInv => CpuServed
  BY ArbiterAssumption DEF ArbiterAssumption, ArbInv, ArbTypeOK, CpuServed
<1> QED
  BY <1>1, ArbiterInvariant, PTL

-----------------------------------------------------------------------------
(* The words of a group *)

\* Words of a group.
Size == 2 * share

\* A group that is neither cut short nor larger than the buffer.
Fits == age > 0 /\ Size <= Buffer

\* A word that arrives with the end of this cycle.
Coming == IF cur = "video" THEN 1 ELSE 0

\* Words of the group in the buffer, from the arbiter's count of the block.
Stored == (IF syncCtr \in 1..Block THEN done ELSE share + done) - Coming

WordAt(n) == IF n = Words THEN 0 ELSE n
PtrAt(n) == IF n = Buffer THEN 0 ELSE n

\* The first n words of the group are in the buffer, in order.
Holds(n) ==
  /\ word = WordAt(base + n) /\ ptr = PtrAt(n)
  /\ \A i \in 0..n-1 : data[i] = base + i

\* How the group and the blocks of the arbiter go together.
InBlock ==
  /\ blkRem = IF syncCtr = 0 \/ ~go THEN 0
              ELSE IF syncCtr <= Block THEN Block - syncCtr ELSE Group - syncCtr
  /\ (go \/ syncCtr = 0) /\ (syncCtr # 0 \/ age = 2) => due = share
  /\ ~go => syncCtr \in {0, 1} /\ age = 2
  /\ age = 1 => syncCtr \in {0, 1}

InGroup ==
  /\ syncCtr = 0 /\ age = 1 => word = 0 /\ cur # "video"
  /\ syncCtr # 0 \/ age = 2 => base % Size = 0 /\ Holds(Stored)
  /\ syncCtr = 1 /\ age = 2 =>
       \A i \in 0..Size-1 : data[i] = (base + Words - Size + i) % Words

\* With the arbiter's invariant and the ranges it is inductive.
FetchInv == Coming <= done /\ (Fits => InBlock /\ InGroup)

LEMMA Divides ==
  ASSUME NEW m \in Nat \ {0}, NEW b \in Nat, b % m = 0
  PROVE  /\ (b + m) % m = 0
         /\ \A w \in Nat : w % m = 0 /\ b < w => b + m <= w
<1>1. PICK q \in Nat : b = m * q
  <2>1. b = m * (b \div m) + (b % m) /\ b \div m \in Nat
    OBVIOUS
  <2> QED
    BY <2>1
<1>2. (m * (q + 1)) % m = 0 /\ m * (q + 1) = b + m
  BY <1>1
<1>3. ASSUME NEW w \in Nat, w % m = 0, b < w PROVE b + m <= w
  <2>1. w = m * (w \div m) + (w % m) /\ w \div m \in Nat
    OBVIOUS
  <2>2. PICK v \in Nat : w = m * v
    BY <1>3, <2>1
  <2>3. q < v
    BY <1>1, <1>3, <2>2
  <2>4. q + 1 <= v
    BY <2>3
  <2>5. m * (q + 1) <= m * v
    BY <2>4
  <2> QED
    BY <1>2, <2>2, <2>5
<1> QED
  BY <1>2, <1>3

\* The sizes of a group that fits.
LEMMA GroupFits ==
  ASSUME FetchTypeOK, Size <= Buffer
  PROVE  /\ Size \in Nat \ {0} /\ Words \in Nat \ {0} /\ Words = 2 * Buffer /\ Buffer \in Nat \ {0}
         /\ Words % Size = 0 /\ share \in Nat \ {0}
         /\ base % Size = 0 => base + Size <= Words
<1>1. /\ share \in Nat \ {0} /\ Buffer \in Nat \ {0} /\ Buffer % share = 0
  BY ArbiterAssumption, FetchAssumption DEF ArbiterAssumption, FetchAssumption, FetchTypeOK, Size
<1>2. PICK q \in Nat : Buffer = share * q
  <2>1. Buffer = share * (Buffer \div share) + (Buffer % share) /\ Buffer \div share \in Nat
    BY <1>1
  <2> QED
    BY <1>1, <2>1
<1>3. Words = Size * q
  BY <1>1, <1>2 DEF Words, Size
<1>4. Size \in Nat \ {0} /\ Words \in Nat \ {0} /\ Words = 2 * Buffer
  BY <1>1 DEF Words, Size
<1>5. Words % Size = 0
  BY <1>3, <1>4
<1>6. base \in Nat /\ base < Words
  BY <1>4 DEF FetchTypeOK
<1>7. base % Size = 0 => base + Size <= Words
  BY <1>4, <1>5, <1>6, Divides
<1> QED
  BY <1>1, <1>4, <1>5, <1>7

\* The arbiter never gives more than the share.
LEMMA WithinShare ==
  ASSUME ArbInv
  PROVE  /\ done \in Nat /\ due \in Nat /\ done <= due
         /\ blkRem = 0 => done = due
         /\ Coming \in {0, 1}
<1>1. ArbiterAssumption
  BY ArbiterAssumption
<1> QED
  BY <1>1 DEF ArbiterAssumption, ArbInv, ArbTypeOK, Coming

LEMMA SmallMod ==
  ASSUME NEW m \in Nat \ {0}, NEW n \in 0..m
  PROVE  n % m = IF n = m THEN 0 ELSE n
OBVIOUS

\* The word of this cycle becomes the next one of the group.
LEMMA StoreStep ==
  ASSUME FetchTypeOK, Size <= Buffer, base % Size = 0, NEW n \in Nat, Holds(n), Store(FALSE),
         NEW k \in Nat, k = (IF cur = "video" THEN n + 1 ELSE n), k <= Size
  PROVE  /\ word' = WordAt(base + k)
         /\ \A i \in 0..k - 1 : data'[i] = base + i
         /\ syncCtr # 0 => ptr' = PtrAt(k) /\ base' = base
         /\ syncCtr = 0 => ptr' = 0 /\ base' = word'
<1>1. /\ Size \in Nat \ {0} /\ Words \in Nat \ {0} /\ Words = 2 * Buffer /\ Buffer \in Nat \ {0}
      /\ base + Size <= Words /\ base \in Nat
  BY GroupFits DEF FetchTypeOK
<1>2. /\ data' = IF cur = "video" THEN [data EXCEPT ![ptr] = word] ELSE data
      /\ ptr' = IF syncCtr = 0 THEN 0 ELSE IF cur = "video" THEN (ptr + 1) % Buffer ELSE ptr
      /\ word' = IF cur = "video" THEN (word + 1) % Words ELSE word
      /\ base' = IF syncCtr = 0 THEN word' ELSE base
  BY DEF Store, ClearsPtr
<1>3. /\ word = WordAt(base + n) /\ ptr = PtrAt(n) /\ \A i \in 0..n-1 : data[i] = base + i
  BY DEF Holds
<1>4. CASE cur # "video"
  <2> QED
    BY <1>1, <1>2, <1>3, <1>4
<1>5. CASE cur = "video"
  <2>1. k = n + 1
    BY <1>5
  <2>2. n < Size /\ n < Buffer /\ base + n < Words
    BY <1>1, <2>1
  <2>3. word = base + n /\ ptr = n
    BY <1>1, <1>3, <2>2 DEF WordAt, PtrAt
  <2>4. word' = WordAt(base + n + 1)
    <3>0. base + n + 1 \in 0..Words
      BY <1>1, <2>2
    <3>1. (base + n + 1) % Words = IF base + n + 1 = Words THEN 0 ELSE base + n + 1
      BY <1>1, <3>0, SmallMod
    <3> QED
      BY <1>2, <1>5, <2>3, <3>1 DEF WordAt
  <2>5. syncCtr # 0 => ptr' = PtrAt(n + 1)
    <3>0. n + 1 \in 0..Buffer
      BY <1>1, <2>2
    <3>1. (n + 1) % Buffer = IF n + 1 = Buffer THEN 0 ELSE n + 1
      BY <1>1, <3>0, SmallMod
    <3> QED
      BY <1>2, <1>5, <2>3, <3>1 DEF PtrAt
  <2>6. ASSUME NEW i \in 0..n PROVE data'[i] = base + i
    <3>1. data \in [0..Buffer-1 -> 0..Words-1] /\ i \in 0..Buffer-1 /\ ptr \in 0..Buffer-1
      BY <1>1, <2>2, <2>6 DEF FetchTypeOK
    <3>2. data' = [data EXCEPT ![n] = base + n]
      BY <1>2, <1>5, <2>3
    <3>3. CASE i = n
      BY <3>1, <3>2, <3>3
    <3>4. CASE i # n
      BY <1>3, <2>6, <3>1, <3>2, <3>4
    <3> QED
      BY <3>3, <3>4
  <2>7. k - 1 = n /\ base + k = base + n + 1
    BY <1>1, <2>1
  <2> QED
    BY <1>2, <2>1, <2>4, <2>5, <2>6, <2>7
<1> QED
  BY <1>4, <1>5

\* The arbiter's cycle: within a block, into the next one, and into none.
LEMMA BlockStep ==
  ASSUME ArbInv, NEW req \in BOOLEAN, Arbitrate(go, share, req)
  PROVE  /\ blkRem # 0 => /\ blkRem' = blkRem - 1 /\ due' = due
                          /\ done' = done + Coming'
         /\ blkRem = 0 /\ go => blkRem' = Block - 1 /\ due' = share /\ done' = Coming'
         /\ blkRem = 0 /\ ~go => blkRem' = 0 /\ due' = 0 /\ done' = Coming' /\ cur' # "video"
<1>1. blkRem \in Nat
  BY DEF ArbInv, ArbTypeOK
<1>2. /\ blkRem' = IF BlockStarts(go) THEN Block - 1 ELSE Dec(blkRem)
      /\ cur' = NextCycle(go, share, req)
      /\ due' = IF BlockStarts(go) THEN share ELSE IF blkRem = 0 THEN 0 ELSE due
      /\ done' = IF blkRem = 0 THEN Coming' ELSE done + Coming'
  BY DEF Arbitrate, Coming
<1>3. blkRem = 0 /\ ~go => cur' # "video"
  BY <1>2 DEF NextCycle, BlockStarts
<1> QED
  BY <1>1, <1>2, <1>3 DEF BlockStarts, Dec

LEMMA GroupStep ==
  ASSUME ArbInv, FetchTypeOK, FetchInv, ArbInv', FetchTypeOK',
         NEW req \in BOOLEAN, NEW start \in BOOLEAN, NEW end \in BOOLEAN, NEW mode \in Shares,
         Cycle(req, start, end, mode)
  PROVE  FetchInv'
<1> SUFFICES ASSUME Fits' PROVE InBlock' /\ InGroup'
  <2>1. Arbitrate(go, share, req)
    BY DEF Cycle
  <2>2. blkRem = 0 => done' = Coming' /\ Coming' \in {0, 1}
    BY <2>1, BlockStep DEF Coming, FetchTypeOK
  <2>3. blkRem # 0 => done' = done + Coming' /\ Coming' \in {0, 1} /\ done \in Nat
    BY <2>1, BlockStep, WithinShare DEF Coming
  <2>4. (Coming <= done)'
    BY <2>2, <2>3
  <2> QED
    BY <2>4 DEF FetchInv
<1>1. Block \in Nat /\ Block > 1 /\ Group = 2 * Block
  BY ArbiterAssumption DEF ArbiterAssumption, Group
<1>2. /\ Arbitrate(go, share, req) /\ Store(start) /\ share' = mode
      /\ start => ~go /\ blkRem = 0 /\ cur # "video"
      /\ go' = IF start THEN TRUE ELSE IF end THEN FALSE ELSE go
      /\ syncCtr' = IF start THEN 0 ELSE (syncCtr + 1) % Group
      /\ age' = Age(start, end, mode)
  BY DEF Cycle, Window
<1>3. CASE start
  <2>1. age' = 1 /\ syncCtr' = 0 /\ go' /\ word' = 0
    BY <1>2, <1>3 DEF Age, Store
  <2>2. blkRem' = 0 /\ cur' # "video"
    BY <1>2, <1>3, BlockStep
  <2> QED
    BY <2>1, <2>2 DEF InBlock, InGroup
<1>4. CASE ~start
  <2>1. /\ mode = share /\ ~(end /\ go /\ syncCtr # Group - 1)
        /\ age \in 1..2 /\ age' = (IF syncCtr = 1 THEN 2 ELSE age)
        /\ syncCtr = 1 => go
    BY <1>2, <1>4 DEF Fits, Age, Syncs, FetchTypeOK
  <2>2. share' = share /\ Size' = Size /\ Fits /\ Size <= Buffer
    BY <1>2, <2>1 DEF Fits, Size
  <2>3. InBlock /\ InGroup
    BY <2>2 DEF FetchInv
  <2>4. /\ Size \in Nat \ {0} /\ Words \in Nat \ {0} /\ Words = 2 * Buffer /\ Buffer \in Nat \ {0}
        /\ Words % Size = 0 /\ share \in Nat \ {0} /\ Size = 2 * share
        /\ base \in Nat /\ (base % Size = 0 => base + Size <= Words)
        /\ syncCtr \in 0..Group-1
    BY <2>2, GroupFits DEF Size, FetchTypeOK
  <2>5. /\ done \in Nat /\ due \in Nat /\ done <= due /\ (blkRem = 0 => done = due)
    BY WithinShare
  <2>13. PICK v \in {0, 1} : v = Coming /\ v = (IF cur = "video" THEN 1 ELSE 0)
    BY DEF Coming
  <2>14. PICK w \in {0, 1} : w = Coming'
    BY DEF Coming
  <2>6. syncCtr' = IF syncCtr = Group - 1 THEN 0 ELSE syncCtr + 1
    BY <1>1, <1>2, <1>4, <2>4
  <2>7. Coming <= done
    BY DEF FetchInv
  <2>8. Store(FALSE)
    BY <1>2, <1>4 DEF Store
  <2>9. /\ blkRem # 0 => blkRem' = blkRem - 1 /\ due' = due /\ done' = done + Coming'
        /\ blkRem = 0 /\ go => blkRem' = Block - 1 /\ due' = share /\ done' = Coming'
        /\ blkRem = 0 /\ ~go => blkRem' = 0 /\ due' = 0 /\ done' = Coming'
    BY <1>2, BlockStep
  <2>10. go' \in BOOLEAN /\ (syncCtr # Group - 1 => (go' <=> go))
    BY <1>2, <1>4, <2>1 DEF FetchTypeOK
  <2>11. CASE syncCtr = 0
    <3>1. syncCtr' = 1 /\ (go' <=> go) /\ blkRem = 0 /\ age' = age
      BY <1>1, <2>1, <2>3, <2>6, <2>10, <2>11 DEF InBlock
    <3>2. InBlock'
      BY <1>1, <2>1, <2>2, <2>3, <2>9, <3>1 DEF InBlock
    <3>3. Stored' = 0
      <4>1. done' = w /\ Stored' = done' - w
        BY <1>1, <2>9, <2>14, <3>1 DEF Stored
      <4> QED
        BY <4>1
    <3>4. CASE age = 1
      <4>1. word' = 0 /\ base' = 0 /\ ptr' = 0
        BY <2>3, <2>8, <2>11, <3>4 DEF InGroup, Store, ClearsPtr
      <4>2. base' % Size' = 0
        BY <2>2, <2>4, <4>1
      <4>3. Holds(Stored)'
        BY <2>4, <3>3, <4>1 DEF Holds, WordAt, PtrAt, Words
      <4> QED
        BY <3>1, <3>2, <3>4, <4>2, <4>3 DEF InGroup
    <3>5. CASE age = 2
      <4>0. Size - v \in Nat
        BY <2>4, <2>13
      <4>1. PICK n \in Nat : n = Size - v
        BY <4>0
      <4>2. Stored = n
        BY <2>3, <2>4, <2>5, <2>11, <2>13, <3>1, <3>5, <4>1 DEF InBlock, Stored
      <4>3. base % Size = 0 /\ Holds(n)
        BY <2>3, <3>5, <4>2 DEF InGroup, Holds
      <4>4. PICK k \in Nat : k = Size
        BY <2>4
      <4>5. /\ word' = WordAt(base + k) /\ ptr' = 0 /\ base' = word'
            /\ \A i \in 0..k - 1 : data'[i] = base + i
        <5>1. k = (IF cur = "video" THEN n + 1 ELSE n) /\ k <= Size
          BY <2>4, <2>5, <2>13, <4>1, <4>4
        <5> QED
          BY <2>2, <2>8, <2>11, <4>3, <5>1, StoreStep
      <4>6. base + k = base + Size /\ base + Size <= Words
        BY <2>4, <4>3, <4>4
      <4>7. base' = IF base + Size = Words THEN 0 ELSE base + Size
        BY <4>5, <4>6 DEF WordAt
      <4>8. base' % Size' = 0
        <5>1. (base + Size) % Size = 0
          BY <2>4, <4>3, Divides
        <5>2. 0 % Size = 0
          BY <2>4
        <5> QED
          BY <2>2, <4>7, <5>1, <5>2
      <4>9. Holds(Stored)'
        <5>1. base' + 0 = base' /\ base' # Words /\ Words' = Words
          BY <2>4, <4>6, <4>7 DEF Words
        <5> QED
          BY <2>4, <3>3, <4>5, <5>1 DEF Holds, WordAt, PtrAt
      <4>10. ASSUME NEW i \in 0..Size-1 PROVE data'[i] = (base' + Words - Size + i) % Words
        <5>1. data'[i] = base + i
          <6>1. i \in 0..k - 1
            BY <4>4, <4>10
          <6> QED
            BY <4>5, <6>1
        <5>2. base + i \in 0..Words /\ base + i # Words /\ base + i \in Nat
          BY <2>4, <4>6, <4>10
        <5>3. CASE base + Size = Words
          <6>1. base' + Words - Size + i = base + i
            BY <2>4, <4>7, <4>10, <5>3
          <6>2. (base + i) % Words = base + i
            BY <2>4, <5>2, SmallMod
          <6> QED
            BY <5>1, <6>1, <6>2
        <5>4. CASE base + Size # Words
          <6>1. base' + Words - Size + i = (base + i) + Words
            BY <2>4, <4>7, <4>10, <5>4
          <6>2. ((base + i) + Words) % Words = base + i
            BY <2>4, <5>2
          <6> QED
            BY <5>1, <6>1, <6>2
        <5> QED
          BY <5>3, <5>4
      <4>11. \A i \in 0..Size'-1 : data'[i] = (base' + Words' - Size' + i) % Words'
        BY <2>2, <4>10 DEF Words
      <4> QED
        BY <3>1, <3>2, <4>8, <4>9, <4>11 DEF InGroup
    <3> QED
      BY <2>1, <3>4, <3>5
  <2>12. CASE syncCtr # 0
    <3>1. go /\ due = share /\ age' = 2 /\ syncCtr' # 1
      BY <1>1, <2>1, <2>3, <2>4, <2>6, <2>12 DEF InBlock
    <3>2. PICK k \in Nat : k = (IF syncCtr \in 1..Block THEN done ELSE share + done)
      BY <2>4, <2>5
    <3>3. PICK n \in Nat : n = k - v
      <4>1. v <= done /\ done <= k
        BY <2>4, <2>5, <2>7, <2>13, <3>2
      <4>2. k - v \in Nat
        BY <2>5, <2>13, <4>1
      <4> QED
        BY <4>2
    <3>4. n = Stored
      BY <2>13, <3>2, <3>3 DEF Stored
    <3>5. base % Size = 0 /\ Holds(n)
      BY <2>3, <2>12, <3>4 DEF InGroup, Holds
    <3>6. /\ word' = WordAt(base + k) /\ ptr' = PtrAt(k) /\ base' = base
          /\ \A i \in 0..k - 1 : data'[i] = base + i
      <4>1. k = (IF cur = "video" THEN n + 1 ELSE n) /\ k <= Size
        BY <2>4, <2>5, <2>13, <3>1, <3>2, <3>3
      <4> QED
        BY <2>2, <2>8, <2>12, <3>5, <4>1, StoreStep
    <3>7. InBlock' /\ Stored' = k
      <4>1. blkRem = IF syncCtr <= Block THEN Block - syncCtr ELSE Group - syncCtr
        BY <2>3, <2>12, <3>1 DEF InBlock
      <4>2. CASE syncCtr \in 1..Block-1
        <5>1. blkRem # 0 /\ syncCtr' = syncCtr + 1 /\ go' /\ syncCtr' \in 1..Block
          BY <1>1, <2>6, <2>10, <3>1, <4>1, <4>2
        <5>2. blkRem' = Block - syncCtr' /\ due' = share'
          BY <1>1, <2>2, <2>9, <3>1, <4>1, <4>2, <5>1
        <5>3. Stored' = k
          <6>1. k = done /\ done' = done + w /\ Stored' = done' - w
            BY <1>1, <2>9, <2>14, <3>2, <4>2, <5>1 DEF Stored
          <6> QED
            BY <2>5, <6>1
        <5> QED
          BY <1>1, <3>1, <5>1, <5>2, <5>3 DEF InBlock
      <4>3. CASE syncCtr = Block
        <5>1. blkRem = 0 /\ done = share /\ syncCtr' = Block + 1 /\ go'
          BY <1>1, <2>5, <2>6, <2>10, <3>1, <4>1, <4>3
        <5>2. blkRem' = Group - syncCtr' /\ due' = share'
          BY <1>1, <2>2, <2>9, <3>1, <5>1
        <5>3. Stored' = k
          <6>1. k = done /\ done' = w /\ Stored' = share + done' - w
            BY <1>1, <2>2, <2>9, <2>14, <3>1, <3>2, <4>3, <5>1 DEF Stored
          <6> QED
            BY <2>4, <2>5, <5>1, <6>1
        <5> QED
          BY <1>1, <3>1, <5>1, <5>2, <5>3 DEF InBlock
      <4>4. CASE syncCtr \in Block+1..Group-1
        <5>1. blkRem = Group - syncCtr /\ blkRem # 0 /\ syncCtr' \notin 1..Block
          BY <1>1, <2>6, <4>1, <4>4
        <5>2. blkRem' = (IF syncCtr' = 0 THEN 0 ELSE Group - syncCtr') /\ due' = share'
          BY <1>1, <2>2, <2>6, <2>9, <3>1, <4>4, <5>1
        <5>3. Stored' = k
          <6>1. k = share + done
            BY <1>1, <3>2, <4>4
          <6>2. done' = done + w
            BY <2>9, <2>14, <5>1
          <6>3. Stored' = (share' + done') - Coming'
            BY <5>1, Zenon DEF Stored
          <6>4. Stored' = (share + (done + w)) - w
            BY <2>2, <2>14, <6>2, <6>3
          <6> QED
            BY <2>4, <2>5, <6>1, <6>4
        <5>4. go' \/ syncCtr' = 0
          BY <2>6, <2>10, <3>1
        <5>5. syncCtr' = 0 \/ ~(syncCtr' <= Block)
          BY <1>1, <2>6, <4>4
        <5>6. Group' = Group /\ Block' = Block
          BY DEF Group
        <5> QED
          BY <1>1, <3>1, <5>2, <5>3, <5>4, <5>5, <5>6 DEF InBlock
      <4> QED
        BY <1>1, <2>4, <2>12, <4>2, <4>3, <4>4
    <3>8. Holds(Stored)'
      <4> QED
        BY <3>6, <3>7 DEF Holds, WordAt, PtrAt, Words
    <3> QED
      BY <2>2, <3>1, <3>5, <3>6, <3>7, <3>8 DEF InGroup
  <2> QED
    BY <2>11, <2>12
<1> QED
  BY <1>3, <1>4

\* The counters, the blocks and the groups keep step whatever the Z80 asks for and
\* whenever it changes the mode or a window opens and closes: the buffer holds the
\* words the arbiter has counted in the group, in their order.
THEOREM GroupInvariant == Spec => [](ArbInv /\ FetchTypeOK /\ FetchInv)
<1>1. Init => FetchInv
  BY DEF Init, ArbInit, FetchInv, Fits, Coming
<1>2. /\ ArbInv /\ FetchTypeOK /\ FetchInv /\ (ArbInv /\ FetchTypeOK)' /\ [Next]_vars
      => FetchInv'
  <2> SUFFICES ASSUME ArbInv, FetchTypeOK, FetchInv, ArbInv', FetchTypeOK', [Next]_vars
               PROVE  FetchInv'
    OBVIOUS
  <2>1. CASE Next
    <3>1. PICK req \in BOOLEAN, start \in BOOLEAN, end \in BOOLEAN, mode \in Shares :
            Cycle(req, start, end, mode)
      BY <2>1 DEF Next
    <3> QED
      BY <3>1, GroupStep
  <2>2. CASE UNCHANGED vars
    BY <2>2 DEF vars, arbVars, FetchInv, Fits, Size, Coming, InBlock, InGroup, Stored,
                Holds, WordAt, PtrAt
  <2> QED
    BY <2>1, <2>2
<1> QED
  BY <1>1, <1>2, ArbiterInvariant, PTL DEF Spec

\* What the renderer takes over at a sync is one whole group of words in order, for
\* every size of block, of buffer and of share that fits into it: however the Z80
\* delays the accesses, the second block is done when the renderer comes.
THEOREM PicturesWhole == Spec => []PicWhole
<1>1. FetchTypeOK /\ FetchInv => PicWhole
  <2> SUFFICES ASSUME FetchTypeOK, FetchInv, Syncs, age = 2, 2 * share <= Buffer
               PROVE  /\ base % (2 * share) = 0
                      /\ \A i \in 0..2*share-1 :
                           data[i] = (base + Words - 2 * share + i) % Words
    BY DEF PicWhole
  <2>1. InGroup
    BY DEF FetchInv, Fits, Size
  <2> QED
    BY <2>1 DEF Syncs, InGroup, Size
<1> QED
  BY <1>1, GroupInvariant, PTL
=============================================================================
