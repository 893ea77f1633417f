----------------------------- MODULE VideoFetch -----------------------------
(***************************************************************************)
(* The video fetcher (video_fetch.v) on top of the arbiter: while its       *)
(* window is open it keeps the arbiter's go up, stores the words it gets    *)
(* into a buffer of four, and hands them to the renderer every Group DRAM   *)
(* cycles.  A word is the number of its access since the window opened,     *)
(* modulo Words.                                                            *)
(***************************************************************************)
EXTENDS DramArbiter

CONSTANT Buffer   \* words of the buffer: 4

\* Shares and the buffer are powers of two.
ASSUME FetchAssumption ==
  /\ Buffer \in Nat \ {0}
  /\ \A s \in Shares : 2 * s <= Buffer => Buffer % s = 0

Group == 2 * Block
Words == 2 * Buffer

VARIABLES
  share,    \* the mode's share of a block, changed by the Z80 at any time
  go,       \* video_go
  syncCtr,  \* fetch_sync_ctr
  ptr,      \* fetch_ptr
  data,     \* fetch_data
  \* history
  word,     \* the number of the next access
  base,     \* what it was when the group began
  age       \* 0: mode or window changed within a group; 1: the first group of
            \* a window is being fetched; 2: a later one

vars == <<arbVars, share, go, syncCtr, ptr, data, word, base, age>>

-----------------------------------------------------------------------------
\* fetch_start and fetch_end of a line.  Windows are more than a block apart.
Window(start, end) ==
  /\ start => ~go /\ blkRem = 0 /\ cur # "video"
  /\ go' = IF start THEN TRUE ELSE IF end THEN FALSE ELSE go
  /\ syncCtr' = IF start THEN 0 ELSE (syncCtr + 1) % Group

\* Mutant: one cycle late.
ClearsLate == syncCtr = 1

\* fetch_ptr_clr
ClearsPtr == syncCtr = 0

\* fetch_sync
Syncs == syncCtr = 1

\* The word of the cycle that ends is stored.
Store(start) ==
  LET strobe == cur = "video" IN
  /\ data' = IF strobe THEN [data EXCEPT ![ptr] = word] ELSE data
  /\ ptr' = IF ClearsPtr THEN 0 ELSE IF strobe THEN (ptr + 1) % Buffer ELSE ptr
  /\ word' = IF start THEN 0 ELSE IF strobe THEN (word + 1) % Words ELSE word
  /\ base' = IF syncCtr = 0 THEN word' ELSE base

\* A window closes in the last cycle of a group, or cuts the group short.
Age(start, end, mode) ==
  CASE start                                     -> 1
    [] ~start /\ (mode # share \/ (end /\ go /\ syncCtr # Group - 1)) -> 0
    [] OTHER -> IF ~Syncs THEN age ELSE IF go /\ age > 0 THEN 2 ELSE 0

Cycle(req, start, end, mode) ==
  /\ Window(start, end)
  /\ Arbitrate(go, share, req)
  /\ Store(start)
  /\ share' = mode
  /\ age' = Age(start, end, mode)

Init ==
  /\ ArbInit
  /\ share \in Shares
  /\ go = FALSE /\ syncCtr = 0 /\ ptr = 0
  /\ data = [i \in 0..Buffer-1 |-> 0]
  /\ word = 0 /\ base = 0 /\ age = 0

Next ==
  \E req, start, end \in BOOLEAN, mode \in Shares : Cycle(req, start, end, mode)

Spec == Init /\ [][Next]_vars

-----------------------------------------------------------------------------
(* Properties *)

TypeOK ==
  /\ ArbTypeOK
  /\ share \in Shares /\ go \in BOOLEAN
  /\ syncCtr \in 0..Group-1 /\ ptr \in 0..Buffer-1
  /\ data \in [0..Buffer-1 -> 0..Words-1]
  /\ word \in 0..Words-1 /\ base \in 0..Words-1 /\ age \in 0..2

\* In a mode whose group fits into the buffer, what pic_bits takes over at a sync
\* are the words of one group, all of them and in order, however the Z80 delayed
\* them.  (Words that arrive with the sync are not in them.)
PicWhole ==
  Syncs /\ age = 2 /\ 2 * share <= Buffer =>
    /\ base % (2 * share) = 0
    /\ \A i \in 0..2*share-1 : data[i] = (base + Words - 2 * share + i) % Words
=============================================================================
