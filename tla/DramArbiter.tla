---------------------------- MODULE DramArbiter ----------------------------
(***************************************************************************)
(* The arbiter of the DRAM (arbiter.v): back-to-back blocks of Block DRAM   *)
(* cycles, in each of which the video fetcher gets as many cycles as its    *)
(* mode needs, as early as it can, and the Z80 any cycle it asks for, until *)
(* the video accesses left fill the block.  A step is one DRAM cycle: at    *)
(* its end (cend) the next one is given away.                               *)
(***************************************************************************)
EXTENDS Naturals

CONSTANTS
  Block,   \* cycles of a block: 8; the counters count modulo Block
  Shares   \* video accesses of a block that the modes ask for: 1 << bw

ASSUME ArbiterAssumption ==
  /\ Block \in Nat /\ Block > 1
  /\ Shares \subseteq 1..Block

VARIABLES
  blkRem,   \* cycles left in the block
  vidRem,   \* video accesses left in the block
  stall,    \* the block is all video
  cur,      \* curr_cycle: "video", "cpu" or "free"
  \* history, of the block in progress
  due,      \* the share it began with
  done,     \* video cycles given
  refused   \* cycles the Z80 could not have

arbVars == <<blkRem, vidRem, stall, cur, due, done, refused>>

-----------------------------------------------------------------------------
BlockStarts(go) == blkRem = 0 /\ go

\* Mutant: zero is not looked at.
DecOnly(n) == n - 1

Dec(n) == IF n = 0 THEN 0 ELSE n - 1

\* The counters are as wide as Block - 1.
Wrap(n) == IF n >= Block THEN n - Block ELSE n

\* Mutant: one cycle is kept in reserve.
NextEarly(go, share) ==
  IF blkRem = 0 THEN ~(go /\ share = Block)
  ELSE ~stall /\ vidRem + 1 < blkRem

\* cpu_next: whether the Z80 can have the next cycle.
CpuNext(go, share) ==
  IF blkRem = 0 THEN ~(go /\ share = Block)
  ELSE ~stall /\ vidRem # blkRem

NextCycle(go, share, req) ==
  IF CpuNext(go, share) /\ req THEN "cpu"
  ELSE IF BlockStarts(go) \/ (blkRem # 0 /\ (stall \/ vidRem # 0)) THEN "video"
  ELSE "free"

\* Mutant: the first access of a block that starts with video is not counted.
AllLeft(share, req) == Wrap(share)

\* Video accesses left behind the first cycle of a block, in the width of the
\* counter (vidmax).
FirstLeft(share, req) ==
  IF req THEN Wrap(share) ELSE Wrap(share + Block - 1)

Arbitrate(go, share, req) ==
  LET next == NextCycle(go, share, req)
      starts == BlockStarts(go)
      one(b) == IF b THEN 1 ELSE 0
  IN  /\ blkRem' = IF starts THEN Block - 1 ELSE Dec(blkRem)
      /\ vidRem' = IF starts THEN FirstLeft(share, req)
                   ELSE IF next = "video" THEN Dec(vidRem) ELSE vidRem
      /\ stall' = IF blkRem = 0 THEN go /\ share = Block ELSE stall
      /\ cur' = next
      /\ due' = IF starts THEN share ELSE IF blkRem = 0 THEN 0 ELSE due
      /\ done' = IF blkRem = 0 THEN one(next = "video") ELSE done + one(next = "video")
      /\ refused' = IF blkRem = 0 THEN one(~CpuNext(go, share))
                    ELSE refused + one(~CpuNext(go, share))

ArbInit ==
  /\ blkRem = 0 /\ vidRem = 0 /\ stall = FALSE /\ cur = "free"
  /\ due = 0 /\ done = 0 /\ refused = 0

-----------------------------------------------------------------------------
ArbTypeOK ==
  /\ blkRem \in 0..Block-1 /\ vidRem \in 0..Block-1
  /\ stall \in BOOLEAN /\ cur \in {"video", "cpu", "free"}
  /\ due \in Shares \cup {0} /\ done \in 0..Block /\ refused \in 0..Block

\* Whatever the Z80 asks for and whenever the mode changes, the last cycle of a
\* block leaves no video access undone, and none too many is made.
Deadline == blkRem = 0 => done = due

\* The Z80 misses at most as many cycles of a block as the video needs.
CpuServed == refused <= due

\* What makes it so: video accesses left fit into the block.
ArbInv ==
  /\ ArbTypeOK
  /\ vidRem <= blkRem
  /\ stall <=> due = Block
  /\ stall => done + blkRem = due /\ refused + blkRem = due
  /\ ~stall => done + vidRem = due /\ (refused = 0 \/ vidRem = blkRem)
  /\ ~stall => refused <= done
=============================================================================
