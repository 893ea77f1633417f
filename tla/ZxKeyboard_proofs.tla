-------------------------- MODULE ZxKeyboard_proofs --------------------------
(***************************************************************************)
(* Proofs about ZxKeyboard, for every set of keys and scancodes, every     *)
(* number of rows, every length of the FIFO and of the pause.              *)
(***************************************************************************)
EXTENDS ZxKeyboard, FiniteSetTheorems, TLAPS

(***************************************************************************)
(* What update_keys works on.                                              *)
(***************************************************************************)
Causes == {"full", "cleared"}
KeyState ==
  {s \in [counters : [Keys -> Nat], fifo : Seq(Code), lost : SUBSET Causes] :
     Len(s.fifo) <= FifoLen}

StateTells(s, m) == s.lost = {} => TellsOf(s.fifo, s.counters, m)

Now == [counters |-> counters, fifo |-> fifo, lost |-> lost]

LEMMA Sizes ==
  /\ Rows \in Nat \ {0} /\ FifoLen \in Nat \ {0} /\ ShiftPause \in Nat \ {0}
  /\ Users \subseteq Bounds
BY ZxKeyboardAssumption DEF ZxKeyboardAssumption

(***************************************************************************)
(* The codes in the FIFO.                                                  *)
(***************************************************************************)

\* A code put last decides about its keys (zx_fifo_put).
LEMMA AppendTells ==
  ASSUME NEW f \in Seq(Code), NEW code \in Code,
         NEW c \in [Keys -> Nat], NEW d \in [Keys -> Nat], NEW m,
         TellsOf(f, c, m),
         \A k \in Keys : About(code, k) => (Presses(code) <=> d[k] > 0),
         \A k \in Keys : ~About(code, k) => (c[k] > 0 <=> d[k] > 0)
  PROVE  TellsOf(Append(f, code), d, m)
<1> DEFINE g == Append(f, code)
<1>1. /\ Len(g) = Len(f) + 1 /\ g[Len(g)] = code
      /\ \A i \in 1..Len(f) : g[i] = f[i]
      /\ Len(f) \in Nat
  OBVIOUS
<1> HIDE DEF g
<1> SUFFICES ASSUME NEW k \in Keys
             PROVE  /\ \A i \in 1..Len(g) : IsLast(g, i, k) => (Presses(g[i]) <=> d[k] > 0)
                    /\ (\A i \in 1..Len(g) : ~About(g[i], k)) => (k \in m <=> d[k] > 0)
  BY DEF TellsOf, g
<1>2. CASE About(code, k)
  <2>1. ASSUME NEW i \in 1..Len(g), IsLast(g, i, k) PROVE i = Len(g)
    BY <1>1, <1>2, <2>1 DEF IsLast
  <2>2. About(g[Len(g)], k) /\ Len(g) \in 1..Len(g)
    BY <1>1, <1>2
  <2>3. Presses(g[Len(g)]) <=> d[k] > 0
    BY <1>1, <1>2
  <2> QED
    BY <2>1, <2>2, <2>3
<1>3. CASE ~About(code, k)
  <2>1. c[k] > 0 <=> d[k] > 0
    BY <1>3
  <2>2. ASSUME NEW i \in 1..Len(g), IsLast(g, i, k)
        PROVE  Presses(g[i]) <=> d[k] > 0
    <3>1. i \in 1..Len(f) /\ About(g[i], k)
      BY <1>1, <1>3, <2>2 DEF IsLast
    <3>2. IsLast(f, i, k)
      <4>1. About(f[i], k)
        BY <1>1, <3>1
      <4>2. ASSUME NEW j \in i+1..Len(f) PROVE ~About(f[j], k)
        BY <1>1, <2>2, <3>1 DEF IsLast
      <4> QED
        BY <4>1, <4>2 DEF IsLast
    <3>3. Presses(f[i]) <=> c[k] > 0
      BY <3>1, <3>2 DEF TellsOf
    <3> QED
      BY <1>1, <2>1, <3>1, <3>3
  <2>3. ASSUME \A i \in 1..Len(g) : ~About(g[i], k) PROVE k \in m <=> d[k] > 0
    <3>1. \A i \in 1..Len(f) : ~About(f[i], k)
      BY <1>1, <2>3
    <3> QED
      BY <2>1, <3>1 DEF TellsOf
  <2> QED
    BY <2>2, <2>3
<1> QED
  BY <1>2, <1>3

\* Taking the first code and acting on it (zx_fifo_get).
LEMMA TailTells ==
  ASSUME NEW f \in Seq(Code), f # <<>>, NEW c \in [Keys -> Nat], NEW m, NEW n,
         TellsOf(f, c, m),
         \A k \in Keys : About(Head(f), k) => (k \in n <=> Presses(Head(f))),
         \A k \in Keys : ~About(Head(f), k) => (k \in n <=> k \in m)
  PROVE  TellsOf(Tail(f), c, n)
<1> DEFINE g == Tail(f)
<1>1. /\ Len(f) = Len(g) + 1 /\ Len(g) \in Nat
      /\ \A i \in 1..Len(g) : g[i] = f[i + 1]
      /\ Head(f) = f[1]
  OBVIOUS
<1> HIDE DEF g
<1> SUFFICES ASSUME NEW k \in Keys
             PROVE  /\ \A i \in 1..Len(g) : IsLast(g, i, k) => (Presses(g[i]) <=> c[k] > 0)
                    /\ (\A i \in 1..Len(g) : ~About(g[i], k)) => (k \in n <=> c[k] > 0)
  BY DEF TellsOf, g
<1>2. ASSUME NEW i \in 1..Len(g), IsLast(g, i, k)
      PROVE  Presses(g[i]) <=> c[k] > 0
  <2>1. i + 1 \in 1..Len(f) /\ g[i] = f[i + 1]
    BY <1>1
  <2>2. ASSUME NEW j \in i+2..Len(f) PROVE ~About(f[j], k)
    <3>1. j - 1 \in i+1..Len(g) /\ g[j - 1] = f[j]
      BY <1>1
    <3> QED
      BY <1>2, <3>1 DEF IsLast
  <2>3. IsLast(f, i + 1, k)
    BY <1>1, <1>2, <2>1, <2>2 DEF IsLast
  <2> QED
    BY <2>1, <2>3 DEF TellsOf
<1>3. ASSUME \A i \in 1..Len(g) : ~About(g[i], k) PROVE k \in n <=> c[k] > 0
  <2>1. \A j \in 2..Len(f) : ~About(f[j], k)
    <3> SUFFICES ASSUME NEW j \in 2..Len(f) PROVE ~About(f[j], k)
      OBVIOUS
    <3>1. j - 1 \in 1..Len(g) /\ g[j - 1] = f[j]
      BY <1>1
    <3> QED
      BY <1>3, <3>1
  <2>2. 1 \in 1..Len(f)
    BY <1>1
  <2>3. CASE About(Head(f), k)
    <3>1. IsLast(f, 1, k)
      BY <1>1, <2>1, <2>3 DEF IsLast
    <3>2. Presses(f[1]) <=> c[k] > 0
      BY <2>2, <3>1 DEF TellsOf
    <3> QED
      BY <1>1, <2>3, <3>2
  <2>4. CASE ~About(Head(f), k)
    <3>1. \A i \in 1..Len(f) : ~About(f[i], k)
      BY <1>1, <2>1, <2>4
    <3> QED
      BY <2>4, <3>1 DEF TellsOf
  <2> QED
    BY <2>3, <2>4
<1> QED
  BY <1>2, <1>3

\* Only whether a counter is zero matters.
LEMMA SameTells ==
  ASSUME NEW f, NEW c, NEW d, NEW m, TellsOf(f, c, m),
         \A k \in Keys : c[k] > 0 <=> d[k] > 0
  PROVE  TellsOf(f, d, m)
BY DEF TellsOf

LEMMA CodeTypes ==
  /\ Clear \in Code
  /\ \A k \in Keys : Press(k) \in Code /\ Release(k) \in Code
  /\ ~Presses(Clear)
  /\ \A k \in Keys : Presses(Press(k)) /\ ~Presses(Release(k))
  /\ \A k, l \in Keys : /\ About(Clear, l)
                        /\ About(Press(k), l) <=> k = l
                        /\ About(Release(k), l) <=> k = l
<1>1. CLRKYS \notin Keys
  BY ZxKeyboardAssumption DEF ZxKeyboardAssumption
<1>2. /\ \A k \in Keys : Press(k) \in Code /\ Release(k) \in Code
      /\ \A k \in Keys \cup {CLRKYS} : /\ Press(k).key = k /\ Release(k).key = k
                                      /\ Presses(Press(k)) /\ ~Presses(Release(k))
  BY DEF Release, Press, Code, Presses
<1> QED
  BY <1>1, <1>2 DEF Clear, About, Code

(***************************************************************************)
(* update_keys                                                             *)
(***************************************************************************)
LEMMA PutTypes ==
  ASSUME NEW s \in KeyState, NEW code \in Code
  PROVE  Put(s, code) \in KeyState
<1>1. /\ s = [counters |-> s.counters, fifo |-> s.fifo, lost |-> s.lost]
      /\ s.counters \in [Keys -> Nat]
      /\ s.fifo \in Seq(Code) /\ Len(s.fifo) <= FifoLen
      /\ s.lost \in SUBSET Causes
  BY DEF KeyState
<1>2. CASE Len(s.fifo) < FifoLen
  <2>1. Put(s, code) = [counters |-> s.counters, fifo |-> Append(s.fifo, code),
                        lost |-> s.lost]
    BY <1>1, <1>2 DEF Put
  <2>2. Append(s.fifo, code) \in Seq(Code) /\ Len(Append(s.fifo, code)) <= FifoLen
    BY <1>1, <1>2, ZxKeyboardAssumption DEF ZxKeyboardAssumption
  <2> QED
    BY <1>1, <2>1, <2>2 DEF KeyState
<1>3. CASE ~(Len(s.fifo) < FifoLen)
  <2>1. Put(s, code) = [counters |-> s.counters, fifo |-> s.fifo,
                        lost |-> s.lost \cup {"full"}]
    BY <1>1, <1>3 DEF Put
  <2>2. s.lost \cup {"full"} \in SUBSET Causes
    BY <1>1 DEF Causes
  <2> QED
    BY <1>1, <2>1, <2>2 DEF KeyState
<1> QED
  BY <1>2, <1>3

LEMMA PutTells ==
  ASSUME NEW s \in KeyState, NEW c \in [Keys -> Nat], NEW code \in Code, NEW m,
         StateTells(s, m),
         \A k \in Keys : About(code, k) => (Presses(code) <=> c[k] > 0),
         \A k \in Keys : ~About(code, k) => (s.counters[k] > 0 <=> c[k] > 0)
  PROVE  StateTells(Put([s EXCEPT !.counters = c], code), m)
<1>1. CASE Len(s.fifo) < FifoLen
  <2> DEFINE t == Put([s EXCEPT !.counters = c], code)
  <2>1. t.lost = s.lost /\ t.counters = c /\ t.fifo = Append(s.fifo, code)
    BY <1>1 DEF Put, KeyState
  <2>2. CASE s.lost = {}
    <3>1. TellsOf(s.fifo, s.counters, m)
      BY <2>2 DEF StateTells
    <3>2. s.fifo \in Seq(Code) /\ s.counters \in [Keys -> Nat]
      BY DEF KeyState
    <3>3. TellsOf(Append(s.fifo, code), c, m)
      BY <3>1, <3>2, AppendTells
    <3> QED
      BY <2>1, <3>3 DEF StateTells
  <2> QED
    BY <2>1, <2>2 DEF StateTells
<1>2. CASE ~(Len(s.fifo) < FifoLen)
  <2>1. Put([s EXCEPT !.counters = c], code).lost # {}
    BY <1>2 DEF Put, KeyState, Causes
  <2> QED
    BY <2>1 DEF StateTells
<1> QED
  BY <1>1, <1>2

LEMMA UpdateTypes ==
  ASSUME NEW s \in KeyState, NEW k \in Keys \cup {CLRKYS}, NEW release \in BOOLEAN
  PROVE  UpdateKeys(s, k, release) \in KeyState
<1> DEFINE up == [s EXCEPT !.counters[k] = @ + 1]
           dn == [s EXCEPT !.counters[k] = @ - 1]
           no == [s EXCEPT !.counters = NoCounts]
<1>1. no \in KeyState
  BY DEF KeyState, NoCounts
<1>2. k # CLRKYS => up \in KeyState
  <2> HAVE k # CLRKYS
  <2>1. [s.counters EXCEPT ![k] = @ + 1] \in [Keys -> Nat]
    BY DEF KeyState
  <2>2. up = [s EXCEPT !.counters = [s.counters EXCEPT ![k] = @ + 1]]
    BY DEF KeyState
  <2> QED
    BY <2>1, <2>2 DEF KeyState
<1>3. k # CLRKYS /\ s.counters[k] > 0 => dn \in KeyState
  <2> HAVE k # CLRKYS /\ s.counters[k] > 0
  <2>1. [s.counters EXCEPT ![k] = @ - 1] \in [Keys -> Nat]
    BY DEF KeyState
  <2>2. dn = [s EXCEPT !.counters = [s.counters EXCEPT ![k] = @ - 1]]
    BY DEF KeyState
  <2> QED
    BY <2>1, <2>2 DEF KeyState
<1> HIDE DEF up, dn, no
<1>4. CASE k = CLRKYS
  <2>1. CASE ~release
    <3>1. UpdateKeys(s, k, release) = Put(no, Clear)
      BY <1>4, <2>1 DEF UpdateKeys, no
    <3> QED
      BY <1>1, <3>1, PutTypes, CodeTypes
  <2>2. CASE release
    BY <1>4, <2>2 DEF UpdateKeys
  <2> QED
    BY <2>1, <2>2
<1>5. CASE k # CLRKYS /\ release
  <2>1. CASE s.counters[k] > 0
    <3>1. UpdateKeys(s, k, release) = IF LastUp(dn.counters[k]) THEN Put(dn, Release(k)) ELSE dn
      BY <1>5, <2>1 DEF UpdateKeys, Counted, dn
    <3>2. Put(dn, Release(k)) \in KeyState
      BY <1>3, <1>5, <2>1, PutTypes, CodeTypes
    <3> QED
      BY <1>3, <1>5, <2>1, <3>1, <3>2
  <2>2. CASE ~(s.counters[k] > 0)
    BY <1>5, <2>2 DEF UpdateKeys, Counted
  <2> QED
    BY <2>1, <2>2
<1>6. CASE k # CLRKYS /\ ~release
  <2>1. UpdateKeys(s, k, release) = IF s.counters[k] = 0 THEN Put(up, Press(k)) ELSE up
    BY <1>6 DEF UpdateKeys, up
  <2> QED
    BY <1>2, <1>6, <2>1, PutTypes, CodeTypes
<1> QED
  BY <1>4, <1>5, <1>6

\* What update_keys counts and what it puts into the FIFO agree.
LEMMA UpdateTells ==
  ASSUME NEW s \in KeyState, NEW k \in Keys \cup {CLRKYS}, NEW release \in BOOLEAN,
         NEW m, StateTells(s, m)
  PROVE  StateTells(UpdateKeys(s, k, release), m)
<1> DEFINE up == [s.counters EXCEPT ![k] = @ + 1]
           dn == [s.counters EXCEPT ![k] = @ - 1]
<1>1. s.counters \in [Keys -> Nat] /\ s.fifo \in Seq(Code)
  BY DEF KeyState
<1>2. CASE k = CLRKYS /\ ~release
  <2>1. UpdateKeys(s, k, release) = Put([s EXCEPT !.counters = NoCounts], Clear)
    BY <1>2 DEF UpdateKeys
  <2>2. NoCounts \in [Keys -> Nat] /\ \A l \in Keys : ~(NoCounts[l] > 0)
    BY DEF NoCounts
  <2> QED
    BY <2>1, <2>2, PutTells, CodeTypes
<1>3. CASE k # CLRKYS /\ release /\ s.counters[k] > 0
  <2>1. /\ dn \in [Keys -> Nat] /\ dn[k] = s.counters[k] - 1
        /\ \A l \in Keys \ {k} : dn[l] = s.counters[l]
    BY <1>1, <1>3
  <2>2. [s EXCEPT !.counters[k] = @ - 1] = [s EXCEPT !.counters = dn]
    BY <1>1 DEF KeyState
  <2> HIDE DEF dn
  <2>3. [s EXCEPT !.counters = dn].counters = dn
    BY DEF KeyState
  <2>4. UpdateKeys(s, k, release) =
          IF dn[k] = 0 THEN Put([s EXCEPT !.counters = dn], Release(k))
                       ELSE [s EXCEPT !.counters = dn]
    BY <1>3, <2>2, <2>3 DEF UpdateKeys, Counted, LastUp
  <2>5. CASE dn[k] = 0
    <3>1. \A l \in Keys : About(Release(k), l) => (Presses(Release(k)) <=> dn[l] > 0)
      BY <1>3, <2>1, <2>5, CodeTypes
    <3>2. \A l \in Keys : ~About(Release(k), l) => (s.counters[l] > 0 <=> dn[l] > 0)
      BY <1>3, <2>1, CodeTypes
    <3>3. Release(k) \in Code
      BY <1>3, CodeTypes
    <3>4. StateTells(Put([s EXCEPT !.counters = dn], Release(k)), m)
      BY <2>1, <3>1, <3>2, <3>3, PutTells
    <3> QED
      BY <2>4, <2>5, <3>4
  <2>6. CASE dn[k] # 0
    <3>1. \A l \in Keys : s.counters[l] > 0 <=> dn[l] > 0
      <4>1. dn[k] > 0
        BY <1>1, <1>3, <2>1, <2>6
      <4> QED
        BY <1>3, <2>1, <4>1
    <3>2. TellsOf(s.fifo, s.counters, m) => TellsOf(s.fifo, dn, m)
      BY <3>1, SameTells
    <3> QED
      BY <2>4, <2>6, <3>2 DEF StateTells, KeyState
  <2> QED
    BY <2>5, <2>6
<1>4. CASE k # CLRKYS /\ ~release
  <2>1. /\ up \in [Keys -> Nat] /\ up[k] = s.counters[k] + 1 /\ up[k] > 0
        /\ \A l \in Keys \ {k} : up[l] = s.counters[l]
    BY <1>1, <1>4
  <2>2. [s EXCEPT !.counters[k] = @ + 1] = [s EXCEPT !.counters = up]
    BY <1>1 DEF KeyState
  <2> HIDE DEF up
  <2>3. UpdateKeys(s, k, release) =
          IF s.counters[k] = 0 THEN Put([s EXCEPT !.counters = up], Press(k))
                               ELSE [s EXCEPT !.counters = up]
    BY <1>4, <2>2 DEF UpdateKeys
  <2>4. CASE s.counters[k] = 0
    <3>1. \A l \in Keys : About(Press(k), l) => (Presses(Press(k)) <=> up[l] > 0)
      BY <1>4, <2>1, <2>4, CodeTypes
    <3>2. \A l \in Keys : ~About(Press(k), l) => (s.counters[l] > 0 <=> up[l] > 0)
      BY <1>4, <2>1, CodeTypes
    <3>3. Press(k) \in Code
      BY <1>4, CodeTypes
    <3>4. StateTells(Put([s EXCEPT !.counters = up], Press(k)), m)
      BY <2>1, <3>1, <3>2, <3>3, PutTells
    <3> QED
      BY <2>3, <2>4, <3>4
  <2>5. CASE s.counters[k] # 0
    <3>1. \A l \in Keys : s.counters[l] > 0 <=> up[l] > 0
      BY <1>1, <1>4, <2>1, <2>5
    <3>2. TellsOf(s.fifo, s.counters, m) => TellsOf(s.fifo, up, m)
      BY <3>1, SameTells
    <3> QED
      BY <2>3, <2>5, <3>2 DEF StateTells, KeyState
  <2> QED
    BY <2>4, <2>5
<1>5. CASE ~(k = CLRKYS /\ ~release) /\ ~(k # CLRKYS /\ ~release)
           /\ ~(k # CLRKYS /\ release /\ s.counters[k] > 0)
  <2>1. UpdateKeys(s, k, release) = s
    BY <1>5 DEF UpdateKeys, Counted
  <2> QED
    BY <2>1
<1> QED
  BY <1>2, <1>3, <1>4, <1>5

\* update_keys never takes back a loss.
LEMMA UpdateLost ==
  ASSUME NEW s \in KeyState, NEW k \in Keys \cup {CLRKYS}, NEW release \in BOOLEAN
  PROVE  s.lost \subseteq UpdateKeys(s, k, release).lost
<1>1. ASSUME NEW c \in [Keys -> Nat], NEW code
      PROVE  LET t == [s EXCEPT !.counters = c]
             IN t.lost = s.lost /\ s.lost \subseteq Put(t, code).lost
  BY DEF Put, KeyState
<1>2. CASE k = CLRKYS /\ ~release
  <2>1. NoCounts \in [Keys -> Nat]
    BY DEF NoCounts
  <2> QED
    BY <1>1, <1>2, <2>1 DEF UpdateKeys
<1>3. CASE k # CLRKYS /\ release /\ s.counters[k] > 0
  <2> DEFINE c == [s.counters EXCEPT ![k] = @ - 1]
  <2>1. c \in [Keys -> Nat] /\ [s EXCEPT !.counters[k] = @ - 1] = [s EXCEPT !.counters = c]
    BY <1>3 DEF KeyState
  <2> QED
    BY <1>1, <1>3, <2>1 DEF UpdateKeys, Counted
<1>4. CASE k # CLRKYS /\ ~release
  <2> DEFINE c == [s.counters EXCEPT ![k] = @ + 1]
  <2>1. c \in [Keys -> Nat] /\ [s EXCEPT !.counters[k] = @ + 1] = [s EXCEPT !.counters = c]
    BY <1>4 DEF KeyState
  <2> QED
    BY <1>1, <1>4, <2>1 DEF UpdateKeys
<1>5. CASE ~(k = CLRKYS /\ ~release) /\ ~(k # CLRKYS /\ ~release)
           /\ ~(k # CLRKYS /\ release /\ s.counters[k] > 0)
  BY <1>5 DEF UpdateKeys, Counted
<1> QED
  BY <1>2, <1>3, <1>4, <1>5

\* Both codes of a scancode.
LEMMA ToZxKeeps ==
  ASSUME TypeOK, NEW x \in Scancodes, NEW release \in BOOLEAN, ToZx(x, release)
  PROVE  /\ Now' \in KeyState
         /\ StateTells(Now, zxmap) => StateTells(Now', zxmap)
         /\ lost \subseteq lost'
<1> DEFINE s1 == UpdateKeys(Now, KbMap[x][1], release)
           s2 == IF Len(KbMap[x]) = 2 THEN UpdateKeys(s1, KbMap[x][2], release) ELSE s1
<1>1. Now \in KeyState
  BY DEF TypeOK, KeyState, Now, Causes
<1>2. /\ KbMap[x][1] \in Keys \cup {CLRKYS}
      /\ Len(KbMap[x]) = 2 => KbMap[x][2] \in Keys \cup {CLRKYS}
  BY ZxKeyboardAssumption DEF ZxKeyboardAssumption
<1>3. s1 \in KeyState
  BY <1>1, <1>2, UpdateTypes
<1>4. s2 \in KeyState
  BY <1>2, <1>3, UpdateTypes
<1>5. /\ StateTells(Now, zxmap) => StateTells(s1, zxmap)
      /\ StateTells(s1, zxmap) => StateTells(s2, zxmap)
  BY <1>1, <1>2, <1>3, UpdateTells
<1>6. counters' = s2.counters /\ fifo' = s2.fifo /\ lost' = s2.lost
  BY DEF ToZx, Now
<1>7. Now.lost \subseteq s1.lost /\ s1.lost \subseteq s2.lost
  BY <1>1, <1>2, <1>3, UpdateLost
<1> HIDE DEF s2
<1>8. Now' = s2
  BY <1>4, <1>6 DEF Now, KeyState
<1> QED
  BY <1>4, <1>5, <1>6, <1>7, <1>8 DEF Now

(***************************************************************************)
(* Steps that leave the codes, the bitmap and the transfer alone.          *)
(***************************************************************************)
dataVars == <<counters, fifo, zxmap, real, prev, taskState, wasData, copied,
              kbdReg, z80keys, lost>>

Parts == FifoTells /\ SentIsCurrent /\ Shown /\ PrevShows

LEMMA DataUnchanged ==
  ASSUME Parts, UNCHANGED dataVars
  PROVE  Parts'
BY DEF Parts, FifoTells, SentIsCurrent, Shown, PrevShows, dataVars, TellsOf,
       IsLast, About, Presses, InRow

\* The keys of a matrix are finitely many.
LEMMA MatrixCount ==
  ASSUME NEW S \in SUBSET MatrixKeys
  PROVE  Cardinality(S) \in Nat
<1>1. IsFiniteSet(S)
  BY FS_Subset, ZxKeyboardAssumption DEF ZxKeyboardAssumption
<1> QED
  BY <1>1, FS_CardinalityType

LEMMA MatrixStep ==
  ASSUME KInv, NEW S \in SUBSET MatrixKeys \ {{}}, PressMatrix(S) \/ ReleaseMatrix(S)
  PROVE  KInv'
<1>1. UNCHANGED <<down, ps2Vars, drainVars, real, scanVars, pause, taskState,
                  copied, pc, sendVars, history>>
  BY DEF PressMatrix, ReleaseMatrix
<1>2. Parts'
  BY <1>1, DataUnchanged DEF KInv, Parts, dataVars, ps2Vars, drainVars, sendVars, history
<1>3. pins' \in SUBSET MatrixKeys
  BY DEF PressMatrix, ReleaseMatrix, KInv, TypeOK
<1>4. strokes' \in Bounds
  <2>1. strokes \in Bounds /\ Cardinality(S) \in Nat
    BY MatrixCount DEF KInv, TypeOK
  <2>2. \/ strokes' = strokes
        \/ /\ strokes.matrix >= Cardinality(S)
           /\ strokes' = [strokes EXCEPT !.matrix = @ - Cardinality(S)]
    BY DEF PressMatrix, ReleaseMatrix
  <2> QED
    BY <2>1, <2>2, Sizes DEF Bounds
<1>5. TypeOK' /\ TaskControl'
  BY <1>1, <1>3, <1>4 DEF KInv, TypeOK, TaskControl, ps2Vars, drainVars, scanVars, sendVars, history
<1> QED
  BY <1>2, <1>5 DEF KInv, Parts

LEMMA TickStep ==
  ASSUME KInv, Tick
  PROVE  KInv'
<1>1. UNCHANGED <<userVars, ps2Vars, drainVars, real, taskState, copied, pc,
                  sendVars, history>>
  BY DEF Tick
<1>2. Parts'
  BY <1>1, DataUnchanged DEF KInv, Parts, dataVars, ps2Vars, drainVars, sendVars, history
<1>3. pause' \in 0..ShiftPause /\ scankbd' \in 0..Rows-1
  BY Sizes DEF Tick, KInv, TypeOK
<1>4. /\ scanned' \in SUBSET Keys /\ csPrev' \in SUBSET Caps
      /\ Stretch(InRow(pins, scankbd)) \in SUBSET Keys
  BY ZxKeyboardAssumption
     DEF Tick, KInv, TypeOK, Stretch, InRow, ZxKeyboardAssumption
<1>5. copyReq' \in BOOLEAN
  BY Zenon DEF Tick, KInv, TypeOK
<1>6. TypeOK'
  BY <1>1, <1>3, <1>4, <1>5
     DEF KInv, TypeOK, userVars, ps2Vars, drainVars, sendVars, history
<1>7. TaskControl'
  BY <1>1 DEF Tick, KInv, TaskControl, drainVars
<1> QED
  BY <1>2, <1>6, <1>7 DEF KInv, Parts

LEMMA IdleStep ==
  ASSUME KInv, Ps2Idle \/ StopDrain
  PROVE  KInv'
<1>1. UNCHANGED <<userVars, ps2Vars, drainVars, real, scanVars, pause, taskState,
                  copied, sendVars, history>>
  BY DEF Ps2Idle, StopDrain
<1>2. Parts'
  BY <1>1, DataUnchanged DEF KInv, Parts, dataVars, ps2Vars, drainVars, sendVars, history
<1>3. TypeOK'
  BY <1>1 DEF Ps2Idle, StopDrain, KInv, TypeOK, userVars, ps2Vars, drainVars,
              scanVars, sendVars, history
<1>4. TaskControl'
  BY <1>1 DEF Ps2Idle, StopDrain, Draining, KInv, TaskControl, drainVars
<1> QED
  BY <1>2, <1>3, <1>4 DEF KInv, Parts

(***************************************************************************)
(* The PS/2 task.                                                          *)
(***************************************************************************)
LEMMA Ps2KeyStep ==
  ASSUME KInv, NEW x \in Scancodes, Ps2Press(x) \/ Ps2Release(x)
  PROVE  KInv'
<1>1. UNCHANGED <<pins, drainVars, real, scanVars, pause, taskState, copied, sendVars>>
      /\ pc = "ps2" /\ pc' = "zx"
  BY DEF Ps2Press, Ps2Release
<1>2. PICK release \in BOOLEAN : ToZx(x, release)
  BY DEF Ps2Press, Ps2Release
<1>3. /\ Now' \in KeyState
      /\ StateTells(Now, zxmap) => StateTells(Now', zxmap)
      /\ lost \subseteq lost'
  BY <1>2, ToZxKeeps DEF KInv
<1>4. FifoTells'
  BY <1>1, <1>3 DEF KInv, FifoTells, StateTells, Now, drainVars
<1>5. (SentIsCurrent /\ Shown /\ PrevShows)'
  BY <1>1, <1>3 DEF KInv, SentIsCurrent, Shown, PrevShows, drainVars, sendVars, InRow, Presses
<1>6. /\ counters' \in [Keys -> Nat] /\ fifo' \in Seq(Code) /\ Len(fifo') <= FifoLen
      /\ lost' \in SUBSET {"full", "cleared"}
  BY <1>3 DEF Now, KeyState, Causes
<1>7. down' \in SUBSET Scancodes /\ strokes' \in Bounds
  <2>1. strokes \in Bounds /\ down \in SUBSET Scancodes
    BY DEF KInv, TypeOK
  <2>2. /\ \/ strokes' = strokes
           \/ strokes.ps2 > 0 /\ strokes' = [strokes EXCEPT !.ps2 = @ - 1]
        /\ down' = down \cup {x} \/ down' = down \ {x}
    BY DEF Ps2Press, Ps2Release
  <2> QED
    BY <2>1, <2>2, Sizes DEF Bounds
<1>8. forgot' \in BOOLEAN
  BY Zenon DEF Ps2Press, Ps2Release, KInv, TypeOK
<1>9. TypeOK'
  BY <1>1, <1>6, <1>7, <1>8 DEF KInv, TypeOK, drainVars, scanVars, sendVars
<1>10. TaskControl'
  BY <1>1 DEF KInv, TaskControl, drainVars
<1> QED
  BY <1>4, <1>5, <1>9, <1>10 DEF KInv

\* Everything cleared and nothing on its way.
LEMMA ClearTells ==
  ASSUME fifo' = <<>>, zxmap' = {}, counters' = NoCounts
  PROVE  FifoTells'
<1>1. TellsOf(<<>>, NoCounts, {})
  BY DEF TellsOf, NoCounts, IsLast
<1> QED
  BY <1>1 DEF FifoTells

LEMMA ClearTypes ==
  ASSUME ClrKb
  PROVE  /\ zxmap' \in SUBSET Keys /\ real' \in SUBSET Keys /\ scanned' \in SUBSET Keys
         /\ counters' \in [Keys -> Nat]
         /\ copyReq' \in BOOLEAN
BY DEF ClrKb, NoCounts

LEMMA ErrorStep ==
  ASSUME KInv, Ps2Error
  PROVE  KInv'
<1>1. UNCHANGED <<userVars, fifo, scankbd, csPrev, prev, wasData, pause,
                  taskState, copied, sendVars>>
      /\ ClrKb /\ pc = "ps2" /\ pc' = "zx"
  BY DEF Ps2Error
<1>2. "cleared" \in lost' \/ (lost' = lost /\ fifo = <<>> /\ zxmap = {} /\ real = {})
  BY DEF Ps2Error
<1>3. ASSUME "cleared" \in lost' PROVE Parts'
  BY <1>3 DEF FifoTells, SentIsCurrent, Shown, PrevShows, Parts
<1>4. ASSUME lost' = lost /\ fifo = <<>> /\ zxmap = {} /\ real = {} PROVE Parts'
  <2>1. FifoTells'
    BY <1>1, <1>4, ClearTells DEF ClrKb
  <2>2. (SentIsCurrent /\ Shown /\ PrevShows)'
    BY <1>1, <1>4 DEF KInv, SentIsCurrent, Shown, PrevShows, sendVars, InRow, Presses, ClrKb
  <2> QED
    BY <2>1, <2>2 DEF Parts
<1>5. forgot' \in BOOLEAN
  BY Zenon DEF Ps2Error, KInv, TypeOK
<1>6. lost' \in SUBSET {"full", "cleared"}
  BY DEF Ps2Error, KInv, TypeOK
<1>7. TypeOK'
  BY <1>1, <1>5, <1>6, ClearTypes DEF KInv, TypeOK, userVars, sendVars
<1>8. TaskControl'
  BY <1>1 DEF KInv, TaskControl
<1>9. Parts'
  BY <1>2, <1>3, <1>4
<1> QED
  BY <1>7, <1>8, <1>9 DEF KInv, Parts

(***************************************************************************)
(* zx_task.                                                                *)
(***************************************************************************)
LEMMA ApplyCodeStep ==
  ASSUME KInv, ApplyCode
  PROVE  KInv'
<1>1. PICK code \in Code :
        /\ code = Head(fifo) /\ code # Clear
        /\ zxmap' = IF Presses(code) THEN zxmap \cup {code.key} ELSE zxmap \ {code.key}
        /\ prev' = code
  <2>1. fifo # <<>> /\ fifo \in Seq(Code)
    BY DEF ApplyCode, KInv, TypeOK
  <2>2. Head(fifo) \in Code
    BY <2>1
  <2> QED
    BY <2>2 DEF ApplyCode
<1>2. UNCHANGED <<userVars, counters, real, scanVars, taskState, copied, pc,
                  sendVars, history>>
      /\ pc = "zx" /\ taskState = 0 /\ fifo # <<>>
      /\ fifo' = Tail(fifo) /\ pause' = ShiftPause
  BY DEF ApplyCode, Draining
<1>3. wasData' = TRUE
  BY DEF ApplyCode
<1>4. Tail(fifo) \in Seq(Code) /\ Len(Tail(fifo)) <= FifoLen
  BY <1>2, Sizes DEF KInv, TypeOK
<1>5. code.key \in Keys
  BY <1>1 DEF Code
<1>6. PrevShows'
  BY <1>1 DEF PrevShows, Presses
<1>7. SentIsCurrent'
  BY <1>2, Sizes DEF SentIsCurrent
<1>8. Shown'
  BY <1>3, Zenon DEF Shown
<1>9. FifoTells'
  <2> SUFFICES ASSUME lost = {} PROVE TellsOf(Tail(fifo), counters, zxmap')
    BY <1>2 DEF FifoTells, history
  <2>1. TellsOf(fifo, counters, zxmap)
    BY DEF KInv, FifoTells
  <2>2. \A k \in Keys : About(code, k) => (k \in zxmap' <=> Presses(code))
    BY <1>1 DEF About
  <2>3. \A k \in Keys : ~About(code, k) => (k \in zxmap' <=> k \in zxmap)
    BY <1>1 DEF About
  <2>4. fifo \in Seq(Code) /\ counters \in [Keys -> Nat]
    BY DEF KInv, TypeOK
  <2> QED
    BY <1>1, <1>2, <2>1, <2>2, <2>3, <2>4, TailTells
<1>10. zxmap' \in SUBSET Keys
  BY <1>1, <1>5 DEF KInv, TypeOK
<1>11. pause' \in 0..ShiftPause
  BY <1>2, Sizes
<1>12. TypeOK'
  BY <1>1, <1>2, <1>3, <1>4, <1>10, <1>11
     DEF KInv, TypeOK, userVars, scanVars, sendVars, history
<1>13. TaskControl'
  BY <1>2 DEF KInv, TaskControl
<1> QED
  BY <1>6, <1>7, <1>8, <1>9, <1>12, <1>13 DEF KInv

LEMMA ApplyClearStep ==
  ASSUME KInv, ApplyClear
  PROVE  KInv'
<1>1. UNCHANGED <<userVars, scankbd, csPrev, pause, taskState, copied, sendVars>>
      /\ ClrKb /\ pc = "zx" /\ pc' = "copy" /\ taskState = 0 /\ prev' = NoPrev
      /\ fifo # <<>> /\ fifo' = Tail(fifo)
  BY DEF ApplyClear, Draining
<1>2. wasData' = TRUE
  BY DEF ApplyClear
<1>3. Tail(fifo) \in Seq(Code) /\ Len(Tail(fifo)) <= FifoLen
  BY <1>1, Sizes DEF KInv, TypeOK
<1>4. FifoTells'
  <2>1. lost' # {} \/ fifo' = <<>>
    BY DEF ApplyClear
  <2> QED
    BY <1>1, <2>1, ClearTells DEF ClrKb, FifoTells
<1>5. PrevShows'
  BY <1>1 DEF PrevShows, Presses, NoPrev, Release
<1>6. SentIsCurrent'
  BY <1>1, Sizes DEF SentIsCurrent
<1>7. Shown'
  BY <1>2, Zenon DEF Shown
<1>8. forgot' \in BOOLEAN
  BY Zenon DEF ApplyClear, KInv, TypeOK
<1>9. lost' \in SUBSET {"full", "cleared"} /\ prev' \in Code
  BY <1>1 DEF ApplyClear, KInv, TypeOK, NoPrev, Code, Clear
<1>10. TypeOK'
  BY <1>1, <1>2, <1>3, <1>8, <1>9, ClearTypes DEF KInv, TypeOK, userVars, sendVars
<1>11. TaskControl'
  BY <1>1 DEF KInv, TaskControl
<1> QED
  BY <1>4, <1>5, <1>6, <1>7, <1>10, <1>11 DEF KInv

LEMMA CopyRowStep ==
  ASSUME KInv, CopyRow
  PROVE  KInv'
<1> DEFINE row == InRow(scanned, copied)
<1>1. UNCHANGED <<userVars, ps2Vars, zxmap, prev, scanVars, pause, taskState, pc,
                  sendVars, history>>
      /\ pc = "copy" /\ taskState = 0
  BY DEF CopyRow, KInv, TaskControl
<1>2. /\ real' = (real \ InRow(Keys, copied)) \cup row
      /\ copied' = copied + 1 /\ copied < Rows
  BY DEF CopyRow
<1>3. real' \in SUBSET Keys
  BY <1>2 DEF KInv, TypeOK, InRow
<1>4. wasData' \in BOOLEAN
  BY Zenon DEF CopyRow
<1>5. copied' \in 0..Rows
  BY <1>2, Sizes DEF KInv, TypeOK
<1>6. ~wasData' => ~wasData /\ row = InRow(real, copied)
  BY Zenon DEF CopyRow
<1>7. row = InRow(real, copied) => real' = real
  BY <1>2 DEF KInv, TypeOK, InRow
<1>8. Shown'
  <2> SUFFICES ASSUME lost = {}, ~wasData' PROVE z80keys = zxmap \cup real'
    BY <1>1, Zenon DEF Shown, sendVars, history
  <2>1. real' = real /\ ~wasData
    BY <1>6, <1>7
  <2> QED
    BY <1>1, <2>1 DEF KInv, Shown
<1>9. FifoTells' /\ PrevShows'
  BY <1>1 DEF KInv, FifoTells, PrevShows, Presses, ps2Vars, history
<1>10. SentIsCurrent'
  BY <1>1, Sizes DEF SentIsCurrent
<1>11. TypeOK'
  BY <1>1, <1>3, <1>4, <1>5
     DEF KInv, TypeOK, userVars, ps2Vars, scanVars, sendVars, history
<1>12. TaskControl'
  BY <1>1 DEF KInv, TaskControl
<1> QED
  BY <1>8, <1>9, <1>10, <1>11, <1>12 DEF KInv

LEMMA EndTaskStep ==
  ASSUME KInv, EndTask
  PROVE  KInv'
<1>1. UNCHANGED <<userVars, ps2Vars, zxmap, prev, real, scanned, scankbd, csPrev,
                  pause, sendVars, history>>
      /\ pc = "copy" /\ pc' = "ps2" /\ copied' = 0 /\ taskState = 0
      /\ taskState' = IF wasData THEN Rows + 1 ELSE 0
  BY DEF EndTask, FirstState, KInv, TaskControl
<1>2. copyReq' = FALSE /\ wasData' = FALSE
  BY DEF EndTask
<1>3. FifoTells' /\ PrevShows'
  BY <1>1 DEF KInv, FifoTells, PrevShows, Presses, ps2Vars, history
<1>4. SentIsCurrent'
  BY <1>1, Sizes DEF SentIsCurrent
<1>5. Shown'
  <2>1. taskState' = 0 => ~wasData
    BY <1>1, Sizes
  <2> QED
    BY <1>1, <2>1 DEF KInv, Shown, sendVars, history
<1>6. taskState' \in 0..Rows+1 /\ copied' \in 0..Rows
  BY <1>1, Sizes
<1>7. TypeOK'
  BY <1>1, <1>2, <1>6 DEF KInv, TypeOK, userVars, ps2Vars, sendVars, history
<1>8. TaskControl'
  BY <1>1, <1>2 DEF KInv, TaskControl
<1> QED
  BY <1>3, <1>4, <1>5, <1>7, <1>8 DEF KInv

(***************************************************************************)
(* The transfer.                                                           *)
(***************************************************************************)
LEMMA SendByteStep ==
  ASSUME KInv, SendByte
  PROVE  KInv'
<1>1. UNCHANGED <<userVars, ps2Vars, drainVars, real, scanVars, pause, copied,
                  z80keys, history>>
      /\ pc = "zx" /\ pc' = "ps2" /\ taskState > 1 /\ taskState' = taskState - 1
      /\ kbdReg' = [i \in 1..Rows |->
           IF i = Rows THEN InRow(zxmap \cup real, taskState - 2) ELSE kbdReg[i + 1]]
  BY DEF SendByte
<1>2. taskState \in 2..Rows+1 /\ taskState' \in 1..Rows
  BY <1>1, Sizes DEF KInv, TypeOK
<1>3. SentIsCurrent'
  <2> SUFFICES ASSUME "cleared" \notin lost, NEW r \in taskState-2..Rows-1
               PROVE  kbdReg'[Rows - r + taskState - 2] = InRow(zxmap \cup real, r)
    <3>1. taskState' - 1 = taskState - 2 /\ \A r \in taskState-2..Rows-1 :
             Rows - r + taskState' - 1 = Rows - r + taskState - 2
      BY <1>1, <1>2, Sizes
    <3> QED
      BY <1>1, <3>1 DEF SentIsCurrent, drainVars, history, InRow
  <2>1. CASE r = taskState - 2
    <3>1. Rows - r + taskState - 2 = Rows /\ Rows \in 1..Rows
      BY <1>2, <2>1, Sizes
    <3> QED
      BY <1>1, <2>1, <3>1
  <2>2. CASE r # taskState - 2
    <3>1. /\ taskState \in 1..Rows /\ r \in taskState-1..Rows-1
          /\ Rows - r + taskState - 2 \in 1..Rows-1
          /\ (Rows - r + taskState - 2) + 1 = Rows - r + taskState - 1
      BY <1>2, <2>2, Sizes
    <3>2. kbdReg[Rows - r + taskState - 1] = InRow(zxmap \cup real, r)
      BY <3>1 DEF KInv, SentIsCurrent
    <3>3. \A i \in 1..Rows-1 : kbdReg'[i] = kbdReg[i + 1]
      BY <1>1, Sizes
    <3> QED
      BY <3>1, <3>2, <3>3
  <2> QED
    BY <2>1, <2>2
<1>4. kbdReg' \in [1..Rows -> SUBSET Keys]
  <2>1. InRow(zxmap \cup real, taskState - 2) \in SUBSET Keys
    BY DEF KInv, TypeOK, InRow
  <2>2. \A i \in 1..Rows : i # Rows => kbdReg[i + 1] \in SUBSET Keys
    <3>1. \A i \in 1..Rows : i # Rows => i + 1 \in 1..Rows
      BY Sizes
    <3> QED
      BY <3>1 DEF KInv, TypeOK
  <2> QED
    BY <1>1, <2>1, <2>2
<1>5. FifoTells' /\ PrevShows'
  BY <1>1 DEF KInv, FifoTells, PrevShows, Presses, ps2Vars, drainVars, history
<1>6. Shown'
  BY <1>2 DEF Shown
<1>7. taskState' \in 0..Rows+1
  BY <1>2, Sizes
<1>8. TypeOK'
  BY <1>1, <1>4, <1>7
     DEF KInv, TypeOK, userVars, ps2Vars, drainVars, scanVars, history
<1>9. TaskControl'
  BY <1>1, <1>2 DEF KInv, TaskControl, drainVars
<1> QED
  BY <1>3, <1>5, <1>6, <1>8, <1>9 DEF KInv

\* The strobe publishes the bitmap.
LEMMA StrobePublishes ==
  ASSUME KInv, Strobe, "cleared" \notin lost
  PROVE  z80keys' = zxmap \cup real
<1>1. taskState = 1 /\ z80keys' = {k \in Keys : k \in kbdReg[Rows - Row[k]]}
  BY DEF Strobe
<1>2. \A k \in Keys : Row[k] \in 0..Rows-1
  BY ZxKeyboardAssumption DEF ZxKeyboardAssumption
<1>3. ASSUME NEW r \in 0..Rows-1
      PROVE  kbdReg[Rows - r] = InRow(zxmap \cup real, r)
  <2>1. Rows - r + 1 - 1 = Rows - r /\ 1 \in 1..Rows /\ 1 - 1 = 0
    BY Sizes
  <2> QED
    BY <1>1, <2>1 DEF KInv, SentIsCurrent
<1>4. \A k \in Keys : k \in kbdReg[Rows - Row[k]] <=> k \in zxmap \cup real
  BY <1>2, <1>3 DEF InRow
<1>5. zxmap \cup real \subseteq Keys
  BY DEF KInv, TypeOK
<1> QED
  BY <1>1, <1>4, <1>5

LEMMA StrobeStep ==
  ASSUME KInv, Strobe
  PROVE  KInv'
<1>1. UNCHANGED <<userVars, ps2Vars, drainVars, real, scanVars, pause, copied,
                  kbdReg, history>>
      /\ pc = "zx" /\ pc' = "ps2" /\ taskState' = 0
  BY DEF Strobe
<1>2. z80keys' \in SUBSET Keys
  BY DEF Strobe
<1>3. FifoTells' /\ PrevShows'
  BY <1>1 DEF KInv, FifoTells, PrevShows, Presses, ps2Vars, drainVars, history
<1>4. Shown'
  BY <1>1, StrobePublishes DEF Shown, drainVars, history
<1>5. SentIsCurrent'
  BY <1>1, Sizes DEF SentIsCurrent
<1>6. taskState' \in 0..Rows+1
  BY <1>1, Sizes
<1>7. TypeOK'
  BY <1>1, <1>2, <1>6
     DEF KInv, TypeOK, userVars, ps2Vars, drainVars, scanVars, history
<1>8. TaskControl'
  <2>1. ~wasData
    BY DEF KInv, TaskControl, Strobe
  <2> QED
    BY <1>1, <2>1 DEF KInv, TaskControl, drainVars
<1> QED
  BY <1>3, <1>4, <1>5, <1>7, <1>8 DEF KInv

(***************************************************************************)
(* The theorems.                                                           *)
(***************************************************************************)
LEMMA InitKInv == Init => KInv
<1> SUFFICES ASSUME Init PROVE KInv
  OBVIOUS
<1>1. TypeOK
  <2>1. NoPrev \in Code /\ <<>> \in Seq(Code) /\ Len(<<>>) = 0
    BY DEF NoPrev, Code, Clear
  <2>2. wasData \in BOOLEAN /\ copyReq \in BOOLEAN /\ forgot \in BOOLEAN
    BY DEF Init
  <2> QED
    BY <2>1, <2>2, Sizes DEF Init, TypeOK, NoCounts
<1>2. FifoTells
  BY DEF Init, FifoTells, TellsOf, NoCounts, IsLast
<1>3. SentIsCurrent
  BY Sizes DEF Init, SentIsCurrent
<1>4. Shown /\ PrevShows /\ TaskControl
  BY DEF Init, Shown, PrevShows, Presses, NoPrev, Release, TaskControl
<1> QED
  BY <1>1, <1>2, <1>3, <1>4 DEF KInv

LEMMA NextKInv == KInv /\ [Next]_vars => KInv'
<1> SUFFICES ASSUME KInv, [Next]_vars PROVE KInv'
  OBVIOUS
<1>1. CASE User
  BY <1>1, MatrixStep, Ps2KeyStep, ErrorStep DEF User
<1>2. CASE Tick \/ Ps2Idle
  BY <1>2, TickStep, IdleStep
<1>3. CASE ZxTask
  BY <1>3, ApplyCodeStep, ApplyClearStep, IdleStep, CopyRowStep, EndTaskStep,
     SendByteStep, StrobeStep DEF ZxTask
<1>4. CASE UNCHANGED vars
  <2>1. UNCHANGED dataVars
    BY <1>4 DEF vars, dataVars
  <2>2. Parts'
    BY <2>1, DataUnchanged DEF KInv, Parts
  <2>3. (TypeOK /\ TaskControl)'
    BY <1>4 DEF vars, KInv, TypeOK, TaskControl
  <2> QED
    BY <2>2, <2>3 DEF KInv, Parts
<1> QED
  BY <1>1, <1>2, <1>3, <1>4 DEF Next

\* The inductive invariant holds.
THEOREM KeyInvariant == Spec => []KInv
BY InitKInv, NextKInv, PTL DEF Spec

\* Every variable keeps its type: no counter of update_keys wraps below zero,
\* the FIFO is never filled past its end.
THEOREM KeyTypes == Spec => []TypeOK
<1>1. KInv => TypeOK
  BY DEF KInv
<1> QED
  BY <1>1, KeyInvariant, PTL

\* Unless a code was lost, the codes on their way and the bitmap together say
\* what the counters say, for every key.
THEOREM CodesTell == Spec => []FifoTells
<1>1. KInv => FifoTells
  BY DEF KInv
<1> QED
  BY <1>1, KeyInvariant, PTL

\* With nothing on its way, the Z80 reads exactly the keys that are counted
\* or closed in the matrix.
THEOREM RestIsShown == Spec => []RestShown
<1>1. KInv => RestShown
  <2> SUFFICES ASSUME KInv, AtRest, lost = {} PROVE z80keys = Pressed \cup real
    BY DEF RestShown
  <2>1. ~wasData
    BY DEF KInv, TaskControl, AtRest
  <2>2. z80keys = zxmap \cup real
    BY <2>1 DEF KInv, Shown, AtRest
  <2>3. TellsOf(<<>>, counters, zxmap)
    BY DEF KInv, FifoTells, AtRest
  <2>4. \A k \in Keys : k \in zxmap <=> counters[k] > 0
    <3>1. Len(<<>>) = 0
      OBVIOUS
    <3> QED
      BY <2>3, <3>1 DEF TellsOf
  <2>5. zxmap = Pressed
    BY <2>4 DEF KInv, TypeOK, Pressed
  <2> QED
    BY <2>2, <2>5
<1> QED
  BY <1>1, KeyInvariant, PTL

\* As long as the keyboard has not been cleared under a key, a strobe never publishes
\* rows of two different bitmaps, also when the FIFO has been full.
THEOREM WholeFrames == Spec => FrameWhole
<1>1. KInv /\ [Next]_vars => [Strobe /\ "cleared" \notin lost => z80keys' = zxmap \cup real]_vars
  BY StrobePublishes
<1> QED
  BY <1>1, KeyInvariant, PTL DEF FrameWhole, Spec

\* The Z80 reads a shift before the press behind it comes into the bitmap.
THEOREM ShiftsFirst == Spec => ShiftSeenFirst
<1> DEFINE Seen == ApplyCode /\ lost = {} /\ Presses(prev) /\ Presses(prev')
                     /\ prev.key \in Shifts /\ prev'.key \notin Shifts
                   => prev.key \in z80keys
<1>1. KInv => Seen
  <2> SUFFICES ASSUME KInv, ApplyCode, lost = {}, Presses(prev), Presses(prev'),
                      prev.key \in Shifts, prev'.key \notin Shifts
               PROVE  prev.key \in z80keys
    OBVIOUS
  <2>1. prev' = Head(fifo) /\ ~HoldBack(Head(fifo)) /\ pc = "zx" /\ taskState = 0
    BY DEF ApplyCode, Draining
  <2>2. ~(pause > 0)
    BY <2>1 DEF HoldBack, Presses
  <2>3. ~wasData
    BY <2>1, <2>2, Sizes DEF KInv, TaskControl
  <2>4. z80keys = zxmap \cup real
    BY <2>1, <2>3 DEF KInv, Shown
  <2>5. prev.key \in zxmap
    BY DEF KInv, PrevShows
  <2> QED
    BY <2>4, <2>5
<1>2. KInv /\ [Next]_vars => [Seen]_vars
  BY <1>1
<1> QED
  BY <1>2, KeyInvariant, PTL DEF ShiftSeenFirst, Spec

(***************************************************************************)
(* Every code changes the bitmap.                                          *)
(***************************************************************************)

\* A code about a key undoes the one before it, or what the bitmap shows.
Alternates(f, m) ==
  \A k \in Keys :
    /\ \A i \in 1..Len(f) :
         f[i].key = k /\ (\A j \in 1..i-1 : ~About(f[j], k)) => (k \in m <=> ~Presses(f[i]))
    /\ \A i, j \in 1..Len(f) :
         i < j /\ About(f[i], k) /\ f[j].key = k /\ (\A n \in i+1..j-1 : ~About(f[n], k))
         => (Presses(f[i]) <=> ~Presses(f[j]))

StateAlternates(s, m) == s.lost = {} => Alternates(s.fifo, m)

FifoAlternates == StateAlternates(Now, zxmap)

\* A code that says other than the counter did keeps the codes alternating.
LEMMA AppendAlternates ==
  ASSUME NEW f \in Seq(Code), NEW code \in Code, NEW c, NEW m,
         TellsOf(f, c, m), Alternates(f, m),
         \A k \in Keys : code.key = k => (Presses(code) <=> ~(c[k] > 0))
  PROVE  Alternates(Append(f, code), m)
<1> DEFINE g == Append(f, code)
<1>1. /\ Len(g) = Len(f) + 1 /\ g[Len(g)] = code
      /\ \A i \in 1..Len(f) : g[i] = f[i]
      /\ Len(f) \in Nat
  OBVIOUS
<1> HIDE DEF g
<1> SUFFICES ASSUME NEW k \in Keys
             PROVE  /\ \A i \in 1..Len(g) :
                         g[i].key = k /\ (\A j \in 1..i-1 : ~About(g[j], k))
                         => (k \in m <=> ~Presses(g[i]))
                    /\ \A i, j \in 1..Len(g) :
                         i < j /\ About(g[i], k) /\ g[j].key = k
                           /\ (\A n \in i+1..j-1 : ~About(g[n], k))
                         => (Presses(g[i]) <=> ~Presses(g[j]))
  BY DEF Alternates, g
<1>2. ASSUME NEW i \in 1..Len(g), g[i].key = k, \A j \in 1..i-1 : ~About(g[j], k)
      PROVE  k \in m <=> ~Presses(g[i])
  <2>1. CASE i = Len(g)
    <3>1. \A j \in 1..Len(f) : ~About(f[j], k)
      BY <1>1, <1>2, <2>1
    <3>2. k \in m <=> c[k] > 0
      BY <3>1 DEF TellsOf
    <3> QED
      BY <1>1, <1>2, <2>1, <3>2
  <2>2. CASE i # Len(g)
    <3>1. i \in 1..Len(f) /\ f[i].key = k
      BY <1>1, <1>2, <2>2
    <3>2. \A j \in 1..i-1 : ~About(f[j], k)
      BY <1>1, <1>2, <3>1
    <3> QED
      BY <1>1, <3>1, <3>2 DEF Alternates
  <2> QED
    BY <2>1, <2>2
<1>3. ASSUME NEW i \in 1..Len(g), NEW j \in 1..Len(g), i < j, About(g[i], k),
             g[j].key = k, \A n \in i+1..j-1 : ~About(g[n], k)
      PROVE  Presses(g[i]) <=> ~Presses(g[j])
  <2>1. i \in 1..Len(f) /\ g[i] = f[i]
    BY <1>1, <1>3
  <2>2. CASE j = Len(g)
    <3>1. IsLast(f, i, k)
      <4>1. \A n \in i+1..Len(f) : ~About(f[n], k)
        BY <1>1, <1>3, <2>1, <2>2
      <4> QED
        BY <1>3, <2>1, <4>1 DEF IsLast
    <3>2. Presses(f[i]) <=> c[k] > 0
      BY <2>1, <3>1 DEF TellsOf
    <3> QED
      BY <1>1, <1>3, <2>1, <2>2, <3>2
  <2>3. CASE j # Len(g)
    <3>1. j \in 1..Len(f) /\ g[j] = f[j] /\ f[j].key = k
      BY <1>1, <1>3, <2>3
    <3>2. \A n \in i+1..j-1 : ~About(f[n], k)
      BY <1>1, <1>3, <2>1, <3>1
    <3> QED
      BY <1>3, <2>1, <3>1, <3>2 DEF Alternates
  <2> QED
    BY <2>2, <2>3
<1> QED
  BY <1>2, <1>3

\* The first code taken and acted on, the others still alternate.
LEMMA TailAlternates ==
  ASSUME NEW f \in Seq(Code), f # <<>>, NEW m, NEW n, Alternates(f, m),
         \A k \in Keys : About(Head(f), k) => (k \in n <=> Presses(Head(f))),
         \A k \in Keys : ~About(Head(f), k) => (k \in n <=> k \in m)
  PROVE  Alternates(Tail(f), n)
<1> DEFINE g == Tail(f)
<1>1. /\ Len(f) = Len(g) + 1 /\ Len(g) \in Nat
      /\ \A i \in 1..Len(g) : g[i] = f[i + 1]
      /\ Head(f) = f[1]
  OBVIOUS
<1> HIDE DEF g
<1> SUFFICES ASSUME NEW k \in Keys
             PROVE  /\ \A i \in 1..Len(g) :
                         g[i].key = k /\ (\A j \in 1..i-1 : ~About(g[j], k))
                         => (k \in n <=> ~Presses(g[i]))
                    /\ \A i, j \in 1..Len(g) :
                         i < j /\ About(g[i], k) /\ g[j].key = k
                           /\ (\A l \in i+1..j-1 : ~About(g[l], k))
                         => (Presses(g[i]) <=> ~Presses(g[j]))
  BY DEF Alternates, g
<1>2. ASSUME NEW i \in 1..Len(g), g[i].key = k, \A j \in 1..i-1 : ~About(g[j], k)
      PROVE  k \in n <=> ~Presses(g[i])
  <2>1. i + 1 \in 1..Len(f) /\ g[i] = f[i + 1] /\ 1 \in 1..Len(f)
    BY <1>1
  <2>2. \A j \in 2..i : ~About(f[j], k)
    <3> SUFFICES ASSUME NEW j \in 2..i PROVE ~About(f[j], k)
      OBVIOUS
    <3>1. j - 1 \in 1..i-1 /\ j - 1 \in 1..Len(g) /\ g[j - 1] = f[j]
      BY <1>1
    <3> QED
      BY <1>2, <3>1
  <2>3. CASE About(f[1], k)
    <3>1. \A l \in 1+1..(i+1)-1 : ~About(f[l], k)
      BY <2>2
    <3>2. Presses(f[1]) <=> ~Presses(f[i + 1])
      <4>1. 1 < i + 1 /\ f[i + 1].key = k
        BY <1>2, <2>1
      <4> QED
        BY <2>1, <2>3, <3>1, <4>1 DEF Alternates
    <3> QED
      BY <1>1, <2>1, <2>3, <3>2
  <2>4. CASE ~About(f[1], k)
    <3>1. \A j \in 1..(i+1)-1 : ~About(f[j], k)
      BY <2>2, <2>4
    <3>2. k \in m <=> ~Presses(f[i + 1])
      BY <1>2, <2>1, <3>1 DEF Alternates
    <3> QED
      BY <1>1, <2>1, <2>4, <3>2
  <2> QED
    BY <2>3, <2>4
<1>3. ASSUME NEW i \in 1..Len(g), NEW j \in 1..Len(g), i < j, About(g[i], k),
             g[j].key = k, \A l \in i+1..j-1 : ~About(g[l], k)
      PROVE  Presses(g[i]) <=> ~Presses(g[j])
  <2>1. /\ i + 1 \in 1..Len(f) /\ j + 1 \in 1..Len(f) /\ i + 1 < j + 1
        /\ g[i] = f[i + 1] /\ g[j] = f[j + 1]
    BY <1>1, <1>3
  <2>2. \A l \in (i+1)+1..(j+1)-1 : ~About(f[l], k)
    <3> SUFFICES ASSUME NEW l \in (i+1)+1..(j+1)-1 PROVE ~About(f[l], k)
      OBVIOUS
    <3>1. l - 1 \in i+1..j-1 /\ l - 1 \in 1..Len(g) /\ g[l - 1] = f[l]
      BY <1>1
    <3> QED
      BY <1>3, <3>1
  <2> QED
    BY <1>3, <2>1, <2>2 DEF Alternates
<1> QED
  BY <1>2, <1>3

LEMMA PutAlternates ==
  ASSUME NEW s \in KeyState, NEW c \in [Keys -> Nat], NEW code \in Code, NEW m,
         StateTells(s, m), StateAlternates(s, m),
         \A k \in Keys : code.key = k => (Presses(code) <=> ~(s.counters[k] > 0))
  PROVE  StateAlternates(Put([s EXCEPT !.counters = c], code), m)
<1> DEFINE t == Put([s EXCEPT !.counters = c], code)
<1>1. CASE Len(s.fifo) < FifoLen
  <2>1. t.lost = s.lost /\ t.fifo = Append(s.fifo, code)
    BY <1>1 DEF Put, KeyState
  <2>2. s.fifo \in Seq(Code)
    BY DEF KeyState
  <2>3. CASE s.lost = {}
    <3>1. TellsOf(s.fifo, s.counters, m) /\ Alternates(s.fifo, m)
      BY <2>3 DEF StateTells, StateAlternates
    <3>2. Alternates(Append(s.fifo, code), m)
      BY <2>2, <3>1, AppendAlternates
    <3> QED
      BY <2>1, <3>2 DEF StateAlternates
  <2> QED
    BY <2>1, <2>3 DEF StateAlternates
<1>2. CASE ~(Len(s.fifo) < FifoLen)
  <2>1. t.lost # {}
    BY <1>2 DEF Put, KeyState, Causes
  <2> QED
    BY <2>1 DEF StateAlternates
<1> QED
  BY <1>1, <1>2

\* update_keys puts a press only of a key not counted, a release only of one
\* that was.
LEMMA UpdateAlternates ==
  ASSUME NEW s \in KeyState, NEW k \in Keys \cup {CLRKYS}, NEW release \in BOOLEAN,
         NEW m, StateTells(s, m), StateAlternates(s, m)
  PROVE  StateAlternates(UpdateKeys(s, k, release), m)
<1> DEFINE up == [s.counters EXCEPT ![k] = @ + 1]
           dn == [s.counters EXCEPT ![k] = @ - 1]
<1>1. s.counters \in [Keys -> Nat] /\ CLRKYS \notin Keys
  BY ZxKeyboardAssumption DEF KeyState, ZxKeyboardAssumption
<1>2. ASSUME NEW c \in [Keys -> Nat] PROVE StateAlternates([s EXCEPT !.counters = c], m)
  BY DEF StateAlternates, KeyState
<1>3. CASE k = CLRKYS /\ ~release
  <2>1. UpdateKeys(s, k, release) = Put([s EXCEPT !.counters = NoCounts], Clear)
    BY <1>3 DEF UpdateKeys
  <2>2. NoCounts \in [Keys -> Nat]
    BY DEF NoCounts
  <2>3. \A l \in Keys : Clear.key # l
    BY <1>1 DEF Clear, Release
  <2> QED
    BY <2>1, <2>2, <2>3, PutAlternates, CodeTypes
<1>4. CASE k # CLRKYS /\ release /\ s.counters[k] > 0
  <2>1. dn \in [Keys -> Nat]
    BY <1>1, <1>4
  <2>2. [s EXCEPT !.counters[k] = @ - 1] = [s EXCEPT !.counters = dn]
    BY <1>1 DEF KeyState
  <2> HIDE DEF dn
  <2>3. \/ UpdateKeys(s, k, release) = Put([s EXCEPT !.counters = dn], Release(k))
        \/ UpdateKeys(s, k, release) = [s EXCEPT !.counters = dn]
    BY <1>4, <2>2 DEF UpdateKeys, Counted
  <2>4. \A l \in Keys : Release(k).key = l
                       => (Presses(Release(k)) <=> ~(s.counters[l] > 0))
    BY <1>4 DEF Release, Presses
  <2>5. Release(k) \in Code
    BY <1>4, CodeTypes
  <2>6. StateAlternates(Put([s EXCEPT !.counters = dn], Release(k)), m)
    BY <2>1, <2>4, <2>5, PutAlternates
  <2> QED
    BY <1>2, <2>1, <2>3, <2>6
<1>5. CASE k # CLRKYS /\ ~release
  <2>1. up \in [Keys -> Nat]
    BY <1>1, <1>5
  <2>2. [s EXCEPT !.counters[k] = @ + 1] = [s EXCEPT !.counters = up]
    BY <1>1 DEF KeyState
  <2> HIDE DEF up
  <2>3. UpdateKeys(s, k, release) =
          IF s.counters[k] = 0 THEN Put([s EXCEPT !.counters = up], Press(k))
                               ELSE [s EXCEPT !.counters = up]
    BY <1>5, <2>2 DEF UpdateKeys
  <2>4. CASE s.counters[k] = 0
    <3>1. \A l \in Keys : Press(k).key = l => (Presses(Press(k)) <=> ~(s.counters[l] > 0))
      BY <2>4 DEF Press, Presses
    <3>2. Press(k) \in Code
      BY <1>5, CodeTypes
    <3>3. StateAlternates(Put([s EXCEPT !.counters = up], Press(k)), m)
      BY <2>1, <3>1, <3>2, PutAlternates
    <3> QED
      BY <2>3, <2>4, <3>3
  <2>5. CASE s.counters[k] # 0
    BY <1>2, <2>1, <2>3, <2>5
  <2> QED
    BY <2>4, <2>5
<1>6. CASE ~(k = CLRKYS /\ ~release) /\ ~(k # CLRKYS /\ ~release)
           /\ ~(k # CLRKYS /\ release /\ s.counters[k] > 0)
  <2>1. UpdateKeys(s, k, release) = s
    BY <1>6 DEF UpdateKeys, Counted
  <2> QED
    BY <2>1
<1> QED
  BY <1>3, <1>4, <1>5, <1>6

LEMMA ToZxAlternates ==
  ASSUME TypeOK, NEW x \in Scancodes, NEW release \in BOOLEAN, ToZx(x, release),
         StateTells(Now, zxmap), StateAlternates(Now, zxmap)
  PROVE  StateAlternates(Now', zxmap)
<1> DEFINE s1 == UpdateKeys(Now, KbMap[x][1], release)
           s2 == IF Len(KbMap[x]) = 2 THEN UpdateKeys(s1, KbMap[x][2], release) ELSE s1
<1>1. Now \in KeyState
  BY DEF TypeOK, KeyState, Now, Causes
<1>2. /\ KbMap[x][1] \in Keys \cup {CLRKYS}
      /\ Len(KbMap[x]) = 2 => KbMap[x][2] \in Keys \cup {CLRKYS}
  BY ZxKeyboardAssumption DEF ZxKeyboardAssumption
<1>3. s1 \in KeyState /\ StateTells(s1, zxmap) /\ StateAlternates(s1, zxmap)
  BY <1>1, <1>2, UpdateTypes, UpdateTells, UpdateAlternates
<1>4. StateAlternates(s2, zxmap)
  BY <1>2, <1>3, UpdateAlternates
<1>5. fifo' = s2.fifo /\ lost' = s2.lost
  BY DEF ToZx, Now
<1> HIDE DEF s2
<1> QED
  BY <1>4, <1>5 DEF Now, StateAlternates

\* Only the keys of the PS/2 keyboard, the FIFO's reader and the clearings
\* touch FIFO and bitmap.
LEMMA AlternatesStep == KInv /\ FifoAlternates /\ [Next]_vars => FifoAlternates'
<1> SUFFICES ASSUME KInv, FifoAlternates, [Next]_vars PROVE FifoAlternates'
  OBVIOUS
<1>1. ASSUME UNCHANGED <<fifo, lost, zxmap>> PROVE FifoAlternates'
  BY <1>1 DEF FifoAlternates, StateAlternates, Now, Alternates, About, Presses
<1>2. ASSUME NEW x \in Scancodes, Ps2Press(x) \/ Ps2Release(x) PROVE FifoAlternates'
  <2>1. PICK release \in BOOLEAN : ToZx(x, release)
    BY <1>2 DEF Ps2Press, Ps2Release
  <2>2. zxmap' = zxmap
    BY <1>2 DEF Ps2Press, Ps2Release, drainVars
  <2>3. TypeOK /\ StateTells(Now, zxmap)
    BY DEF KInv, FifoTells, StateTells, Now
  <2>4. StateAlternates(Now', zxmap)
    BY <2>1, <2>3, ToZxAlternates DEF FifoAlternates
  <2> QED
    BY <2>2, <2>4 DEF FifoAlternates, StateAlternates
<1>3. ASSUME ApplyCode PROVE FifoAlternates'
  <2> DEFINE code == Head(fifo)
  <2>1. /\ fifo # <<>> /\ fifo \in Seq(Code) /\ fifo' = Tail(fifo) /\ lost' = lost
        /\ code # Clear
        /\ zxmap' = IF Presses(code) THEN zxmap \cup {code.key} ELSE zxmap \ {code.key}
    BY <1>3 DEF ApplyCode, KInv, TypeOK, history
  <2>2. /\ \A k \in Keys : About(code, k) => (k \in zxmap' <=> Presses(code))
        /\ \A k \in Keys : ~About(code, k) => (k \in zxmap' <=> k \in zxmap)
    BY <2>1 DEF About
  <2>3. Alternates(fifo, zxmap) => Alternates(Tail(fifo), zxmap')
    BY <2>1, <2>2, TailAlternates
  <2> QED
    BY <2>1, <2>3 DEF FifoAlternates, StateAlternates, Now
<1>4. ASSUME fifo' = <<>> \/ lost' # {} PROVE FifoAlternates'
  <2>1. ASSUME NEW m PROVE Alternates(<<>>, m)
    BY DEF Alternates
  <2> QED
    BY <1>4, <2>1 DEF FifoAlternates, StateAlternates, Now
<1>5. ASSUME ApplyClear PROVE FifoAlternates'
  BY <1>4, <1>5 DEF ApplyClear
<1>6. ASSUME Ps2Error PROVE FifoAlternates'
  BY <1>4, <1>6 DEF Ps2Error
<1>7. ASSUME NEW S, PressMatrix(S) \/ ReleaseMatrix(S) PROVE FifoAlternates'
  BY <1>1, <1>7 DEF PressMatrix, ReleaseMatrix, ps2Vars, drainVars, history
<1>8. ASSUME Tick \/ Ps2Idle \/ StopDrain PROVE FifoAlternates'
  BY <1>1, <1>8 DEF Tick, Ps2Idle, StopDrain, ps2Vars, drainVars, history
<1>9. ASSUME CopyRow \/ EndTask \/ SendByte \/ Strobe PROVE FifoAlternates'
  BY <1>1, <1>9 DEF CopyRow, EndTask, SendByte, Strobe, ps2Vars, drainVars, history
<1>10. ASSUME UNCHANGED vars PROVE FifoAlternates'
  BY <1>1, <1>10 DEF vars
<1> QED
  BY <1>2, <1>3, <1>5, <1>6, <1>7, <1>8, <1>9, <1>10 DEF Next, User, ZxTask

\* Every code taken from the FIFO changes the bitmap: a key is pressed and
\* released only once (zx.c 36), unless a code was dropped or overtaken.
THEOREM KeysOnce == Spec => OncePerKey
<1> DEFINE Once == ApplyCode /\ lost = {} => zxmap' # zxmap
<1>1. KInv /\ FifoAlternates => Once
  <2> SUFFICES ASSUME KInv, FifoAlternates, ApplyCode, lost = {}
               PROVE  zxmap' # zxmap
    OBVIOUS
  <2> DEFINE code == Head(fifo)
  <2>1. /\ fifo # <<>> /\ fifo \in Seq(Code) /\ code # Clear
        /\ zxmap' = IF Presses(code) THEN zxmap \cup {code.key} ELSE zxmap \ {code.key}
    BY DEF ApplyCode, KInv, TypeOK
  <2>2. code = fifo[1] /\ 1 \in 1..Len(fifo) /\ code \in Code
    BY <2>1
  <2>3. code.key \in Keys
    BY <2>1, <2>2 DEF Code
  <2>4. Alternates(fifo, zxmap)
    BY DEF FifoAlternates, StateAlternates, Now
  <2>5. \A j \in 1..1-1 : ~About(fifo[j], code.key)
    OBVIOUS
  <2>6. code.key \in zxmap <=> ~Presses(code)
    BY <2>2, <2>3, <2>4, <2>5 DEF Alternates
  <2> QED
    BY <2>1, <2>6
<1>2. Init => FifoAlternates
  <2>1. ASSUME NEW m PROVE Alternates(<<>>, m)
    BY DEF Alternates
  <2> QED
    BY <2>1 DEF Init, FifoAlternates, StateAlternates, Now
<1>3. Spec => []FifoAlternates
  BY <1>2, AlternatesStep, KeyInvariant, PTL DEF Spec
<1>4. Spec => [][Once]_vars
  BY <1>1, <1>3, KeyInvariant, PTL DEF Spec
<1> QED
  BY <1>4 DEF OncePerKey

(***************************************************************************)
(* Every key is counted as often as the PS/2 keys held map to it.          *)
(***************************************************************************)

\* The scancode that clears the keyboard has no other code (kbmap.c: ESC).
ClearAlone ==
  \A x \in Scancodes : Forgets(x) => KbMap[x][1] = CLRKYS /\ Len(KbMap[x]) = 1

Hits(x, k) ==
  {p \in {x} \X {1, 2} : p[2] \in DOMAIN KbMap[x] /\ KbMap[x][p[2]] = k}

One(b) == IF b THEN 1 ELSE 0
First(x, k) == One(KbMap[x][1] = k)
Second(x, k) == One(Len(KbMap[x]) = 2 /\ KbMap[x][2] = k)

LEMMA Disjoint ==
  ASSUME NEW S, NEW T, IsFiniteSet(S), IsFiniteSet(T), S \cap T = {}
  PROVE  /\ Cardinality(S \cup T) = Cardinality(S) + Cardinality(T)
         /\ Cardinality(S) \in Nat /\ Cardinality(T) \in Nat
<1>1. Cardinality(S) \in Nat /\ Cardinality(T) \in Nat
  BY FS_CardinalityType
<1>2. Cardinality(S \cup T) = Cardinality(S) + Cardinality(T) - Cardinality({})
  BY FS_Union
<1> QED
  BY <1>1, <1>2, FS_EmptySet

LEMMA HitCount ==
  ASSUME NEW x \in Scancodes, NEW k \in Keys
  PROVE  /\ IsFiniteSet(Hits(x, k))
         /\ Cardinality(Hits(x, k)) = First(x, k) + Second(x, k)
<1> DEFINE S == IF KbMap[x][1] = k THEN {<<x, 1>>} ELSE {}
           T == IF Len(KbMap[x]) = 2 /\ KbMap[x][2] = k THEN {<<x, 2>>} ELSE {}
<1>1. DOMAIN KbMap[x] = 1..Len(KbMap[x]) /\ Len(KbMap[x]) \in 1..2
  BY ZxKeyboardAssumption DEF ZxKeyboardAssumption
<1>2. Hits(x, k) = S \cup T
  BY <1>1 DEF Hits
<1>3. IsFiniteSet(S) /\ Cardinality(S) = First(x, k)
  BY FS_EmptySet, FS_Singleton DEF First, One
<1>4. IsFiniteSet(T) /\ Cardinality(T) = Second(x, k)
  BY FS_EmptySet, FS_Singleton DEF Second, One
<1>5. S \cap T = {}
  OBVIOUS
<1> HIDE DEF S, T
<1>6. First(x, k) \in Nat /\ Second(x, k) \in Nat
  BY DEF First, Second, One
<1> QED
  BY <1>2, <1>3, <1>4, <1>5, <1>6, FS_Union, FS_EmptySet

LEMMA PlacesFinite ==
  ASSUME IsFiniteSet(down), NEW k
  PROVE  IsFiniteSet(Places(k)) /\ Cardinality(Places(k)) \in Nat
<1>1. IsFiniteSet({1, 2})
  <2>1. IsFiniteSet({1} \cup {2})
    BY FS_Singleton, FS_AddElement
  <2>2. {1} \cup {2} = {1, 2}
    OBVIOUS
  <2> QED
    BY <2>1, <2>2
<1>2. IsFiniteSet(down \X {1, 2})
  BY <1>1, FS_Product
<1>3. Places(k) \subseteq down \X {1, 2}
  BY DEF Places
<1> QED
  BY <1>2, <1>3, FS_Subset, FS_CardinalityType

\* What a code does to the counters.
LEMMA UpdateCounts ==
  ASSUME NEW s \in KeyState, NEW k \in Keys, NEW l \in Keys, NEW release \in BOOLEAN
  PROVE  UpdateKeys(s, k, release).counters[l] =
           IF k # l THEN s.counters[l]
           ELSE IF ~release THEN s.counters[l] + 1
           ELSE IF s.counters[l] > 0 THEN s.counters[l] - 1 ELSE 0
<1>1. /\ s.counters \in [Keys -> Nat] /\ k # CLRKYS
      /\ s.counters[l] \in Nat /\ s.counters[k] \in Nat
  BY ZxKeyboardAssumption DEF KeyState, ZxKeyboardAssumption
<1>2. ASSUME NEW c \in [Keys -> Nat], NEW code
      PROVE  /\ [s EXCEPT !.counters = c].counters = c
             /\ Put([s EXCEPT !.counters = c], code).counters = c
  BY DEF Put, KeyState
<1>3. CASE ~release
  <2> DEFINE c == [s.counters EXCEPT ![k] = @ + 1]
  <2>1. c \in [Keys -> Nat] /\ [s EXCEPT !.counters[k] = @ + 1] = [s EXCEPT !.counters = c]
    BY <1>1 DEF KeyState
  <2>2. c[l] = IF k = l THEN s.counters[l] + 1 ELSE s.counters[l]
    BY <1>1
  <2> HIDE DEF c
  <2>3. UpdateKeys(s, k, release).counters = c
    BY <1>1, <1>2, <1>3, <2>1 DEF UpdateKeys
  <2> QED
    BY <1>3, <2>2, <2>3
<1>4. CASE release /\ s.counters[k] > 0
  <2> DEFINE c == [s.counters EXCEPT ![k] = @ - 1]
  <2>1. c \in [Keys -> Nat] /\ [s EXCEPT !.counters[k] = @ - 1] = [s EXCEPT !.counters = c]
    BY <1>1, <1>4 DEF KeyState
  <2>2. c[l] = IF k = l THEN s.counters[l] - 1 ELSE s.counters[l]
    BY <1>1
  <2> HIDE DEF c
  <2>3. UpdateKeys(s, k, release).counters = c
    BY <1>1, <1>2, <1>4, <2>1 DEF UpdateKeys, Counted
  <2>4. CASE k = l
    BY <1>4, <2>2, <2>3, <2>4
  <2>5. CASE k # l
    BY <2>2, <2>3, <2>5
  <2> QED
    BY <2>4, <2>5
<1>5. CASE release /\ ~(s.counters[k] > 0)
  <2>1. UpdateKeys(s, k, release) = s
    BY <1>1, <1>5 DEF UpdateKeys, Counted
  <2>2. CASE k = l
    <3>1. s.counters[l] = 0
      BY <1>1, <1>5, <2>2
    <3> QED
      BY <1>5, <2>1, <2>2, <3>1
  <2>3. CASE k # l
    BY <2>1, <2>3
  <2> QED
    BY <2>2, <2>3
<1> QED
  BY <1>3, <1>4, <1>5

\* Both codes of a scancode that is not the clearing one.
LEMMA ToZxCounts ==
  ASSUME TypeOK, NEW x \in Scancodes, ~Forgets(x), NEW release \in BOOLEAN,
         ToZx(x, release), NEW l \in Keys
  PROVE  LET n == First(x, l) + Second(x, l)
         IN  counters'[l] = IF ~release THEN counters[l] + n
                            ELSE IF counters[l] > n THEN counters[l] - n ELSE 0
<1> DEFINE k == KbMap[x][1]
           two == Len(KbMap[x]) = 2
           s1 == UpdateKeys(Now, k, release)
           s2 == IF two THEN UpdateKeys(s1, KbMap[x][2], release) ELSE s1
<1>1. Now \in KeyState /\ Now.counters = counters /\ counters[l] \in Nat
  BY DEF TypeOK, KeyState, Now, Causes
<1>2. k \in Keys /\ (two => KbMap[x][2] \in Keys)
  <2>1. /\ KbMap[x] \in Seq(Keys \cup {CLRKYS}) /\ Len(KbMap[x]) \in 1..2
        /\ DOMAIN KbMap[x] = 1..Len(KbMap[x])
    BY ZxKeyboardAssumption DEF ZxKeyboardAssumption
  <2> QED
    BY <2>1 DEF Forgets
<1>3. s1 \in KeyState /\ s1.counters[l] \in Nat
  BY <1>1, <1>2, UpdateTypes DEF KeyState
<1>4. counters' = s2.counters
  BY DEF ToZx, Now
<1>5. s1.counters[l] = IF k # l THEN counters[l]
                       ELSE IF ~release THEN counters[l] + 1
                       ELSE IF counters[l] > 0 THEN counters[l] - 1 ELSE 0
  BY <1>1, <1>2, UpdateCounts
<1>6. two => UpdateKeys(s1, KbMap[x][2], release).counters[l] =
               IF KbMap[x][2] # l THEN s1.counters[l]
               ELSE IF ~release THEN s1.counters[l] + 1
               ELSE IF s1.counters[l] > 0 THEN s1.counters[l] - 1 ELSE 0
  BY <1>2, <1>3, UpdateCounts
<1> HIDE DEF s1
<1>7. First(x, l) = IF k = l THEN 1 ELSE 0
  BY DEF First, One
<1>8. Second(x, l) = IF two /\ KbMap[x][2] = l THEN 1 ELSE 0
  BY DEF Second, One
<1> HIDE DEF two, k
<1>9. CASE two /\ KbMap[x][2] = l
  BY <1>1, <1>3, <1>4, <1>5, <1>6, <1>7, <1>8, <1>9
<1>10. CASE ~(two /\ KbMap[x][2] = l)
  <2>1. counters'[l] = s1.counters[l]
    BY <1>4, <1>6, <1>10
  <2> QED
    BY <1>1, <1>5, <1>7, <1>8, <1>10, <2>1
<1> QED
  BY <1>9, <1>10

Fits == \A k \in Keys : counters[k] <= Cardinality(Places(k))
Exact == lost = {} /\ ~forgot => \A k \in Keys : counters[k] = Cardinality(Places(k))
CountInv == IsFiniteSet(down) /\ Fits /\ Exact

LEMMA NothingHeld == ASSUME down = {}, NEW k PROVE Cardinality(Places(k)) = 0
<1>1. Places(k) = {}
  BY DEF Places
<1> QED
  BY <1>1, FS_EmptySet

LEMMA PressCounts ==
  ASSUME ClearAlone, KInv, CountInv, NEW x \in Scancodes, Ps2Press(x)
  PROVE  CountInv'
<1>1. /\ ToZx(x, FALSE) /\ x \notin down /\ down' = down \cup {x}
      /\ forgot' = IF Forgets(x) THEN down # {} ELSE forgot
  BY DEF Ps2Press
<1>2. TypeOK /\ counters \in [Keys -> Nat] /\ IsFiniteSet(down)
  BY DEF KInv, TypeOK, CountInv
<1>3. IsFiniteSet(down')
  BY <1>1, <1>2, FS_AddElement
<1>4. lost \subseteq lost'
  BY <1>1, <1>2, ToZxKeeps
<1>5. ASSUME NEW k \in Keys
      PROVE  /\ Cardinality(Places(k)') = Cardinality(Places(k)) + Cardinality(Hits(x, k))
             /\ Cardinality(Places(k)) \in Nat /\ Cardinality(Hits(x, k)) \in Nat
             /\ Cardinality(Hits(x, k)) = First(x, k) + Second(x, k)
  <2>1. Places(k)' = Places(k) \cup Hits(x, k) /\ Places(k) \cap Hits(x, k) = {}
    BY <1>1 DEF Places, Hits
  <2>2. /\ IsFiniteSet(Hits(x, k)) /\ Cardinality(Hits(x, k)) = First(x, k) + Second(x, k)
        /\ IsFiniteSet(Places(k)) /\ Cardinality(Places(k)) \in Nat
    BY <1>2, HitCount, PlacesFinite
  <2>3. Cardinality(Hits(x, k)) \in Nat
    BY <2>2, FS_CardinalityType
  <2> QED
    BY <2>1, <2>2, <2>3, Disjoint
<1>6. CASE ~Forgets(x)
  <2>1. ASSUME NEW k \in Keys
        PROVE  counters'[k] = counters[k] + Cardinality(Hits(x, k))
    BY <1>1, <1>2, <1>5, <1>6, ToZxCounts
  <2>2. Fits'
    BY <1>2, <1>5, <2>1 DEF CountInv, Fits
  <2>3. Exact'
    BY <1>1, <1>2, <1>4, <1>5, <1>6, <2>1 DEF CountInv, Exact
  <2> QED
    BY <1>3, <2>2, <2>3 DEF CountInv
<1>7. CASE Forgets(x)
  <2>1. KbMap[x][1] = CLRKYS /\ Len(KbMap[x]) = 1
    BY <1>7 DEF ClearAlone
  <2>2. counters' = NoCounts
    BY <1>1, <2>1 DEF ToZx, UpdateKeys, Put
  <2>3. ASSUME NEW k \in Keys PROVE Cardinality(Hits(x, k)) = 0
    <3>1. First(x, k) = 0 /\ Second(x, k) = 0
      BY <2>1, ZxKeyboardAssumption DEF First, Second, One, ZxKeyboardAssumption
    <3> QED
      BY <1>5, <3>1
  <2>4. Fits'
    BY <1>5, <2>2, <2>3 DEF Fits, NoCounts
  <2>5. ~forgot' => \A k \in Keys : Cardinality(Places(k)') = 0
    <3>1. ~forgot' => down = {}
      BY <1>1, <1>7, Zenon
    <3> QED
      BY <1>5, <2>3, <3>1, NothingHeld
  <2>6. Exact'
    BY <2>2, <2>5 DEF Exact, NoCounts
  <2> QED
    BY <1>3, <2>4, <2>6 DEF CountInv
<1> QED
  BY <1>6, <1>7

LEMMA ReleaseCounts ==
  ASSUME ClearAlone, KInv, CountInv, NEW x \in Scancodes, Ps2Release(x)
  PROVE  CountInv'
<1>1. /\ ToZx(x, TRUE) /\ x \in down /\ down' = down \ {x}
      /\ forgot' = (forgot /\ down' # {})
  BY DEF Ps2Release
<1>2. TypeOK /\ counters \in [Keys -> Nat] /\ IsFiniteSet(down) /\ forgot \in BOOLEAN
  BY DEF KInv, TypeOK, CountInv
<1>3. IsFiniteSet(down')
  BY <1>1, <1>2, FS_RemoveElement
<1>4. lost \subseteq lost' /\ counters' \in [Keys -> Nat]
  BY <1>1, <1>2, ToZxKeeps DEF Now, KeyState
<1>5. ASSUME NEW k \in Keys
      PROVE  /\ Cardinality(Places(k)) = Cardinality(Places(k)') + Cardinality(Hits(x, k))
             /\ Cardinality(Places(k)') \in Nat /\ Cardinality(Hits(x, k)) \in Nat
             /\ Cardinality(Hits(x, k)) = First(x, k) + Second(x, k)
  <2>1. Places(k) = Places(k)' \cup Hits(x, k) /\ Places(k)' \cap Hits(x, k) = {}
    BY <1>1 DEF Places, Hits
  <2>2. /\ IsFiniteSet(Hits(x, k)) /\ Cardinality(Hits(x, k)) = First(x, k) + Second(x, k)
        /\ IsFiniteSet(Places(k))
    BY <1>2, HitCount, PlacesFinite
  <2>3. IsFiniteSet(Places(k)')
    BY <2>1, <2>2, FS_Subset
  <2>4. Cardinality(Hits(x, k)) \in Nat /\ Cardinality(Places(k)') \in Nat
    BY <2>2, <2>3, FS_CardinalityType
  <2> QED
    BY <2>1, <2>2, <2>3, <2>4, Disjoint
<1>6. ASSUME NEW k \in Keys
      PROVE  counters'[k] = IF counters[k] > Cardinality(Hits(x, k))
                            THEN counters[k] - Cardinality(Hits(x, k)) ELSE 0
  <2>1. CASE ~Forgets(x)
    BY <1>1, <1>2, <1>5, <2>1, ToZxCounts
  <2>2. CASE Forgets(x)
    <3>1. KbMap[x][1] = CLRKYS /\ Len(KbMap[x]) = 1
      BY <2>2 DEF ClearAlone
    <3>2. counters' = counters
      BY <1>1, <3>1 DEF ToZx, UpdateKeys
    <3>3. First(x, k) = 0 /\ Second(x, k) = 0
      BY <3>1, ZxKeyboardAssumption DEF First, Second, One, ZxKeyboardAssumption
    <3> QED
      BY <1>2, <1>5, <3>2, <3>3
  <2> QED
    BY <2>1, <2>2
<1>7. Fits'
  BY <1>2, <1>5, <1>6 DEF CountInv, Fits
<1>8. Exact'
  <2>1. CASE ~forgot
    BY <1>2, <1>4, <1>5, <1>6, <2>1 DEF CountInv, Exact
  <2>2. CASE forgot /\ down' = {}
    <3>1. \A k \in Keys : Cardinality(Places(k)') = 0
      <4>1. \A k : Places(k)' = {}
        BY <2>2 DEF Places
      <4> QED
        BY <4>1, FS_EmptySet
    <3> QED
      BY <1>4, <1>7, <3>1 DEF Fits, Exact
  <2>3. CASE forgot /\ down' # {}
    BY <1>1, <2>3, Zenon DEF Exact
  <2> QED
    BY <1>2, <2>1, <2>2, <2>3
<1> QED
  BY <1>3, <1>7, <1>8 DEF CountInv

\* The clearings leave no count: with a key still held they are remembered.
LEMMA ErrorCounts ==
  ASSUME KInv, CountInv, Ps2Error
  PROVE  CountInv'
<1>1. /\ counters' = NoCounts /\ down' = down
      /\ forgot' = (forgot \/ down # {})
  BY DEF Ps2Error, ClrKb, userVars
<1>2. \A k : Places(k)' = Places(k)
  BY <1>1 DEF Places
<1>3. IsFiniteSet(down) /\ \A k \in Keys : Cardinality(Places(k)) \in Nat
  BY PlacesFinite DEF CountInv
<1>4. Fits'
  BY <1>1, <1>2, <1>3 DEF Fits, NoCounts
<1>5. down = {} => \A k \in Keys : Cardinality(Places(k)) = 0
  BY NothingHeld
<1>6. ~forgot' => down = {}
  BY <1>1, Zenon
<1>7. Exact'
  BY <1>1, <1>2, <1>5, <1>6 DEF Exact, NoCounts
<1> QED
  BY <1>1, <1>3, <1>4, <1>7 DEF CountInv

\* A clearing code that is the last of the FIFO finds the counters at zero.
LEMMA ClearCounts ==
  ASSUME KInv, CountInv, ApplyClear
  PROVE  CountInv'
<1>1. /\ fifo # <<>> /\ Head(fifo) = Clear
      /\ counters' = NoCounts /\ down' = down
      /\ lost' = IF Tail(fifo) = <<>> THEN lost ELSE lost \cup {"cleared"}
      /\ forgot' = (forgot \/ (Tail(fifo) # <<>> /\ down # {}))
  BY DEF ApplyClear, ClrKb, userVars
<1>2. \A k : Places(k)' = Places(k)
  BY <1>1 DEF Places
<1>3. IsFiniteSet(down) /\ \A k \in Keys : Cardinality(Places(k)) \in Nat
  BY PlacesFinite DEF CountInv
<1>4. Fits'
  BY <1>1, <1>2, <1>3 DEF Fits, NoCounts
<1>5. ASSUME lost' = {}, ~forgot', NEW k \in Keys
      PROVE  Cardinality(Places(k)) = 0
  <2>1. Tail(fifo) = <<>> /\ lost = {}
    BY <1>1, <1>5
  <2>2. ~forgot
    BY <1>1, <1>5, Zenon
  <2>3. fifo \in Seq(Code) /\ counters[k] \in Nat
    BY DEF KInv, TypeOK
  <2>4. Len(fifo) = 1 /\ fifo[1] = Clear
    <3>1. Len(Tail(fifo)) = Len(fifo) - 1 /\ Head(fifo) = fifo[1] /\ Len(fifo) \in Nat
      BY <1>1, <2>3
    <3> QED
      BY <1>1, <2>1, <3>1
  <2>5. IsLast(fifo, 1, k)
    BY <2>4 DEF IsLast, About
  <2>6. Presses(Clear) <=> counters[k] > 0
    BY <2>1, <2>4, <2>5 DEF KInv, FifoTells, TellsOf
  <2>7. ~Presses(Clear)
    BY DEF Presses, Clear, Release
  <2> QED
    BY <2>1, <2>2, <2>3, <2>6, <2>7 DEF CountInv, Exact
<1>6. Exact'
  BY <1>1, <1>2, <1>5 DEF Exact, NoCounts
<1> QED
  BY <1>1, <1>3, <1>4, <1>6 DEF CountInv

LEMMA CountStep ==
  ASSUME ClearAlone, KInv, CountInv, [Next]_vars
  PROVE  CountInv'
<1>1. ASSUME UNCHANGED <<counters, down, lost, forgot>> PROVE CountInv'
  BY <1>1 DEF CountInv, Fits, Exact, Places
<1>2. ASSUME NEW x \in Scancodes, Ps2Press(x) PROVE CountInv'
  BY <1>2, PressCounts
<1>3. ASSUME NEW x \in Scancodes, Ps2Release(x) PROVE CountInv'
  BY <1>3, ReleaseCounts
<1>4. ASSUME Ps2Error PROVE CountInv'
  BY <1>4, ErrorCounts
<1>5. ASSUME ApplyClear PROVE CountInv'
  BY <1>5, ClearCounts
<1>6. ASSUME NEW S, PressMatrix(S) \/ ReleaseMatrix(S) PROVE CountInv'
  BY <1>1, <1>6 DEF PressMatrix, ReleaseMatrix, ps2Vars, history
<1>7. ASSUME Tick \/ Ps2Idle \/ StopDrain PROVE CountInv'
  BY <1>1, <1>7 DEF Tick, Ps2Idle, StopDrain, userVars, ps2Vars, history
<1>8. ASSUME ApplyCode PROVE CountInv'
  BY <1>1, <1>8 DEF ApplyCode, userVars, history
<1>9. ASSUME CopyRow \/ EndTask \/ SendByte \/ Strobe PROVE CountInv'
  BY <1>1, <1>9 DEF CopyRow, EndTask, SendByte, Strobe, userVars, ps2Vars, history
<1>10. ASSUME UNCHANGED vars PROVE CountInv'
  BY <1>1, <1>10 DEF vars
<1> QED
  BY <1>2, <1>3, <1>4, <1>5, <1>6, <1>7, <1>8, <1>9, <1>10 DEF Next, User, ZxTask

\* Every ZX key is counted exactly as often as the PS/2 keys held map to it
\* (update_keys counts up and down, never below zero), and with no PS/2 key
\* held no key is counted, if the scancode that clears has no other code.
THEOREM CountsAreHeld == ASSUME ClearAlone PROVE Spec => []CountsHeld
<1>1. Init => CountInv
  <2> SUFFICES ASSUME Init PROVE CountInv
    OBVIOUS
  <2>1. down = {} /\ counters = NoCounts
    BY DEF Init
  <2>2. \A k \in Keys : counters[k] = 0 /\ Cardinality(Places(k)) = 0
    BY <2>1, NothingHeld DEF NoCounts
  <2> QED
    BY <2>1, <2>2, FS_EmptySet DEF CountInv, Fits, Exact
<1>2. KInv /\ CountInv /\ [Next]_vars => CountInv'
  BY CountStep
<1>3. KInv /\ CountInv => CountsHeld
  <2> SUFFICES ASSUME KInv, CountInv, down = {} PROVE Pressed = {}
    BY DEF CountInv, Exact, CountsHeld
  <2>1. \A k \in Keys : counters[k] \in Nat /\ counters[k] <= 0
    BY NothingHeld DEF KInv, TypeOK, CountInv, Fits
  <2> QED
    BY <2>1 DEF Pressed
<1> QED
  BY <1>1, <1>2, <1>3, KeyInvariant, PTL DEF Spec

(***************************************************************************)
(* The matrix alone: chords of CS and the copies of its scans.             *)
(***************************************************************************)

\* The user types on one of the keyboards, on the matrix only chords of CS, and
\* CS lies in byte 0, the one the interrupt stretches (interrupts.c 88).
ChordsOnly ==
  /\ Chords
  /\ \A u \in Users : (u.ps2 = 0 /\ ~u.errors) \/ u.matrix = 0
  /\ \A k \in Caps : Row[k] = 0

HandsOnly ==
  /\ down = {} /\ fifo = <<>> /\ zxmap = {} /\ lost = {}
  /\ strokes.ps2 = 0 /\ ~strokes.errors
  /\ scanned \cup real \cup z80keys \cup csPrev \subseteq MatrixKeys

\* The scan has gone over the rows of all but CS since the keys were lifted.
Swept == \A k \in scanned : Row[k] = 0 \/ (scankbd # 0 /\ Row[k] <= scankbd)

\* CS is the first to come and the last to go at each stage: in the hands, in
\* the scan, in its copy and in the port.
ChordOf(c) ==
  /\ pins # {} => c \in pins
  /\ csPrev = {} \/ c \in csPrev
  /\ c \in csPrev => c \in scanned
  /\ pins # {} /\ c \notin csPrev => c \notin scanned \cup real \cup z80keys
  /\ pins = {} /\ c \notin csPrev => scanned = {} \/ (c \in scanned /\ Swept)
  /\ c \in z80keys \ real =>
       pins = {} /\ scanned = {} /\ \A k \in real : copied > 0 /\ Row[k] >= copied

ChordInv == HandsOnly /\ \A c \in Caps \cap MatrixKeys : ChordOf(c)

\* The matrix is not used.
MatrixIdle ==
  /\ strokes.matrix = 0 /\ pins = {}
  /\ real = {} /\ scanned = {} /\ csPrev = {}

LEMMA KeyRows ==
  /\ \A k \in Keys : Row[k] \in Nat /\ Row[k] <= Rows - 1
  /\ MatrixKeys \subseteq Keys /\ Caps \subseteq Keys
  /\ Rows \in Nat /\ Rows >= 1
BY ZxKeyboardAssumption DEF ZxKeyboardAssumption

\* The PS/2 keyboard stays out of it.
LEMMA NoPs2 ==
  ASSUME ChordInv
  PROVE  /\ \A x : ~Ps2Press(x) /\ ~Ps2Release(x)
         /\ ~Ps2Error /\ ~ApplyCode /\ ~ApplyClear
<1>1. strokes.ps2 = 0 /\ ~strokes.errors /\ down = {} /\ fifo = <<>>
  BY DEF ChordInv, HandsOnly
<1>2. ~(0 > 0)
  OBVIOUS
<1> QED
  BY <1>1, <1>2 DEF Ps2Press, Ps2Release, Ps2Error, ApplyCode, ApplyClear

LEMMA ChordPress ==
  ASSUME ChordsOnly, TypeOK, ChordInv, NEW S, PressMatrix(S)
  PROVE  ChordInv'
<1>1. /\ Caps \cap MatrixKeys \subseteq pins \cup S
      /\ pins # {} \/ (scanned \cup real \cup z80keys = {})
      /\ pins' = pins \cup S
      /\ strokes' = [strokes EXCEPT !.matrix = @ - Cardinality(S)]
  BY DEF PressMatrix, ChordsOnly
<1>2. UNCHANGED <<down, fifo, zxmap, lost, real, scanned, scankbd, csPrev, copied, z80keys>>
  BY DEF PressMatrix, ps2Vars, drainVars, scanVars, sendVars, history
<1>3. strokes'.ps2 = strokes.ps2 /\ strokes'.errors = strokes.errors
  BY <1>1 DEF TypeOK, Bounds
<1>4. HandsOnly'
  BY <1>2, <1>3 DEF ChordInv, HandsOnly
<1>5. ASSUME NEW c \in Caps \cap MatrixKeys PROVE ChordOf(c)'
  <2>1. ChordOf(c) /\ c \in pins'
    BY <1>1 DEF ChordInv
  <2>2. CASE pins # {}
    BY <1>2, <2>1, <2>2 DEF ChordOf
  <2>3. CASE scanned = {} /\ real = {} /\ z80keys = {}
    BY <1>2, <2>1, <2>3 DEF ChordOf
  <2> QED
    BY <1>1, <2>2, <2>3
<1> QED
  BY <1>4, <1>5 DEF ChordInv

\* CS lifted with the rest has been seen in a scan.
LEMMA ChordRelease ==
  ASSUME ChordInv, NEW S, ReleaseMatrix(S)
  PROVE  ChordInv'
<1>1. /\ S \subseteq pins /\ pins' = pins \ S
      /\ S \cap Caps # {} => S = pins /\ S \cap Caps \subseteq csPrev
  BY DEF ReleaseMatrix
<1>2. UNCHANGED <<down, strokes, fifo, zxmap, lost, real, scanned, scankbd, csPrev,
                  copied, z80keys>>
  BY DEF ReleaseMatrix, ps2Vars, drainVars, scanVars, sendVars, history
<1>3. HandsOnly'
  BY <1>2 DEF ChordInv, HandsOnly
<1>4. ASSUME NEW c \in Caps \cap MatrixKeys PROVE ChordOf(c)'
  <2>1. ChordOf(c)
    BY DEF ChordInv
  <2>2. CASE pins = {}
    <3>1. pins' = pins
      BY <1>1, <2>2
    <3> QED
      BY <1>2, <2>1, <3>1 DEF ChordOf, Swept
  <2>3. CASE pins # {}
    <3>1. c \in pins /\ c \notin z80keys \ real
      BY <2>1, <2>3 DEF ChordOf
    <3>2. pins' # {} => c \in pins'
      BY <1>1, <3>1
    <3>3. pins' = {} => c \in csPrev
      BY <1>1, <3>1
    <3> QED
      BY <1>2, <2>1, <2>3, <3>1, <3>2, <3>3 DEF ChordOf
  <2> QED
    BY <2>2, <2>3
<1> QED
  BY <1>3, <1>4 DEF ChordInv

\* The scan of row 0 counts CS as down once more after its release.
LEMMA ChordTick ==
  ASSUME ChordsOnly, TypeOK, ChordInv, Tick
  PROVE  ChordInv'
<1>1. /\ scanned' = (scanned \ InRow(Keys, scankbd)) \cup Stretch(InRow(pins, scankbd))
      /\ scankbd' = IF scankbd = 0 THEN Rows - 1 ELSE scankbd - 1
      /\ csPrev' = IF scankbd = 0 THEN pins \cap Caps ELSE csPrev
  BY DEF Tick
<1>2. UNCHANGED <<down, pins, strokes, fifo, zxmap, lost, real, copied, z80keys>>
  BY DEF Tick, userVars, ps2Vars, drainVars, sendVars, history
<1>3. /\ pins \subseteq MatrixKeys /\ scankbd \in Nat
      /\ scanned \subseteq MatrixKeys /\ csPrev \subseteq MatrixKeys
  BY DEF TypeOK, ChordInv, HandsOnly
<1>4. scanned' \subseteq MatrixKeys /\ csPrev' \subseteq MatrixKeys
  BY <1>1, <1>3 DEF InRow, Stretch
<1>5. HandsOnly'
  BY <1>2, <1>4 DEF ChordInv, HandsOnly
<1>6. ASSUME NEW c \in Caps \cap MatrixKeys PROVE ChordOf(c)'
  <2>1. ChordOf(c)
    BY DEF ChordInv
  <2>2. Row[c] = 0 /\ c \in Keys
    BY KeyRows DEF ChordsOnly
  <2>3. CASE scankbd = 0
    <3>1. /\ scanned' = {k \in scanned : k \notin Keys \/ Row[k] # 0}
                          \cup {k \in pins : Row[k] = 0} \cup csPrev
          /\ scankbd' = Rows - 1 /\ csPrev' = pins \cap Caps
      BY <1>1, <2>3 DEF InRow, Stretch
    <3>2. c \in csPrev \/ csPrev = {}
      BY <2>1 DEF ChordOf
    <3>3. CASE pins # {}
      <4>1. c \in pins /\ c \in csPrev' /\ c \in scanned' /\ c \notin z80keys \ real
        BY <2>1, <2>2, <3>1, <3>3 DEF ChordOf
      <4> QED
        BY <1>2, <3>3, <4>1 DEF ChordOf
    <3>4. CASE pins = {} /\ c \in csPrev
      <4>1. c \in scanned' /\ csPrev' = {} /\ pins' = {} /\ c \notin z80keys \ real
        BY <1>2, <2>1, <3>1, <3>4 DEF ChordOf
      <4>2. Swept'
        <5> SUFFICES ASSUME NEW k \in scanned'
                     PROVE  Row[k] = 0 \/ (scankbd' # 0 /\ Row[k] <= scankbd')
          BY DEF Swept
        <5>1. k \in Keys
          BY <1>4, KeyRows
        <5>2. Row[k] \in Nat /\ Row[k] <= Rows - 1
          BY <5>1, KeyRows
        <5> QED
          BY <3>1, <5>2, KeyRows
      <4> QED
        BY <1>2, <4>1, <4>2 DEF ChordOf
    <3>5. CASE pins = {} /\ csPrev = {}
      <4>1. \A k \in scanned : k \in Keys /\ Row[k] = 0
        BY <1>3, <2>1, <2>3, <3>5, KeyRows DEF ChordOf, Swept
      <4>2. scanned' = {} /\ csPrev' = {}
        BY <3>1, <3>5, <4>1
      <4> QED
        BY <1>2, <2>1, <3>5, <4>2 DEF ChordOf
    <3> QED
      BY <3>2, <3>3, <3>4, <3>5
  <2>4. CASE scankbd # 0
    <3>1. /\ scanned' = {k \in scanned : k \notin Keys \/ Row[k] # scankbd}
                          \cup {k \in pins : Row[k] = scankbd}
          /\ scankbd' = scankbd - 1 /\ csPrev' = csPrev
      BY <1>1, <2>4 DEF InRow, Stretch
    <3>2. c \in scanned' <=> c \in scanned
      BY <2>2, <2>4, <3>1
    <3>3. pins = {} /\ scanned = {} => scanned' = {}
      BY <3>1
    <3>4. pins = {} /\ Swept => Swept'
      <4> SUFFICES ASSUME pins = {}, Swept, NEW k \in scanned'
                   PROVE  Row[k] = 0 \/ (scankbd' # 0 /\ Row[k] <= scankbd')
        BY DEF Swept
      <4>1. k \in scanned /\ k \in Keys /\ Row[k] # scankbd
        BY <1>3, <3>1, KeyRows
      <4>2. Row[k] \in Nat /\ (Row[k] = 0 \/ Row[k] <= scankbd)
        BY <4>1, KeyRows DEF Swept
      <4> QED
        BY <1>3, <2>4, <3>1, <4>1, <4>2
    <3> QED
      BY <1>2, <2>1, <3>1, <3>2, <3>3, <3>4 DEF ChordOf
  <2> QED
    BY <2>3, <2>4
<1> QED
  BY <1>5, <1>6 DEF ChordInv

\* Row 0 is copied first: if CS goes with it, the scan is empty and the rows
\* behind go with the same copy.
LEMMA ChordCopy ==
  ASSUME ChordsOnly, TypeOK, ChordInv, CopyRow
  PROVE  ChordInv'
<1>1. /\ real' = (real \ InRow(Keys, copied)) \cup InRow(scanned, copied)
      /\ copied' = copied + 1 /\ copied \in Nat
  BY DEF CopyRow, TypeOK
<1>2. UNCHANGED <<down, pins, strokes, fifo, zxmap, lost, scanned, scankbd, csPrev, z80keys>>
  BY DEF CopyRow, userVars, ps2Vars, scanVars, sendVars, history
<1>3. real \subseteq MatrixKeys /\ scanned \subseteq MatrixKeys
  BY DEF ChordInv, HandsOnly
<1>4. HandsOnly'
  BY <1>1, <1>2, <1>3 DEF ChordInv, HandsOnly, InRow
<1>5. ASSUME NEW c \in Caps \cap MatrixKeys PROVE ChordOf(c)'
  <2>1. ChordOf(c)
    BY DEF ChordInv
  <2>2. Row[c] = 0 /\ c \in Keys
    BY KeyRows DEF ChordsOnly
  <2>3. c \notin scanned \cup real => c \notin real'
    BY <1>1 DEF InRow
  <2>4. ASSUME c \in z80keys, c \notin real'
        PROVE  /\ pins = {} /\ scanned = {}
               /\ \A k \in real : Row[k] # copied => Row[k] >= copied + 1
    <3>1. CASE copied = 0
      <4>1. c \notin scanned
        BY <1>1, <2>2, <3>1, <2>4 DEF InRow
      <4>2. pins = {} /\ scanned = {}
        BY <2>1, <2>4, <4>1 DEF ChordOf
      <4>3. \A k \in real : Row[k] \in Nat
        BY <1>3, KeyRows
      <4> QED
        BY <3>1, <4>2, <4>3
    <3>2. CASE copied # 0
      <4>1. c \notin real
        BY <1>1, <2>2, <2>4, <3>2 DEF InRow
      <4>2. pins = {} /\ scanned = {} /\ \A k \in real : Row[k] >= copied
        BY <2>1, <2>4, <4>1 DEF ChordOf
      <4>3. \A k \in real : Row[k] \in Nat
        BY <1>3, KeyRows
      <4> QED
        BY <1>1, <4>2, <4>3
    <3> QED
      BY <3>1, <3>2
  <2>5. scanned = {} => \A k \in real' : k \in real /\ Row[k] # copied
    BY <1>1, <1>3, KeyRows DEF InRow
  <2>6. copied' > 0
    BY <1>1
  <2>7. c \in z80keys' \ real' =>
          /\ pins' = {} /\ scanned' = {}
          /\ \A k \in real' : copied' > 0 /\ Row[k] >= copied'
    BY <1>1, <1>2, <2>4, <2>5, <2>6
  <2>8. Swept' <=> Swept
    BY <1>2 DEF Swept
  <2> QED
    BY <1>2, <2>1, <2>3, <2>7, <2>8 DEF ChordOf
<1> QED
  BY <1>4, <1>5 DEF ChordInv

\* A whole copy of a scan without CS has left no key.
LEMMA ChordEnd ==
  ASSUME TypeOK, ChordInv, EndTask
  PROVE  ChordInv'
<1>1. copied = Rows \/ copied = 0
  BY DEF EndTask
<1>2. UNCHANGED <<down, pins, strokes, fifo, zxmap, lost, real, scanned, scankbd, csPrev,
                  z80keys>>
  BY DEF EndTask, userVars, ps2Vars, sendVars, history
<1>3. HandsOnly'
  BY <1>2 DEF ChordInv, HandsOnly
<1>4. ASSUME NEW c \in Caps \cap MatrixKeys PROVE ChordOf(c)'
  <2>1. ChordOf(c)
    BY DEF ChordInv
  <2>2. c \in z80keys \ real => pins = {} /\ scanned = {} /\ real = {}
    <3> HAVE c \in z80keys \ real
    <3>1. pins = {} /\ scanned = {} /\ \A k \in real : copied > 0 /\ Row[k] >= copied
      BY <2>1 DEF ChordOf
    <3>2. \A k \in real : Row[k] \in Nat /\ Row[k] <= Rows - 1
      BY KeyRows DEF ChordInv, HandsOnly
    <3>3. ~\E k \in real : TRUE
      BY <1>1, <3>1, <3>2, KeyRows
    <3> QED
      BY <3>1, <3>3
  <2>3. Swept' <=> Swept
    BY <1>2 DEF Swept
  <2> QED
    BY <1>2, <2>1, <2>2, <2>3 DEF ChordOf
<1> QED
  BY <1>3, <1>4 DEF ChordInv

\* The strobe shows the copy.
LEMMA ChordStrobe ==
  ASSUME KInv, ChordInv, Strobe
  PROVE  ChordInv' /\ z80keys' = real
<1>1. z80keys' = real
  BY StrobePublishes DEF ChordInv, HandsOnly
<1>2. UNCHANGED <<down, pins, strokes, fifo, zxmap, lost, real, scanned, scankbd, csPrev,
                  copied>>
  BY DEF Strobe, userVars, ps2Vars, drainVars, scanVars, history
<1>3. HandsOnly'
  BY <1>1, <1>2 DEF ChordInv, HandsOnly
<1>4. ASSUME NEW c \in Caps \cap MatrixKeys PROVE ChordOf(c)'
  <2>1. ChordOf(c)
    BY DEF ChordInv
  <2>2. Swept' <=> Swept
    BY <1>2 DEF Swept
  <2> QED
    BY <1>1, <1>2, <2>1, <2>2 DEF ChordOf
<1> QED
  BY <1>1, <1>3, <1>4 DEF ChordInv

LEMMA ChordStep ==
  ASSUME ChordsOnly, KInv, ChordInv, [Next]_vars
  PROVE  ChordInv'
<1>1. TypeOK
  BY DEF KInv
<1>2. ASSUME UNCHANGED <<down, pins, strokes, fifo, zxmap, lost, real, scanned, scankbd,
                         csPrev, copied, z80keys>>
      PROVE  ChordInv'
  <2>1. HandsOnly' /\ (Swept' <=> Swept)
    BY <1>2 DEF ChordInv, HandsOnly, Swept
  <2>2. ASSUME NEW c \in Caps \cap MatrixKeys PROVE ChordOf(c)'
    BY <1>2, <2>1 DEF ChordInv, ChordOf
  <2> QED
    BY <2>1, <2>2 DEF ChordInv
<1>3. ASSUME NEW S, PressMatrix(S) \/ ReleaseMatrix(S) PROVE ChordInv'
  BY <1>1, <1>3, ChordPress, ChordRelease
<1>4. ASSUME Tick PROVE ChordInv'
  BY <1>1, <1>4, ChordTick
<1>5. ASSUME Ps2Idle \/ StopDrain \/ SendByte PROVE ChordInv'
  BY <1>2, <1>5 DEF Ps2Idle, StopDrain, SendByte, userVars, ps2Vars, drainVars,
                    scanVars, sendVars, history
<1>6. ASSUME CopyRow PROVE ChordInv'
  BY <1>1, <1>6, ChordCopy
<1>7. ASSUME EndTask PROVE ChordInv'
  BY <1>1, <1>7, ChordEnd
<1>8. ASSUME Strobe PROVE ChordInv'
  BY <1>8, ChordStrobe
<1>9. ASSUME UNCHANGED vars PROVE ChordInv'
  BY <1>2, <1>9 DEF vars
<1> QED
  BY <1>3, <1>4, <1>5, <1>6, <1>7, <1>8, <1>9, NoPs2 DEF Next, User, ZxTask

\* Without strokes nothing is ever closed in the matrix.
LEMMA IdleMatrix ==
  ASSUME TypeOK, MatrixIdle, [Next]_vars
  PROVE  MatrixIdle'
<1>1. ASSUME UNCHANGED <<strokes, pins, real, scanned, csPrev>> PROVE MatrixIdle'
  BY <1>1 DEF MatrixIdle
<1>2. ASSUME NEW S \in SUBSET MatrixKeys, PressMatrix(S) PROVE MatrixIdle'
  <2>1. Cardinality(S) \in Nat /\ Cardinality(S) <= 0 /\ IsFiniteSet(S)
    <3>1. 0 >= Cardinality(S)
      BY <1>2 DEF PressMatrix, MatrixIdle
    <3>2. IsFiniteSet(S)
      BY FS_Subset, ZxKeyboardAssumption DEF ZxKeyboardAssumption
    <3> QED
      BY <3>1, <3>2, MatrixCount
  <2>2. S = {} /\ Cardinality(S) = 0
    BY <2>1, FS_EmptySet
  <2>3. pins' = {} /\ strokes' = [strokes EXCEPT !.matrix = @ - 0]
    BY <1>2, <2>2 DEF PressMatrix, MatrixIdle
  <2>4. strokes'.matrix = 0
    BY <2>3 DEF TypeOK, Bounds, MatrixIdle
  <2> QED
    BY <1>2, <2>3, <2>4 DEF PressMatrix, MatrixIdle, scanVars
<1>3. ASSUME NEW S, ReleaseMatrix(S) PROVE MatrixIdle'
  BY <1>3 DEF ReleaseMatrix, MatrixIdle, scanVars
<1>4. ASSUME NEW x, Ps2Press(x) \/ Ps2Release(x) PROVE MatrixIdle'
  <2>1. strokes'.matrix = strokes.matrix
    BY <1>4 DEF Ps2Press, Ps2Release, TypeOK, Bounds
  <2> QED
    BY <1>4, <2>1 DEF Ps2Press, Ps2Release, scanVars, MatrixIdle
<1>5. ASSUME Ps2Error \/ ApplyClear PROVE MatrixIdle'
  BY <1>5 DEF Ps2Error, ApplyClear, ClrKb, userVars, MatrixIdle
<1>6. ASSUME Tick PROVE MatrixIdle'
  BY <1>6 DEF Tick, userVars, MatrixIdle, InRow, Stretch
<1>7. ASSUME CopyRow PROVE MatrixIdle'
  BY <1>7 DEF CopyRow, userVars, scanVars, MatrixIdle, InRow
<1>8. ASSUME Ps2Idle \/ ApplyCode \/ StopDrain \/ EndTask \/ SendByte \/ Strobe
      PROVE  MatrixIdle'
  BY <1>1, <1>8 DEF Ps2Idle, ApplyCode, StopDrain, EndTask, SendByte, Strobe,
                    userVars, drainVars, scanVars
<1>9. ASSUME UNCHANGED vars PROVE MatrixIdle'
  BY <1>1, <1>9 DEF vars
<1> QED
  BY <1>2, <1>3, <1>4, <1>5, <1>6, <1>7, <1>8, <1>9 DEF Next, User, ZxTask

LEMMA OnlyStrobe ==
  ASSUME [Next]_vars, z80keys' # z80keys
  PROVE  Strobe
<1>1. \A S : ~PressMatrix(S) /\ ~ReleaseMatrix(S)
  BY DEF PressMatrix, ReleaseMatrix, sendVars
<1>2. \A x : ~Ps2Press(x) /\ ~Ps2Release(x)
  BY DEF Ps2Press, Ps2Release, sendVars
<1>3. ~Tick /\ ~Ps2Idle /\ ~Ps2Error /\ ~ApplyCode /\ ~ApplyClear
  BY DEF Tick, Ps2Idle, Ps2Error, ApplyCode, ApplyClear, sendVars
<1>4. ~StopDrain /\ ~CopyRow /\ ~EndTask /\ ~SendByte /\ ~UNCHANGED vars
  BY DEF StopDrain, CopyRow, EndTask, SendByte, sendVars, vars
<1> QED
  BY <1>1, <1>2, <1>3, <1>4 DEF Next, User, ZxTask

\* A chord of CS lifted together is never seen without CS on its way out: only
\* the strobe changes what the Z80 reads, and where the copy has lost CS no
\* other key is left in it.  The user uses one of the keyboards, the matrix for
\* chords of CS.
THEOREM CapsLast == ASSUME ChordsOnly PROVE Spec => CapsLiftedLast
<1> DEFINE Lifted == \A c \in Caps, k \in MatrixKeys \ Caps :
                       {c, k} \subseteq z80keys /\ c \notin z80keys' /\ zxmap = {} /\ lost = {}
                       => k \notin z80keys'
           OneUser == ChordInv \/ MatrixIdle
<1>1. Init => OneUser
  <2> SUFFICES ASSUME Init PROVE OneUser
    OBVIOUS
  <2>1. (strokes.ps2 = 0 /\ ~strokes.errors) \/ strokes.matrix = 0
    BY DEF Init, ChordsOnly
  <2> QED
    BY <2>1 DEF Init, ChordInv, HandsOnly, ChordOf, MatrixIdle
<1>2. KInv /\ OneUser /\ [Next]_vars => OneUser'
  BY ChordStep, IdleMatrix DEF KInv
<1>3. KInv /\ OneUser /\ [Next]_vars => Lifted
  <2> SUFFICES ASSUME KInv, OneUser, [Next]_vars,
                      NEW c \in Caps, NEW k \in MatrixKeys \ Caps,
                      c \in z80keys, c \notin z80keys', zxmap = {}, lost = {}
               PROVE  k \notin z80keys'
    OBVIOUS
  <2>1. Strobe
    BY OnlyStrobe
  <2>2. z80keys' = real
    BY <2>1, StrobePublishes
  <2>3. CASE MatrixIdle
    BY <2>2, <2>3 DEF MatrixIdle
  <2>4. CASE ChordInv
    <3>1. copied = 0
      BY <2>1 DEF KInv, TaskControl, Strobe
    <3>2. c \in Caps \cap MatrixKeys
      BY <2>4 DEF ChordInv, HandsOnly
    <3>3. \A j \in real : copied > 0
      BY <2>2, <2>4, <3>2 DEF ChordInv, ChordOf
    <3>4. ~(0 > 0)
      OBVIOUS
    <3> QED
      BY <2>2, <3>1, <3>3, <3>4
  <2> QED
    BY <2>3, <2>4
<1>4. KInv /\ OneUser /\ [Next]_vars => [Lifted]_vars
  BY <1>3
<1> QED
  BY <1>1, <1>2, <1>4, KeyInvariant, PTL DEF Spec, CapsLiftedLast
=============================================================================
