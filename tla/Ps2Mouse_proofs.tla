--------------------------- MODULE Ps2Mouse_proofs ---------------------------
(***************************************************************************)
(* Why a byte of a packet is always taken for what it is: what the mouse    *)
(* has still to send is at every moment the rest of the answer that the     *)
(* task counts, or of the packet it takes apart, as long as no command and  *)
(* no answer has been damaged and no key has replaced the ENABLE in hand.   *)
(***************************************************************************)
EXTENDS Ps2Mouse, TLAPS

\* What a mouse sends.
Answers == {"FA", "FE", "AA", "00", "03", "p1", "p2", "p3", "p4"}

Ack == <<"FA">>
Refusal == <<"FE">>
ResetReply == <<"FA", "AA", "00">>
TypeReply(code) == <<"FA", code>>
TypeCode == IF FourBytes THEN "03" ELSE "00"

\* What the mouse answers to a command of the initialisation.
Reply(c, code) ==
  IF c = "FF" THEN ResetReply ELSE IF c = "F2" THEN TypeReply(code) ELSE Ack

PacketBytes == <<"p1", "p2", "p3", "p4">>

\* 1 if a byte has come that the task has still to take.
Got == IF link = "got" THEN 1 ELSE 0

\* The byte that has come is the n-th of s, what is to come the rest.
Answered(s, n) ==
  /\ Len(out) = Len(s) - n
  /\ \A i \in 1..Len(out) : out[i] = s[n + i]
  /\ link = "got" => byte = s[n]

Answering == link \in {"sent", "idle", "got"}

Sending(c) == link = "send" /\ byte = c /\ resp = 1

\* The answers to c are on their way, and the task counts them.
Awaits(c) ==
  /\ Answering /\ (link = "sent" => resp = 1)
  /\ resp \in 1..Len(Reply(c, TypeCode))
  /\ Answered(Reply(c, TypeCode), resp - 1 + Got)

Declined == Answering /\ resp = 1 /\ Answered(Refusal, Got)

\* Packets of a mouse that is still enabled, while the task begins again.
Stray ==
  /\ link \in {"idle", "got", "stallR"}
  /\ \A i \in 1..Len(out) : IsPacket(out[i])
  /\ link = "got" => byte # "FA"
  /\ link = "stallR" => out = <<>>

\* The first two resets.
Resets ==
  \/ Stray /\ (initstep = 1 => resp <= 1)
  \/ Sending("FF")
  \/ Awaits("FF") /\ ~on
  \/ Declined

\* The rest of the initialisation: the mouse is disabled until the last command.
SetsUp ==
  \/ link = "idle" /\ resp = 0 /\ out = <<>> /\ ~on
  \/ Sending(Code) /\ ~on
  \/ Awaits(Code) /\ (on => Code = "F4")
  \/ Declined /\ ~on

\* The mouse works and no command is under way.
Moved ==
  /\ link \in {"idle", "got", "stallR"}
  /\ link = "got" /\ IsPacket(byte) => byte = PacketBytes[resp + 1]
  /\ \/ out = <<>> /\ (resp + Got \in {0, PacketSize} \/ link = "stallR")
     \/ /\ link # "stallR" /\ Len(out) = PacketSize - resp - Got
        /\ \A i \in 1..Len(out) : out[i] = PacketBytes[resp + Got + i]

\* The two commands that set the resolution and enable the mouse again.
Exchange ==
  /\ resp # 1 => cmd = "E8"
  /\ \/ link = "send" /\ resp \in {1, 3} /\ byte = IF resp = 1 THEN cmd ELSE "res"
     \/ /\ Answering /\ resp \in {1, 3}
        /\ \/ Answered(Ack, Got) /\ (resp = 1 /\ cmd = "E8" => arg = "E8")
           \/ Answered(Refusal, Got)
     \/ link = "idle" /\ resp = 2 /\ out = <<>> /\ arg = "E8"

Steps == 14

MTypes ==
  /\ initstep \in 0..Steps /\ resp \in 0..3
  /\ cmd \in {"none", "E8", "F4"}
  /\ cmdFlag \in BOOLEAN /\ type \in BOOLEAN /\ both \in BOOLEAN /\ wheel \in BOOLEAN
  /\ on \in BOOLEAN /\ spoilt \in BOOLEAN /\ replaced \in BOOLEAN
  /\ link \in {"idle", "send", "sent", "got", "stallS", "stallR"}
  /\ knock \in 0..3 /\ arg \in {"none", "F3", "E8"}
  /\ out \in Seq(Answers) /\ Len(out) <= 4
  /\ faults \in 0..MaxFaults
  /\ cmdFlag => cmd # "none"
  /\ initstep = Steps /\ ~cmdFlag => resp < PacketSize

MFollow ==
  /\ initstep >= 10 => (type <=> FourBytes)
  /\ initstep # Steps => ~cmdFlag
  /\ initstep <= 1 => Resets
  /\ initstep \in 2..13 => SetsUp
  /\ initstep = Steps /\ ~cmdFlag => Moved
  /\ initstep = Steps /\ cmdFlag => Exchange

\* The inductive invariant.
MInv == MTypes /\ (~spoilt /\ ~replaced => MFollow)

-----------------------------------------------------------------------------
(* The tables of the model *)

CodeAt(n) == IF n = Len(InitSequence) THEN "end" ELSE InitSequence[n + 1]

\* What is asked for in which step.
LEMMA Codes ==
  ASSUME NEW n \in 0..Steps
  PROVE  /\ CodeAt(n) = "end" <=> n = Steps
         /\ CodeAt(n) = "FF" <=> n <= 2
         /\ CodeAt(n) = "F2" <=> n = 9
         /\ CodeAt(n) = "F4" <=> n = 13
         /\ CodeAt(n) # "E8" /\ CodeAt(n) # "res"
         /\ n \in 10..13 => CodeAt(n) \in {"E6", "F3", "64", "F4"}
<1>1. Len(InitSequence) = 14
  BY DEF InitSequence
<1>2. /\ InitSequence[1] = "FF" /\ InitSequence[2] = "FF" /\ InitSequence[3] = "FF"
      /\ InitSequence[4] = "F3" /\ InitSequence[5] = "C8" /\ InitSequence[6] = "F3"
      /\ InitSequence[7] = "64" /\ InitSequence[8] = "F3" /\ InitSequence[9] = "50"
      /\ InitSequence[10] = "F2" /\ InitSequence[11] = "E6" /\ InitSequence[12] = "F3"
      /\ InitSequence[13] = "64" /\ InitSequence[14] = "F4"
  BY DEF InitSequence
<1>3. CodeAt(n) = IF n = 14 THEN "end" ELSE InitSequence[n + 1]
  BY <1>1 DEF CodeAt
<1>4. CASE n <= 2
  BY <1>2, <1>3, <1>4 DEF Steps
<1>5. CASE n \in 3..8
  BY <1>2, <1>3, <1>5 DEF Steps
<1>6. CASE n \in 9..14
  BY <1>2, <1>3, <1>6 DEF Steps
<1> QED
  BY <1>4, <1>5, <1>6 DEF Steps

LEMMA CodeNow ==
  /\ Code = CodeAt(initstep)
  /\ Code' = CodeAt(initstep')
BY DEF Code, CodeAt

\* The answers.
LEMMA Replies ==
  /\ Len(Ack) = 1 /\ Ack[1] = "FA" /\ Len(Refusal) = 1 /\ Refusal[1] = "FE"
  /\ Len(ResetReply) = 3
  /\ ResetReply[1] = "FA" /\ ResetReply[2] = "AA" /\ ResetReply[3] = "00"
  /\ \A code : /\ Len(TypeReply(code)) = 2
               /\ TypeReply(code)[1] = "FA" /\ TypeReply(code)[2] = code
BY DEF Ack, Refusal, ResetReply, TypeReply

LEMMA PacketIs ==
  ASSUME NEW n \in 3..4
  PROVE  /\ Packet(n) \in Seq(Answers) /\ Len(Packet(n)) = n
         /\ \A i \in 1..n : Packet(n)[i] = PacketBytes[i]
<1>1. \A i \in 1..n : PacketBytes[i] \in Answers
  <2>1. /\ PacketBytes[1] = "p1" /\ PacketBytes[2] = "p2"
        /\ PacketBytes[3] = "p3" /\ PacketBytes[4] = "p4"
    BY DEF PacketBytes
  <2>2. \A i \in 1..n : i = 1 \/ i = 2 \/ i = 3 \/ i = 4
    OBVIOUS
  <2> QED
    BY <2>1, <2>2 DEF Answers
<1>2. Packet(n) = [i \in 1..n |-> PacketBytes[i]]
  BY DEF Packet, PacketBytes
<1> QED
  BY <1>1, <1>2

LEMMA PacketBytesArePackets == \A i \in 1..4 : IsPacket(PacketBytes[i]) /\ PacketBytes[i] # "FA"
BY DEF PacketBytes, IsPacket

\* A sequence and what is left of it behind its first byte.
LEMMA Popped ==
  ASSUME NEW s \in Seq(Answers), s # <<>>
  PROVE  /\ Tail(s) \in Seq(Answers) /\ Len(Tail(s)) = Len(s) - 1 /\ Len(s) \in Nat \ {0}
         /\ \A i \in 1..Len(Tail(s)) : Tail(s)[i] = s[i + 1]
         /\ Head(s) = s[1]
OBVIOUS

-----------------------------------------------------------------------------
(* One lemma for each action *)

LEMMA SendStep == ASSUME MInv, TaskSend PROVE MInv'
<1>1. MTypes /\ (~spoilt /\ ~replaced => MFollow) /\ initstep \in 0..Steps /\ resp \in 0..3
  BY DEF MInv, MTypes
<1>2. /\ link = "idle" /\ link' = "send"
      /\ UNCHANGED <<initstep, cmd, type, both, wheel, knock, on, arg, out, faults, spoilt, replaced>>
  BY DEF TaskSend, Send, mouse
<1>3. Code' = Code /\ PacketSize' = PacketSize /\ (FourBytes' <=> FourBytes)
  BY <1>2 DEF Code, PacketSize, FourBytes
<1>4. CASE Code # "end" /\ resp = 0 /\ Send(Code, 1) /\ UNCHANGED cmdFlag
  <2>1. initstep # Steps /\ (initstep <= 1 => Code = "FF")
    BY <1>1, <1>4, Codes, CodeNow
  <2>2. MTypes'
    BY <1>1, <1>2, <1>3, <1>4, <2>1 DEF MTypes, Send
  <2>3. ASSUME ~spoilt, ~replaced PROVE MFollow'
    <3>1. Sending(Code)'
      BY <1>2, <1>3, <1>4 DEF Sending, Send
    <3>2. initstep <= 1 => Resets'
      BY <1>3, <2>1, <3>1 DEF Resets, Sending
    <3>3. initstep \in 2..13 => SetsUp'
      BY <1>1, <1>2, <1>4, <2>3, <3>1 DEF MFollow, SetsUp, Sending, Awaits, Declined
    <3> QED
      BY <1>1, <1>2, <1>3, <1>4, <2>1, <2>3, <3>2, <3>3 DEF MFollow
  <2> QED
    BY <1>2, <2>2, <2>3 DEF MInv
<1>5. CASE Code = "end" /\ cmd # "none" /\ resp = 0 /\ Send(cmd, 1) /\ cmdFlag' = TRUE
  <2>1. initstep = Steps
    BY <1>1, <1>5, Codes, CodeNow
  <2>2. MTypes'
    BY <1>1, <1>2, <1>5 DEF MTypes, Send
  <2>3. Exchange'
    BY <1>2, <1>5 DEF Exchange, Send
  <2> QED
    BY <1>1, <1>2, <1>3, <1>5, <2>1, <2>2, <2>3 DEF MInv, MFollow, Steps
<1>6. CASE /\ Code = "end" /\ cmd = "E8" /\ cmdFlag /\ resp = 2
           /\ Send("res", 3) /\ UNCHANGED cmdFlag
  <2>1. initstep = Steps
    BY <1>1, <1>6, Codes, CodeNow
  <2>2. MTypes'
    BY <1>1, <1>2, <1>6 DEF MTypes, Send
  <2>3. Exchange'
    BY <1>2, <1>6 DEF Exchange, Send
  <2> QED
    BY <1>1, <1>2, <1>3, <1>6, <2>1, <2>2, <2>3 DEF MInv, MFollow, Steps
<1> QED
  BY <1>4, <1>5, <1>6 DEF TaskSend

LEMMA TimeoutStep == ASSUME MInv, TaskTimeout PROVE MInv'
<1>1. /\ link \in {"stallS", "stallR"} /\ link' = "idle"
      /\ initstep' \in {initstep, 0} /\ (link = "stallR" => initstep' = 0)
      /\ both' \in BOOLEAN
      /\ UNCHANGED <<resp, cmd, cmdFlag, type, wheel, knock, on, arg, out, faults, spoilt, replaced>>
  BY DEF TaskTimeout, StepAfterError, mouse, MInv, MTypes
<1>2. MTypes'
  BY <1>1 DEF MInv, MTypes, Steps, PacketSize
<1>3. ASSUME ~spoilt, ~replaced PROVE MFollow'
  <2>1. MFollow /\ initstep \in 0..Steps
    BY <1>3 DEF MInv, MTypes
  <2>2. link = "stallR" /\ out = <<>> /\ ~cmdFlag
    BY <1>1, <2>1 DEF MFollow, Resets, SetsUp, Moved, Exchange, Stray, Sending, Awaits, Declined,
                      Answering, Steps
  <2>3. Stray'
    BY <1>1, <2>2 DEF Stray
  <2> QED
    BY <1>1, <2>2, <2>3 DEF MFollow, Resets, Steps
<1> QED
  BY <1>1, <1>2, <1>3 DEF MInv

LEMMA SentStep == ASSUME MInv, TaskSent PROVE MInv'
<1>1. /\ link = "sent" /\ link' = "idle"
      /\ UNCHANGED <<initstep, resp, cmd, cmdFlag, type, both, wheel, knock, on, arg, out, faults, spoilt, replaced>>
  BY DEF TaskSent, avr, mouse
<1>2. MTypes'
  BY <1>1 DEF MInv, MTypes, PacketSize
<1>3. /\ Code' = Code /\ (FourBytes' <=> FourBytes) /\ TypeCode' = TypeCode
      /\ Got = 0 /\ Got' = 0
  BY <1>1 DEF Code, FourBytes, TypeCode, Got
<1>4. ASSUME ~spoilt, ~replaced PROVE MFollow'
  <2>1. MFollow
    BY <1>4 DEF MInv
  <2>2. \A s, n : Answered(s, n) => Answered(s, n)'
    BY <1>1 DEF Answered
  <2>3. /\ \A c : Awaits(c) => Awaits(c)'
        /\ Declined => Declined'
    BY <1>1, <1>3, <2>2 DEF Awaits, Declined, Answering
  <2>4. initstep <= 1 => Resets'
    BY <1>1, <2>1, <2>3 DEF MFollow, Resets, Stray, Sending
  <2>5. initstep \in 2..13 => SetsUp'
    BY <1>1, <1>3, <2>1, <2>3 DEF MFollow, SetsUp, Sending
  <2>6. initstep = Steps => cmdFlag /\ Exchange'
    BY <1>1, <1>3, <2>1, <2>2 DEF MFollow, Moved, Exchange, Answering
  <2> QED
    BY <1>1, <1>3, <2>1, <2>4, <2>5, <2>6 DEF MFollow
<1> QED
  BY <1>1, <1>2, <1>4 DEF MInv

LEMMA ResolutionStep == ASSUME MInv, SetResolution PROVE MInv'
<1>1. /\ cmd' = "E8" /\ replaced' = (replaced \/ (cmdFlag /\ cmd = "F4"))
      /\ UNCHANGED <<initstep, resp, cmdFlag, type, both, link, byte, wheel, knock, on, arg, out, faults, spoilt>>
  BY DEF SetResolution, mouse
<1>a. replaced' \in BOOLEAN /\ (cmdFlag /\ ~replaced' => cmd = "E8")
  BY <1>1 DEF MInv, MTypes
<1>2. MTypes'
  BY <1>1, <1>a DEF MInv, MTypes, PacketSize
<1>3. /\ Code' = Code /\ (FourBytes' <=> FourBytes) /\ TypeCode' = TypeCode
      /\ Got' = Got /\ PacketSize' = PacketSize
      /\ \A s, n : Answered(s, n)' <=> Answered(s, n)
  BY <1>1 DEF Code, FourBytes, TypeCode, Got, PacketSize, Answered
<1>4. /\ \A c : (Awaits(c)' <=> Awaits(c)) /\ (Sending(c)' <=> Sending(c))
      /\ Declined' <=> Declined
      /\ Answering' <=> Answering
      /\ Stray' <=> Stray
  BY <1>1, <1>3 DEF Awaits, Declined, Answering, Sending, Stray
<1>5. ASSUME ~spoilt', ~replaced' PROVE MFollow'
  <2>1. Resets => Resets'
    BY <1>1, <1>4 DEF Resets
  <2>2. SetsUp => SetsUp'
    BY <1>1, <1>3, <1>4 DEF SetsUp
  <2>3. Moved => Moved'
    BY <1>1, <1>3 DEF Moved
  <2>4. cmdFlag /\ Exchange => Exchange'
    BY <1>1, <1>a, <1>3, <1>4, <1>5 DEF Exchange
  <2> QED
    BY <1>1, <1>3, <1>5, <2>1, <2>2, <2>3, <2>4 DEF MInv, MFollow
<1> QED
  BY <1>1, <1>2, <1>5 DEF MInv

\* What the mouse makes of the byte it has heard.
LEMMA Heard ==
  ASSUME MTypes, Hears
  PROVE  /\ out' \in Seq(Answers) /\ Len(out') <= 4
         /\ out' = IF byte = "FF" THEN ResetReply
                   ELSE IF byte = "F2" THEN TypeReply(TypeCode)
                   ELSE IF arg = "none" /\ byte \in {"C8", "64", "50", "res"} THEN Refusal ELSE Ack
         /\ knock' \in 0..3
         /\ byte \in {"F2", "E6", "F3", "64", "F4", "E8", "res"} => (knock' = 3 <=> knock = 3)
<1>1. out' = IF byte = "FF" THEN ResetReply
             ELSE IF byte = "F2" THEN TypeReply(TypeCode)
             ELSE IF arg = "none" /\ byte \in {"C8", "64", "50", "res"} THEN Refusal ELSE Ack
  BY DEF Hears, ResetReply, TypeReply, TypeCode, Refusal, Ack
<1>2. /\ ResetReply \in Seq(Answers) /\ Refusal \in Seq(Answers) /\ Ack \in Seq(Answers)
      /\ TypeReply(TypeCode) \in Seq(Answers)
  BY DEF ResetReply, Refusal, Ack, TypeReply, TypeCode, Answers
<1>3. /\ Len(ResetReply) = 3 /\ Len(Refusal) = 1 /\ Len(Ack) = 1
      /\ Len(TypeReply(TypeCode)) = 2
  BY Replies
<1>4. /\ Rates[1] = "C8" /\ Rates[2] = "64" /\ Rates[3] = "50"
      /\ Range(Rates) = {"C8", "64", "50"}
  BY DEF Rates, Range
<1>5. knock' \in {0, knock, Knocks(byte)}
  BY DEF Hears
<1>6. Knocks(byte) \in 0..3 /\ (byte = "64" => (Knocks(byte) = 3 <=> knock = 3))
  BY <1>4 DEF Knocks, MTypes
<1>7. byte \in {"F2", "E6", "F3", "64", "F4", "E8", "res"} => (knock' = 3 <=> knock = 3)
  BY <1>4, <1>6 DEF Hears
<1>8. out' \in Seq(Answers) /\ Len(out') <= 4
  <2>1. CASE out' = ResetReply
    <3>1. Len(out') = 3
      BY <1>3, <2>1
    <3> QED
      BY <1>2, <2>1, <3>1
  <2>2. CASE out' = TypeReply(TypeCode)
    <3>1. Len(out') = 2
      BY <1>3, <2>2
    <3> QED
      BY <1>2, <2>2, <3>1
  <2>3. CASE out' \in {Refusal, Ack}
    <3>1. Len(out') = 1
      BY <1>3, <2>3
    <3> QED
      BY <1>2, <2>3, <3>1
  <2> QED
    BY <1>1, <2>1, <2>2, <2>3
<1>9. knock' \in 0..3
  BY <1>5, <1>6 DEF MTypes
<1> QED
  BY <1>1, <1>7, <1>8, <1>9

LEMMA HearStep == ASSUME MInv, Hears PROVE MInv'
<1>1. /\ link = "send" /\ link' = "sent"
      /\ on' = (byte = "F4" \/ (on /\ byte # "FF"))
      /\ arg' = IF byte \in {"F3", "E8"} THEN byte ELSE "none"
      /\ UNCHANGED <<initstep, resp, cmd, cmdFlag, type, both, byte, wheel, faults, spoilt, replaced>>
  BY DEF Hears, avr
<1>2. MTypes /\ initstep \in 0..Steps /\ resp \in 0..3
  BY DEF MInv, MTypes
<1>3. /\ out' \in Seq(Answers) /\ Len(out') <= 4 /\ knock' \in 0..3
      /\ out' = IF byte = "FF" THEN ResetReply
                ELSE IF byte = "F2" THEN TypeReply(TypeCode)
                ELSE IF arg = "none" /\ byte \in {"C8", "64", "50", "res"} THEN Refusal ELSE Ack
      /\ byte \in {"F2", "E6", "F3", "64", "F4", "E8", "res"} => (knock' = 3 <=> knock = 3)
  BY <1>2, Heard
<1>4. MTypes'
  <2>1. on' \in BOOLEAN /\ arg' \in {"none", "F3", "E8"} /\ PacketSize' = PacketSize
    BY <1>1, <1>2 DEF MTypes, PacketSize
  <2> QED
    BY <1>1, <1>2, <1>3, <2>1 DEF MTypes
<1>5. ASSUME ~spoilt, ~replaced PROVE MFollow'
  <2>1. MFollow
    BY <1>5 DEF MInv
  <2>2. Got' = 0 /\ Code' = Code
    BY <1>1 DEF Got, Code
  <2>a. ASSUME NEW s, out' = s, Len(s) \in Nat PROVE Answered(s, 0)'
    BY <1>1, <2>a DEF Answered
  <2>b. ASSUME NEW c, Sending(c), out' = Reply(c, TypeCode'),
               Len(Reply(c, TypeCode')) \in Nat \ {0}
        PROVE  Awaits(c)'
    <3>1. Answered(Reply(c, TypeCode), 0)'
      BY <2>a, <2>b
    <3>2. resp' = 1 /\ resp' - 1 + Got' = 0
      BY <1>1, <2>2, <2>b DEF Sending
    <3> QED
      BY <1>1, <2>b, <3>1, <3>2 DEF Awaits, Answering
  <2>3. ASSUME NEW c, Sending(c), c \notin {"FF", "F2"}, out' = Ack
        PROVE  Awaits(c)'
    <3>1. Reply(c, TypeCode') = Ack
      BY <2>3 DEF Reply
    <3> QED
      BY <2>3, <2>b, <3>1, Replies
  <2>4. ASSUME NEW c, Sending(c), out' = Refusal PROVE Declined'
    BY <1>1, <2>2, <2>4, Replies DEF Sending, Declined, Answered, Answering
  <2>5. ASSUME Sending("FF") PROVE Awaits("FF")' /\ ~on'
    <3>1. Reply("FF", TypeCode') = ResetReply /\ out' = ResetReply
      BY <1>3, <2>5 DEF Reply, Sending
    <3>2. Awaits("FF")'
      BY <2>5, <2>b, <3>1, Replies
    <3> QED
      BY <1>1, <2>5, <3>2 DEF Sending
  <2>6. ASSUME Sending("F2"), ~on PROVE Awaits("F2")' /\ ~on'
    <3>1. TypeCode' = TypeCode
      BY <1>1, <1>3, <2>6 DEF FourBytes, TypeCode, Sending
    <3>2. out' = TypeReply(TypeCode)
      BY <1>3, <2>6 DEF Sending
    <3>3. Reply("F2", TypeCode') = TypeReply(TypeCode)
      BY <3>1 DEF Reply
    <3>4. Len(TypeReply(TypeCode)) = 2
      BY Replies
    <3>5. Awaits("F2")'
      BY <2>6, <2>b, <3>2, <3>3, <3>4
    <3> QED
      BY <1>1, <2>6, <3>5 DEF Sending
  <2>7. initstep <= 1 => Resets'
    BY <1>1, <2>1, <2>5 DEF MFollow, Resets, Stray, Awaits, Declined, Answering
  <2>8. initstep \in 2..13 => SetsUp'
    <3> SUFFICES ASSUME initstep \in 2..13 PROVE SetsUp'
      OBVIOUS
    <3>1. Sending(Code) /\ ~on
      BY <1>1, <2>1 DEF MFollow, SetsUp, Awaits, Declined, Answering
    <3>2. CASE Code = "FF"
      BY <2>2, <2>5, <3>1, <3>2 DEF SetsUp
    <3>3. CASE Code = "F2"
      BY <2>2, <2>6, <3>1, <3>3 DEF SetsUp
    <3>4. CASE Code \notin {"FF", "F2"}
      <4>1. (on' => Code = "F4") /\ out' \in {Refusal, Ack} /\ (on' => out' = Ack)
        BY <1>1, <1>3, <3>1, <3>4 DEF Sending
      <4> QED
        BY <2>2, <2>3, <2>4, <3>1, <3>4, <4>1 DEF SetsUp
    <3> QED
      BY <3>2, <3>3, <3>4
  <2>9. initstep = Steps => cmdFlag /\ Exchange'
    <3> SUFFICES ASSUME initstep = Steps PROVE cmdFlag /\ Exchange'
      OBVIOUS
    <3>1. cmdFlag /\ Exchange
      BY <1>1, <2>1 DEF MFollow, Moved
    <3>2. resp \in {1, 3} /\ byte = (IF resp = 1 THEN cmd ELSE "res") /\ (resp # 1 => cmd = "E8")
      BY <1>1, <3>1 DEF Exchange, Answering
    <3>3. cmd \in {"E8", "F4"}
      BY <1>2, <3>1 DEF MTypes
    <3>4. /\ out' \in {Refusal, Ack}
          /\ resp = 1 /\ cmd = "E8" => arg' = "E8"
      BY <1>1, <1>3, <3>2, <3>3
    <3>5. Answered(Refusal, Got)' \/ Answered(Ack, Got)'
      BY <1>1, <2>2, <3>4, Replies DEF Answered
    <3> QED
      BY <1>1, <3>1, <3>2, <3>4, <3>5 DEF Exchange, Answering
  <2>10. initstep >= 10 => (type' <=> FourBytes')
    <3> SUFFICES ASSUME initstep >= 10 PROVE FourBytes' <=> FourBytes
      BY <1>1, <2>1 DEF MFollow
    <3>1. byte \in {"E6", "F3", "64", "F4", "E8", "res"}
      <4>1. CASE initstep = Steps
        BY <1>1, <1>2, <2>1, <4>1 DEF MFollow, Moved, Exchange, Answering, MTypes
      <4>2. CASE initstep # Steps
        <5>1. initstep \in 10..13
          BY <1>2, <4>2 DEF Steps
        <5>2. Code \in {"E6", "F3", "64", "F4"}
          BY <1>2, <5>1, Codes, CodeNow
        <5> QED
          BY <1>1, <2>1, <5>1, <5>2 DEF MFollow, SetsUp, Sending, Awaits, Declined, Answering
      <4> QED
        BY <4>1, <4>2
    <3> QED
      BY <1>1, <1>3, <3>1 DEF FourBytes
  <2> QED
    BY <1>1, <2>1, <2>7, <2>8, <2>9, <2>10 DEF MFollow
<1> QED
  BY <1>1, <1>4, <1>5 DEF MInv

\* The next byte of an answer has come.
LEMMA NextOf ==
  ASSUME MTypes, link = "idle", out # <<>>, link' = "got", byte' = Head(out), out' = Tail(out),
         NEW s, NEW n \in Int, Len(s) \in Nat, Answered(s, n)
  PROVE  Answered(s, n + 1)'
<1>1. /\ out' \in Seq(Answers) /\ Len(out') = Len(out) - 1 /\ Len(out) \in Nat \ {0}
      /\ \A i \in 1..Len(out') : out'[i] = out[i + 1]
      /\ byte' = out[1]
  BY Popped DEF MTypes
<1>2. Len(out) = Len(s) - n /\ \A i \in 1..Len(out) : out[i] = s[n + i]
  BY DEF Answered
<1>3. Len(out') = Len(s) - (n + 1)
  BY <1>1, <1>2
<1>4. ASSUME NEW i \in 1..Len(out') PROVE out'[i] = s[(n + 1) + i]
  <2>1. i + 1 \in 1..Len(out) /\ i \in Int
    BY <1>1, <1>4
  <2>2. out'[i] = out[i + 1]
    BY <1>1, <1>4
  <2>3. out[i + 1] = s[n + (i + 1)]
    BY <1>2, <2>1
  <2>4. n + (i + 1) = (n + 1) + i
    BY <2>1
  <2> QED
    BY <2>2, <2>3, <2>4
<1>5. byte' = s[n + 1]
  <2>1. 1 \in 1..Len(out)
    BY <1>1
  <2> QED
    BY <1>1, <1>2, <2>1
<1> QED
  BY <1>3, <1>4, <1>5 DEF Answered

\* What is left behind the first byte of a packet.
LEMMA NextOfPacket ==
  ASSUME MTypes, ~cmdFlag, initstep = Steps, Moved, link = "idle", out # <<>>,
         link' \in {"got", "stallR"}, link' = "stallR" => Len(out) = 1,
         IsPacket(byte') => byte' = Head(out), out' = Tail(out),
         UNCHANGED <<resp, type>>
  PROVE  Moved'
<1>1. /\ out' \in Seq(Answers) /\ Len(out') = Len(out) - 1 /\ Len(out) \in Nat \ {0}
      /\ \A i \in 1..Len(out') : out'[i] = out[i + 1]
      /\ Head(out) = out[1]
  BY Popped DEF MTypes
<1>2. PacketSize' = PacketSize /\ Got = 0 /\ resp \in 0..3 /\ PacketSize \in 3..4
  BY DEF PacketSize, Got, MTypes
<1>3. Len(out) = PacketSize - resp /\ \A i \in 1..Len(out) : out[i] = PacketBytes[resp + i]
  BY <1>2 DEF Moved
<1>4. link' = "got" /\ IsPacket(byte') => byte' = PacketBytes[resp' + 1]
  <2>1. 1 \in 1..Len(out)
    BY <1>1
  <2> QED
    BY <1>1, <1>3, <2>1
<1>5. CASE link' = "stallR"
  <2>1. out' = <<>>
    BY <1>1, <1>5
  <2> QED
    BY <1>4, <1>5, <2>1 DEF Moved
<1>6. CASE link' = "got"
  <2>1. Got' = 1
    BY <1>6 DEF Got
  <2>2. Len(out') = PacketSize' - resp' - Got'
    BY <1>1, <1>2, <1>3, <2>1
  <2>3. ASSUME NEW i \in 1..Len(out') PROVE out'[i] = PacketBytes[resp' + Got' + i]
    <3>1. i + 1 \in 1..Len(out) /\ i \in Int
      BY <1>1, <2>3
    <3>2. out'[i] = PacketBytes[resp + (i + 1)]
      BY <1>1, <1>3, <2>3, <3>1
    <3>3. resp' + Got' + i = resp + (i + 1)
      BY <1>2, <2>1, <3>1
    <3> QED
      BY <3>2, <3>3
  <2> QED
    BY <1>4, <1>6, <2>2, <2>3 DEF Moved
<1> QED
  BY <1>5, <1>6

\* The rest of what is not enabled yet, one byte on.
LEMMA NextOfStray ==
  ASSUME MTypes, Stray, out # <<>>, link' \in {"got", "stallR"}, link' = "stallR" => Len(out) = 1,
         byte' # "FA", out' = Tail(out)
  PROVE  Stray'
<1>1. /\ out' \in Seq(Answers) /\ Len(out') = Len(out) - 1 /\ Len(out) \in Nat \ {0}
      /\ \A i \in 1..Len(out') : out'[i] = out[i + 1]
  BY Popped DEF MTypes
<1>2. ASSUME NEW i \in 1..Len(out') PROVE IsPacket(out'[i])
  <2>1. i + 1 \in 1..Len(out)
    BY <1>1, <1>2
  <2>2. out'[i] = out[i + 1]
    BY <1>1, <1>2
  <2> QED
    BY <2>1, <2>2 DEF Stray
<1>3. link' = "stallR" => out' = <<>>
  BY <1>1
<1> QED
  BY <1>2, <1>3 DEF Stray

LEMMA SendsStep == ASSUME MInv, Sends PROVE MInv'
<1>1. /\ link = "idle" /\ out # <<>> /\ link' = "got" /\ byte' = Head(out) /\ out' = Tail(out)
      /\ UNCHANGED <<initstep, resp, cmd, cmdFlag, type, both, wheel, knock, on, arg, faults, spoilt, replaced>>
  BY DEF Sends, avr
<1>2. MTypes
  BY DEF MInv
<1>3. out' \in Seq(Answers) /\ Len(out') = Len(out) - 1 /\ Len(out) \in Nat \ {0} /\ Head(out) = out[1]
  BY <1>1, <1>2, Popped DEF MTypes
<1>4. MTypes'
  BY <1>1, <1>2, <1>3 DEF MTypes, PacketSize
<1>5. ASSUME ~spoilt, ~replaced PROVE MFollow'
  <2>1. MFollow
    BY <1>5 DEF MInv
  <2>2. /\ Got = 0 /\ Got' = 1 /\ Code' = Code /\ (FourBytes' <=> FourBytes)
        /\ TypeCode' = TypeCode /\ resp \in 0..3
    BY <1>1, <1>2 DEF Got, Code, FourBytes, TypeCode, MTypes
  <2>3. ASSUME NEW c, Awaits(c) PROVE Awaits(c)'
    <3>1. Len(Reply(c, TypeCode)) \in Nat
      BY Replies DEF Reply
    <3>2. Answered(Reply(c, TypeCode), resp - 1 + 0)
      BY <2>2, <2>3 DEF Awaits
    <3>3. Answered(Reply(c, TypeCode), (resp - 1) + 1)'
      BY <1>1, <1>2, <2>2, <3>1, <3>2, NextOf
    <3> QED
      BY <1>1, <2>2, <2>3, <3>3 DEF Awaits, Answering
  <2>4. ASSUME Answered(Refusal, 0) PROVE Answered(Refusal, 1)'
    BY <1>1, <1>2, <2>4, NextOf, Replies
  <2>5. ASSUME Answered(Ack, 0) PROVE Answered(Ack, 1)'
    BY <1>1, <1>2, <2>5, NextOf, Replies
  <2>6. Declined => Declined'
    BY <1>1, <2>2, <2>4 DEF Declined, Answering
  <2>7. initstep <= 1 => Resets'
    <3>1. ASSUME Stray PROVE Stray'
      <4>1. byte' # "FA"
        BY <1>1, <1>3, <3>1 DEF Stray, IsPacket
      <4> QED
        BY <1>1, <1>2, <3>1, <4>1, NextOfStray
    <3> QED
      BY <1>1, <2>1, <2>3, <2>6, <3>1 DEF MFollow, Resets, Sending
  <2>8. initstep \in 2..13 => SetsUp'
    BY <1>1, <2>1, <2>2, <2>3, <2>6 DEF MFollow, SetsUp, Sending
  <2>9. initstep = Steps /\ ~cmdFlag => Moved'
    BY <1>1, <1>2, <2>1, NextOfPacket DEF MFollow
  <2>10. initstep = Steps /\ cmdFlag => Exchange'
    BY <1>1, <2>1, <2>2, <2>4, <2>5 DEF MFollow, Exchange, Answering
  <2> QED
    BY <1>1, <2>1, <2>2, <2>7, <2>8, <2>9, <2>10 DEF MFollow
<1> QED
  BY <1>1, <1>4, <1>5 DEF MInv

LEMMA MovesStep == ASSUME MInv, Moves PROVE MInv'
<1>1. /\ on /\ out = <<>> /\ arg = "none" /\ link = "idle"
      /\ out' = Packet(IF FourBytes THEN 4 ELSE 3)
      /\ UNCHANGED <<initstep, resp, cmd, cmdFlag, type, both, link, byte, wheel, knock, on, arg, faults, spoilt, replaced>>
  BY DEF Moves, avr
<1>2. PICK n \in 3..4 : n = IF FourBytes THEN 4 ELSE 3
  OBVIOUS
<1>3. out' \in Seq(Answers) /\ Len(out') = n /\ \A i \in 1..n : out'[i] = PacketBytes[i]
  BY <1>1, <1>2, PacketIs
<1>4. MTypes'
  <2>1. Len(out') <= 4
    BY <1>2, <1>3
  <2> QED
    BY <1>1, <1>3, <2>1 DEF MInv, MTypes, PacketSize
<1>5. ASSUME ~spoilt, ~replaced PROVE MFollow'
  <2>1. MFollow /\ resp \in 0..3 /\ initstep \in 0..Steps
    BY <1>5 DEF MInv, MTypes
  <2>2. Got = 0 /\ Got' = 0 /\ Code' = Code /\ (FourBytes' <=> FourBytes) /\ Len(out) = 0
    BY <1>1 DEF Got, Code, FourBytes
  <2>3. ASSUME NEW s, NEW k, Answered(s, k) PROVE Len(s) - k = 0
    BY <2>2, <2>3 DEF Answered
  <2>4. ~Declined /\ ~Answered(Ack, Got) /\ ~Answered(Refusal, Got)
    BY <2>2, <2>3, Replies DEF Declined
  <2>5. ASSUME NEW c, Awaits(c) PROVE FALSE
    <3>1. Len(Reply(c, TypeCode)) \in Nat
      BY Replies DEF Reply
    <3>2. resp \in 1..Len(Reply(c, TypeCode)) /\ Len(Reply(c, TypeCode)) - (resp - 1 + Got) = 0
      BY <2>3, <2>5 DEF Awaits
    <3> QED
      BY <2>1, <2>2, <3>1, <3>2
  <2>6. initstep <= 1 => Resets'
    <3>1. Stray => Stray'
      BY <1>1, <1>2, <1>3, PacketBytesArePackets DEF Stray
    <3> QED
      BY <1>1, <2>1, <2>4, <2>5, <3>1 DEF MFollow, Resets, Sending
  <2>7. initstep \notin 2..13
    BY <1>1, <2>1, <2>4, <2>5 DEF MFollow, SetsUp, Sending
  <2>8. initstep = Steps => ~cmdFlag
    BY <1>1, <2>1, <2>4 DEF MFollow, Exchange
  <2>9. initstep = Steps => Moved'
    <3> SUFFICES ASSUME initstep = Steps PROVE Moved'
      OBVIOUS
    <3>1. Moved /\ resp < PacketSize /\ (type <=> FourBytes)
      BY <2>1, <2>8 DEF MInv, MFollow, MTypes, Steps
    <3>2. PacketSize = n /\ PacketSize' = n
      BY <1>1, <1>2, <3>1 DEF PacketSize
    <3>3. resp = 0
      BY <1>1, <2>1, <2>2, <3>1, <3>2 DEF Moved
    <3> QED
      BY <1>1, <1>3, <2>2, <3>2, <3>3 DEF Moved
  <2> QED
    BY <1>1, <2>1, <2>2, <2>6, <2>7, <2>8, <2>9 DEF MFollow
<1> QED
  BY <1>1, <1>4, <1>5 DEF MInv

LEMMA AskStep == ASSUME MInv, AsksAgain, faults < MaxFaults PROVE MInv'
<1>1. /\ link = "send" /\ link' = "sent" /\ out' = Refusal /\ faults' = faults + 1
      /\ UNCHANGED <<initstep, resp, cmd, cmdFlag, type, both, byte, wheel, knock, on, arg, spoilt, replaced>>
  BY DEF AsksAgain, avr, Refusal
<1>2. Refusal \in Seq(Answers) /\ Len(Refusal) = 1
  BY DEF Refusal, Answers
<1>3. MTypes'
  <2>1. out' \in Seq(Answers) /\ Len(out') <= 4
    BY <1>1, <1>2
  <2>2. faults' \in 0..MaxFaults
    BY <1>1, MouseAssumption DEF MInv, MTypes
  <2> QED
    BY <1>1, <2>1, <2>2 DEF MInv, MTypes, PacketSize
<1>4. ASSUME ~spoilt, ~replaced PROVE MFollow'
  <2>1. MFollow
    BY <1>4 DEF MInv
  <2>2. Got' = 0 /\ Code' = Code /\ (FourBytes' <=> FourBytes)
    BY <1>1 DEF Got, Code, FourBytes
  <2>3. Answered(Refusal, Got)'
    BY <1>1, <1>2, <2>2 DEF Answered
  <2>4. ASSUME NEW c, Sending(c) PROVE Declined'
    BY <1>1, <2>3, <2>4 DEF Sending, Declined, Answering
  <2>5. initstep <= 1 => Resets'
    BY <1>1, <2>1, <2>4 DEF MFollow, Resets, Stray, Awaits, Declined, Answering
  <2>6. initstep \in 2..13 => SetsUp'
    BY <1>1, <2>1, <2>4 DEF MFollow, SetsUp, Awaits, Declined, Answering
  <2>7. initstep = Steps => cmdFlag /\ Exchange'
    BY <1>1, <2>1, <2>3 DEF MFollow, Moved, Exchange, Answering
  <2> QED
    BY <1>1, <2>1, <2>2, <2>5, <2>6, <2>7 DEF MFollow
<1> QED
  BY <1>1, <1>3, <1>4 DEF MInv

\* No byte of an answer looks like one of a packet.
LEMMA AnswersAreNoPackets ==
  /\ ~IsPacket(Ack[1]) /\ ~IsPacket(Refusal[1])
  /\ \A c : \A i \in 1..Len(Reply(c, TypeCode)) : ~IsPacket(Reply(c, TypeCode)[i])
<1>1. TypeCode \in {"00", "03"}
  BY DEF TypeCode
<1>2. ASSUME NEW i \in 1..3 PROVE ~IsPacket(ResetReply[i])
  <2>1. i = 1 \/ i = 2 \/ i = 3
    OBVIOUS
  <2> QED
    BY <2>1, Replies DEF IsPacket
<1>3. ASSUME NEW i \in 1..2 PROVE ~IsPacket(TypeReply(TypeCode)[i])
  <2>1. i = 1 \/ i = 2
    OBVIOUS
  <2> QED
    BY <1>1, <2>1, Replies DEF IsPacket
<1>4. ~IsPacket(Ack[1]) /\ ~IsPacket(Refusal[1])
  BY Replies DEF IsPacket
<1>5. ASSUME NEW c, NEW i \in 1..Len(Reply(c, TypeCode)) PROVE ~IsPacket(Reply(c, TypeCode)[i])
  <2>1. CASE c = "FF"
    BY <1>2, <1>5, <2>1, Replies DEF Reply
  <2>2. CASE c = "F2"
    BY <1>3, <1>5, <2>2, Replies DEF Reply
  <2>3. CASE c \notin {"FF", "F2"}
    <3>1. Reply(c, TypeCode) = Ack /\ Len(Ack) = 1
      BY <2>3, Replies DEF Reply
    <3>2. i = 1
      BY <1>5, <3>1
    <3> QED
      BY <1>4, <3>1, <3>2
  <2> QED
    BY <2>1, <2>2, <2>3
<1> QED
  BY <1>4, <1>5

LEMMA EdgeStep == ASSUME MInv, EdgeLost, faults < MaxFaults PROVE MInv'
<1>1. /\ link = "idle" /\ out # <<>> /\ link' \in {"got", "stallR"}
      /\ link' = "stallR" => ~(Len(out) > 1)
      /\ byte' \in {"00", "junk"} /\ out' = Tail(out) /\ faults' = faults + 1
      /\ spoilt' = (spoilt \/ ~IsPacket(Head(out)))
      /\ UNCHANGED <<initstep, resp, cmd, cmdFlag, type, both, wheel, knock, on, arg, replaced>>
  BY DEF EdgeLost, avr
<1>2. MTypes
  BY DEF MInv
<1>3. out' \in Seq(Answers) /\ Len(out') = Len(out) - 1 /\ Len(out) \in Nat \ {0} /\ Head(out) = out[1]
  BY <1>1, <1>2, Popped DEF MTypes
<1>4. MTypes'
  <2>1. faults' \in 0..MaxFaults /\ spoilt' \in BOOLEAN
    BY <1>1, <1>2, MouseAssumption DEF MTypes
  <2>2. PacketSize' = PacketSize
    BY <1>1 DEF PacketSize
  <2> QED
    BY <1>1, <1>2, <1>3, <2>1, <2>2 DEF MTypes
<1>5. ASSUME ~spoilt', ~replaced' PROVE MFollow'
  <2>1. MFollow /\ IsPacket(out[1])
    BY <1>1, <1>3, <1>5 DEF MInv
  <2>2. Got = 0 /\ resp \in 0..3 /\ (FourBytes' <=> FourBytes) /\ initstep \in 0..Steps
    BY <1>1, <1>2 DEF Got, FourBytes, MTypes
  <2>3. link' = "stallR" => Len(out) = 1
    BY <1>1, <1>3
  <2>4. ~Answered(Ack, Got) /\ ~Answered(Refusal, Got)
    <3>1. 1 \in 1..Len(out)
      BY <1>3
    <3> QED
      BY <2>1, <2>2, <3>1, AnswersAreNoPackets DEF Answered
  <2>5. ASSUME NEW c, Awaits(c) PROVE FALSE
    <3>1. Len(Reply(c, TypeCode)) \in Nat
      BY Replies DEF Reply
    <3>2. resp \in 1..Len(Reply(c, TypeCode)) /\ Answered(Reply(c, TypeCode), resp - 1)
      BY <2>2, <2>5 DEF Awaits
    <3>3. 1 \in 1..Len(out)
      BY <1>3
    <3>4. out[1] = Reply(c, TypeCode)[(resp - 1) + 1]
      BY <3>2, <3>3 DEF Answered
    <3>5. (resp - 1) + 1 = resp
      BY <2>2
    <3> QED
      BY <2>1, <3>2, <3>4, <3>5, AnswersAreNoPackets
  <2>6. initstep <= 1 => Resets'
    <3>1. Stray => Stray'
      BY <1>1, <1>2, <2>3, NextOfStray
    <3> QED
      BY <1>1, <2>1, <2>4, <2>5, <3>1 DEF MFollow, Resets, Sending, Declined
  <2>7. initstep \notin 2..13
    BY <1>1, <2>1, <2>4, <2>5 DEF MFollow, SetsUp, Sending, Declined
  <2>8. initstep = Steps => ~cmdFlag
    BY <1>1, <2>1, <2>4 DEF MFollow, Exchange
  <2>9. initstep = Steps => Moved'
    <3>1. ~IsPacket(byte')
      BY <1>1 DEF IsPacket
    <3> QED
      BY <1>1, <1>2, <2>1, <2>3, <2>8, <3>1, NextOfPacket DEF MFollow
  <2> QED
    BY <1>1, <2>1, <2>2, <2>6, <2>7, <2>8, <2>9 DEF MFollow
<1> QED
  BY <1>4, <1>5 DEF MInv

LEMMA StallStep == ASSUME MInv, SendStalls, faults < MaxFaults PROVE MInv'
<1>1. /\ link' = "stallS" /\ faults' = faults + 1 /\ spoilt' = TRUE
      /\ UNCHANGED <<initstep, resp, cmd, cmdFlag, type, both, wheel, knock, on, arg, out, replaced>>
  BY DEF SendStalls, avr, mouse
<1>2. faults' \in 0..MaxFaults
  BY <1>1, MouseAssumption DEF MInv, MTypes
<1>3. PacketSize' = PacketSize
  BY <1>1 DEF PacketSize
<1> QED
  BY <1>1, <1>2, <1>3 DEF MInv, MTypes

-----------------------------------------------------------------------------
(* The byte the task takes *)

Taken == link = "got" /\ link' = "idle" /\ UNCHANGED <<wheel, knock, on, arg, out, faults, spoilt, replaced>>

\* What taking a byte leaves as it is.
LEMMA Takes ==
  ASSUME MInv, Taken
  PROVE  /\ MTypes /\ initstep \in 0..Steps /\ resp \in 0..3
         /\ Got = 1 /\ Got' = 0 /\ (FourBytes' <=> FourBytes) /\ TypeCode' = TypeCode
         /\ ~spoilt /\ ~replaced => MFollow
BY DEF MInv, Taken, Got, FourBytes, TypeCode, MTypes

\* The last byte of an answer has nothing behind it.
LEMMA LastOf ==
  ASSUME MTypes, Taken, NEW s, NEW n \in Nat, Len(s) = n, Answered(s, n)
  PROVE  out = <<>> /\ out' = <<>> /\ byte = s[n]
<1>1. Len(out) = 0 /\ out \in Seq(Answers)
  BY DEF Answered, MTypes
<1> QED
  BY <1>1 DEF Answered, Taken

LEMMA RefusedAll ==
  ASSUME MInv, Taken
  PROVE  /\ Declined => resp = 1 /\ out = <<>> /\ out' = <<>> /\ byte = "FE"
         /\ Answered(Refusal, Got) => out = <<>> /\ out' = <<>> /\ byte = "FE"
         /\ Answered(Ack, Got) => out = <<>> /\ out' = <<>> /\ byte = "FA"
<1>1. MTypes /\ Got = 1
  BY Takes
<1>2. ASSUME Answered(Refusal, Got) PROVE out = <<>> /\ out' = <<>> /\ byte = "FE"
  BY <1>1, <1>2, LastOf, Replies
<1>3. ASSUME Answered(Ack, Got) PROVE out = <<>> /\ out' = <<>> /\ byte = "FA"
  BY <1>1, <1>3, LastOf, Replies
<1> QED
  BY <1>2, <1>3 DEF Declined

LEMMA PacketTaken ==
  ASSUME MInv, Taken, initstep = Steps, ~cmdFlag, InPacket
  PROVE  MInv'
<1>1. /\ MTypes /\ resp < PacketSize /\ resp \in 0..3 /\ PacketSize \in 3..4
      /\ Got = 1 /\ Got' = 0 /\ PacketSize' = PacketSize /\ (FourBytes' <=> FourBytes)
  BY Takes DEF MTypes, PacketSize, InPacket
<1>2. /\ resp' = IF resp + 1 = PacketSize THEN 0 ELSE resp + 1
      /\ UNCHANGED <<initstep, cmd, cmdFlag, type>>
  BY DEF InPacket, Counts
<1>3. MTypes'
  <2>1. both' \in BOOLEAN
    BY <1>1 DEF InPacket, MTypes
  <2> QED
    BY <1>1, <1>2, <2>1 DEF MTypes, Taken
<1>4. ASSUME ~spoilt', ~replaced' PROVE MFollow'
  <2>1. Moved /\ (type <=> FourBytes)
    BY <1>4, Takes DEF MFollow, Taken, Steps
  <2>2. CASE resp + 1 = PacketSize
    <3>1. out = <<>>
      <4>1. out = <<>> \/ Len(out) = 0
        BY <1>1, <2>1, <2>2 DEF Moved, Taken
      <4> QED
        BY <1>1, <4>1 DEF MTypes
    <3>2. Moved'
      BY <1>1, <1>2, <2>2, <3>1 DEF Moved, Taken
    <3> QED
      BY <1>1, <1>2, <2>1, <3>2 DEF MFollow, Steps
  <2>3. CASE resp + 1 # PacketSize
    <3>1. /\ Len(out) = PacketSize - resp - 1
          /\ \A i \in 1..Len(out) : out[i] = PacketBytes[resp + 1 + i]
      BY <1>1, <2>1, <2>3 DEF Moved, Taken
    <3>2. resp' = resp + 1 /\ resp' + Got' = resp + 1 /\ PacketSize' - resp' - Got' = PacketSize - resp - 1
      BY <1>1, <1>2, <2>3
    <3>3. Moved'
      BY <3>1, <3>2 DEF Moved, Taken
    <3> QED
      BY <1>1, <1>2, <2>1, <3>3 DEF MFollow, Steps
  <2> QED
    BY <2>2, <2>3
<1> QED
  BY <1>3, <1>4 DEF MInv

LEMMA ResetTaken ==
  ASSUME MInv, Taken, ~cmdFlag, initstep <= 2, InReset, UNCHANGED both
  PROVE  MInv'
<1>1. /\ MTypes /\ resp \in 0..3 /\ initstep \in 0..2
      /\ Got = 1 /\ Got' = 0 /\ (FourBytes' <=> FourBytes) /\ TypeCode' = TypeCode
  BY Takes DEF Steps
<1>2. \/ resp = 1 /\ byte # "FA" /\ resp' = 0 /\ initstep' = 0
      \/ ~(resp = 1 /\ byte # "FA") /\ resp = 3 /\ resp' = 0 /\ initstep' = initstep + 1
      \/ ~(resp = 1 /\ byte # "FA") /\ resp \in 0..2 /\ resp' = resp + 1 /\ initstep' = initstep
  BY <1>1 DEF InReset, Abandon, Complete, Counts
<1>3. UNCHANGED <<type, cmd>> /\ ~cmdFlag' /\ cmdFlag' \in BOOLEAN
  BY <1>1 DEF InReset, Abandon, Complete, Counts, MTypes
<1>4. MTypes'
  BY <1>1, <1>2, <1>3 DEF MTypes, Taken, Steps
<1>5. ASSUME ~spoilt', ~replaced' PROVE MFollow'
  <2>1. (initstep <= 1 => Resets) /\ (initstep = 2 => SetsUp)
    BY <1>1, <1>5, Takes DEF MFollow, Taken
  <2>2. \/ initstep <= 1 /\ Stray /\ (initstep = 1 => resp <= 1)
        \/ Awaits("FF") /\ ~on
        \/ Declined
    <3>1. Code # "F4" /\ Code = "FF"
      BY <1>1, Codes, CodeNow DEF Steps
    <3>2. CASE initstep <= 1
      BY <2>1, <3>2 DEF Resets, Sending, Taken
    <3>3. CASE initstep = 2
      <4>1. link = "got"
        BY DEF Taken
      <4>2. (Awaits(Code) /\ (on => Code = "F4")) \/ Declined
        BY <2>1, <3>3, <4>1 DEF SetsUp, Sending
      <4> QED
        BY <3>1, <4>2
    <3> QED
      BY <1>1, <3>2, <3>3
  <2>3. ASSUME out' = <<>> PROVE Stray'
    BY <2>3 DEF Stray, Taken
  <2>4. CASE initstep <= 1 /\ Stray /\ (initstep = 1 => resp <= 1)
    <3>1. Stray' /\ byte # "FA"
      BY <2>4 DEF Stray, Taken
    <3>2. initstep' <= 1 /\ (initstep' = 1 => resp' <= 1)
      BY <1>1, <1>2, <2>4, <3>1
    <3>3. initstep' \in 0..1
      BY <1>1, <1>2, <3>2
    <3> QED
      BY <1>3, <3>1, <3>2, <3>3 DEF MFollow, Resets, Steps
  <2>5. CASE Awaits("FF") /\ ~on
    <3>1. /\ Reply("FF", TypeCode) = ResetReply /\ Reply("FF", TypeCode') = ResetReply
          /\ Len(ResetReply) = 3
      BY Replies DEF Reply
    <3>2. PICK k \in 1..3 : k = resp
      BY <2>5, <3>1 DEF Awaits
    <3>3. Answered(ResetReply, k) /\ Answered(ResetReply, k)'
      <4>1. resp - 1 + Got = k
        BY <1>1, <3>2
      <4>2. Answered(ResetReply, k)
        BY <2>5, <3>1, <4>1 DEF Awaits
      <4> QED
        BY <4>2 DEF Answered, Taken
    <3>4. k = 1 => byte = "FA"
      BY <3>3, Replies DEF Answered, Taken
    <3>5. CASE k = 3
      <4>1. out' = <<>>
        BY <1>1, <3>1, <3>3, <3>5, LastOf
      <4>2. resp' = 0 /\ initstep' = initstep + 1 /\ ~on'
        BY <1>2, <2>5, <3>2, <3>5 DEF Taken
      <4>3. Resets' /\ SetsUp'
        BY <1>1, <2>3, <4>1, <4>2 DEF Resets, SetsUp, Taken
      <4> QED
        BY <1>1, <1>3, <4>2, <4>3 DEF MFollow, Steps
    <3>6. CASE k \in 1..2
      <4>1. resp' = k + 1 /\ initstep' = initstep /\ ~on'
        BY <1>2, <2>5, <3>2, <3>4, <3>6 DEF Taken
      <4>2. resp' - 1 + Got' = k /\ resp' \in 1..Len(Reply("FF", TypeCode'))
        BY <1>1, <3>1, <3>6, <4>1
      <4>3. Awaits("FF")'
        BY <3>1, <3>3, <4>2 DEF Awaits, Answering, Taken
      <4>4. Code' = "FF"
        BY <1>1, <4>1, Codes, CodeNow DEF Steps
      <4>5. Resets' /\ SetsUp'
        BY <4>1, <4>3, <4>4 DEF Resets, SetsUp
      <4> QED
        BY <1>1, <1>3, <4>1, <4>5 DEF MFollow, Steps
    <3> QED
      BY <3>2, <3>5, <3>6
  <2>6. CASE Declined
    <3>1. resp' = 0 /\ initstep' = 0 /\ out' = <<>>
      BY <1>2, <2>6, RefusedAll
    <3> QED
      BY <1>3, <2>3, <3>1 DEF MFollow, Resets, Steps
  <2> QED
    BY <2>2, <2>4, <2>5, <2>6
<1> QED
  BY <1>4, <1>5 DEF MInv

LEMMA TypeTaken ==
  ASSUME MInv, Taken, ~cmdFlag, initstep = 9, InGetType, UNCHANGED both
  PROVE  MInv'
<1>1. /\ MTypes /\ resp \in 0..3
      /\ Got = 1 /\ Got' = 0 /\ (FourBytes' <=> FourBytes) /\ TypeCode' = TypeCode
  BY Takes
<1>2. \/ resp = 1 /\ byte # "FA" /\ resp' = 0 /\ initstep' = 0 /\ type' = type
      \/ resp = 1 /\ byte = "FA" /\ resp' = 2 /\ initstep' = initstep /\ type' = type
      \/ resp # 1 /\ resp' = 0 /\ initstep' = 10 /\ type' = (byte # "00")
  BY DEF InGetType, Abandon, Complete, Counts
<1>3. UNCHANGED cmd /\ ~cmdFlag' /\ cmdFlag' \in BOOLEAN /\ type' \in BOOLEAN
  BY <1>1, <1>2 DEF InGetType, Abandon, Complete, Counts, MTypes
<1>4. MTypes'
  BY <1>1, <1>2, <1>3 DEF MTypes, Taken, Steps
<1>5. ASSUME ~spoilt', ~replaced' PROVE MFollow'
  <2>1. Code = "F2"
    BY Codes, CodeNow DEF Steps
  <2>2. (Awaits("F2") /\ ~on) \/ Declined
    <3>1. SetsUp
      BY <1>5, Takes DEF MFollow, Taken
    <3> QED
      BY <2>1, <3>1 DEF SetsUp, Sending, Taken
  <2>3. CASE Awaits("F2") /\ ~on
    <3>1. /\ Reply("F2", TypeCode) = TypeReply(TypeCode)
          /\ Reply("F2", TypeCode') = TypeReply(TypeCode)
          /\ Len(TypeReply(TypeCode)) = 2
      BY <1>1, Replies DEF Reply
    <3>2. PICK k \in 1..2 : k = resp
      BY <2>3, <3>1 DEF Awaits
    <3>0. PICK t : t = TypeCode
      OBVIOUS
    <3>3. Answered(TypeReply(t), k) /\ Answered(TypeReply(t), k)'
      <4>1. resp - 1 + Got = k
        BY <1>1, <3>2
      <4>2. Answered(TypeReply(t), k)
        BY <2>3, <3>1, <3>0, <4>1 DEF Awaits
      <4> QED
        BY <4>2 DEF Answered, Taken
    <3>4. byte = TypeReply(t)[k]
      BY <3>3 DEF Answered, Taken
    <3>5. CASE k = 2
      <4>1. byte = TypeCode
        BY <3>0, <3>4, <3>5, Replies
      <4>2. initstep' = 10 /\ resp' = 0 /\ type' = (byte # "00")
        BY <1>2, <3>2, <3>5
      <4>3. byte # "00" <=> FourBytes
        BY <4>1 DEF TypeCode
      <4>4. type' <=> FourBytes'
        BY <1>1, <4>2, <4>3
      <4>5. out' = <<>>
        BY <1>1, <3>3, <3>5, LastOf, Replies
      <4>6. SetsUp'
        BY <2>3, <4>2, <4>5 DEF SetsUp, Taken
      <4> QED
        BY <1>3, <4>2, <4>4, <4>6 DEF MFollow, Steps
    <3>6. CASE k = 1
      <4>1. byte = "FA"
        BY <3>4, <3>6, Replies
      <4>2. resp' = 2 /\ initstep' = 9 /\ type' = type
        BY <1>2, <3>2, <3>6, <4>1
      <4>3. resp' - 1 + Got' = k /\ resp' \in 1..Len(Reply("F2", TypeCode'))
        BY <1>1, <3>1, <3>6, <4>2
      <4>4. Reply("F2", TypeCode') = TypeReply(t)
        BY <3>1, <3>0
      <4>5. Awaits("F2")' /\ ~on'
        BY <2>3, <3>3, <4>3, <4>4 DEF Awaits, Answering, Taken
      <4>6. Code' = "F2"
        BY <4>2, Codes, CodeNow DEF Steps
      <4>7. SetsUp'
        BY <4>5, <4>6 DEF SetsUp
      <4> QED
        BY <1>3, <4>2, <4>7 DEF MFollow, Steps
    <3> QED
      BY <3>5, <3>6
  <2>4. CASE Declined
    <3>1. resp' = 0 /\ initstep' = 0 /\ out' = <<>>
      BY <1>2, <2>4, RefusedAll
    <3>2. Stray'
      BY <3>1 DEF Stray, Taken
    <3> QED
      BY <1>3, <3>1, <3>2 DEF MFollow, Resets, Steps
  <2> QED
    BY <2>2, <2>3, <2>4
<1> QED
  BY <1>4, <1>5 DEF MInv

LEMMA ResolutionTaken ==
  ASSUME MInv, Taken, cmdFlag, cmd = "E8", InSetResolution, UNCHANGED both
  PROVE  MInv'
<1>1. MTypes /\ resp \in 0..3 /\ Got = 1 /\ Got' = 0 /\ (FourBytes' <=> FourBytes)
  BY Takes
<1>2. \/ byte # "FA" /\ resp' = 0 /\ ~cmdFlag' /\ cmd' = "none"
      \/ byte = "FA" /\ resp = 3 /\ resp' = 0 /\ ~cmdFlag' /\ cmd' = "F4"
      \/ byte = "FA" /\ resp \in 0..2 /\ resp' = resp + 1 /\ cmdFlag' /\ cmd' = cmd
  <2>1. CASE byte # "FA"
    BY <2>1 DEF InSetResolution, Abandon
  <2>2. CASE byte = "FA" /\ resp >= 3
    BY <1>1, <2>2 DEF InSetResolution, Complete
  <2>3. CASE byte = "FA" /\ ~(resp >= 3)
    BY <1>1, <2>3 DEF InSetResolution, Counts
  <2> QED
    BY <2>1, <2>2, <2>3
<1>3. /\ UNCHANGED <<type, initstep>> /\ PacketSize' = PacketSize /\ PacketSize \in 3..4
      /\ cmdFlag' \in BOOLEAN
  <2>1. type' = type
    BY DEF InSetResolution
  <2>2. initstep' = initstep
    BY DEF InSetResolution, Abandon, Complete, Counts
  <2>3. cmdFlag' \in BOOLEAN
    BY <1>1 DEF InSetResolution, Abandon, Complete, Counts, MTypes
  <2> QED
    BY <2>1, <2>2, <2>3 DEF PacketSize
<1>4. MTypes'
  BY <1>1, <1>2, <1>3 DEF MTypes, Taken
<1>5. ASSUME ~spoilt', ~replaced' PROVE MFollow'
  <2>1. MFollow
    BY <1>5, Takes DEF Taken
  <2>2. initstep = Steps /\ Exchange
    BY <2>1 DEF MFollow
  <2>3. /\ resp \in {1, 3} /\ out' = <<>> /\ byte \in {"FA", "FE"}
        /\ byte = "FA" /\ resp = 1 => arg = "E8"
    BY <2>2, RefusedAll DEF Exchange, Taken
  <2>4. resp' = 0 => Moved'
    BY <1>1, <2>3 DEF Moved, Taken
  <2>5. resp' = 2 /\ cmd' = cmd /\ byte = "FA" /\ resp = 1 => Exchange'
    BY <2>3 DEF Exchange, Taken
  <2> QED
    BY <1>1, <1>2, <1>3, <2>1, <2>2, <2>3, <2>4, <2>5 DEF MFollow, Steps
<1> QED
  BY <1>4, <1>5 DEF MInv

LEMMA OtherTaken ==
  ASSUME MInv, Taken, InOther, UNCHANGED both,
         cmdFlag => cmd = "F4", ~cmdFlag => initstep \in 3..13 /\ initstep # 9
  PROVE  MInv'
<1>1. MTypes /\ resp \in 0..3 /\ initstep \in 0..Steps /\ Got = 1 /\ Got' = 0 /\ (FourBytes' <=> FourBytes)
  BY Takes
<1>2. resp' = 0 /\ ~cmdFlag' /\ cmdFlag' \in BOOLEAN /\ type' = type /\ cmd' \in {cmd, "none"}
  BY DEF InOther, Abandon, Complete
<1>3. IF cmdFlag
      THEN initstep' = initstep
      ELSE initstep' = (IF resp = 1 /\ byte # "FA" THEN 0 ELSE initstep + 1)
  BY DEF InOther, Abandon, Complete
<1>4. MTypes'
  <2>1. initstep' \in 0..Steps
    BY <1>1, <1>3 DEF Steps
  <2>2. PacketSize' \in 3..4
    BY DEF PacketSize
  <2> QED
    BY <1>1, <1>2, <2>1, <2>2 DEF MTypes, Taken
<1>5. ASSUME ~spoilt', ~replaced' PROVE MFollow'
  <2>1. MFollow
    BY <1>5, Takes DEF Taken
  <2>2. CASE cmdFlag
    <3>1. initstep = Steps /\ Exchange
      BY <2>1, <2>2 DEF MFollow
    <3>2. out' = <<>>
      BY <2>2, <3>1, RefusedAll DEF Exchange, Taken
    <3>3. Moved'
      BY <1>1, <1>2, <3>2 DEF Moved, Taken
    <3> QED
      BY <1>1, <1>2, <1>3, <2>1, <2>2, <3>1, <3>3 DEF MFollow, Steps
  <2>3. CASE ~cmdFlag
    <3>1. /\ initstep \in 3..13 /\ initstep # 9 /\ Code \notin {"FF", "F2"}
          /\ Code = "F4" <=> initstep = 13
      BY <2>3, Codes, CodeNow DEF Steps
    <3>2. (Awaits(Code) /\ (on => Code = "F4")) \/ Declined
      BY <2>1, <3>1 DEF MFollow, SetsUp, Sending, Taken
    <3>3. CASE Awaits(Code) /\ (on => Code = "F4")
      <4>1. Reply(Code, TypeCode) = Ack
        BY <3>1 DEF Reply
      <4>2. resp = 1 /\ Answered(Ack, Got)
        <5>1. resp = 1
          BY <3>3, <4>1, Replies DEF Awaits
        <5>2. resp - 1 + Got = Got
          BY <1>1, <5>1
        <5> QED
          BY <3>3, <4>1, <5>1, <5>2 DEF Awaits
      <4>3. out' = <<>> /\ byte = "FA"
        BY <4>2, RefusedAll
      <4>4. initstep' = initstep + 1
        BY <1>3, <2>3, <4>3
      <4>5. initstep # 13 => SetsUp'
        BY <1>2, <3>1, <3>3, <4>3 DEF SetsUp, Taken
      <4>6. Moved'
        BY <1>1, <1>2, <4>3 DEF Moved, Taken
      <4> QED
        BY <1>1, <1>2, <2>1, <3>1, <4>4, <4>5, <4>6 DEF MFollow, Steps
    <3>4. CASE Declined
      <4>1. out' = <<>> /\ initstep' = 0
        BY <1>3, <2>3, <3>4, RefusedAll
      <4>2. Stray'
        BY <4>1 DEF Stray, Taken
      <4> QED
        BY <1>2, <4>1, <4>2 DEF MFollow, Resets, Steps
    <3> QED
      BY <3>2, <3>3, <3>4
  <2> QED
    BY <2>2, <2>3
<1> QED
  BY <1>4, <1>5 DEF MInv

LEMMA ReceiveStep == ASSUME MInv, TaskReceive PROVE MInv'
<1>1. Taken /\ MTypes /\ initstep \in 0..Steps
  BY DEF TaskReceive, Taken, mouse, MInv, MTypes
<1> DEFINE current == IF cmdFlag THEN cmd ELSE Code
<1>2. /\ current = "end" => InPacket
      /\ current = "FF" => InReset /\ UNCHANGED both
      /\ current = "F2" => InGetType /\ UNCHANGED both
      /\ current = "E8" => InSetResolution /\ UNCHANGED both
      /\ current \notin {"end", "FF", "F2", "E8"} => InOther /\ UNCHANGED both
  BY DEF TaskReceive
<1>3. cmdFlag => cmd \in {"E8", "F4"}
  BY <1>1 DEF MTypes
<1>4. ~cmdFlag => /\ current = "end" <=> initstep = Steps
                  /\ current = "FF" <=> initstep <= 2
                  /\ current = "F2" <=> initstep = 9
                  /\ current # "E8"
  BY <1>1, Codes, CodeNow
<1>5. CASE current = "end"
  <2>1. ~cmdFlag /\ initstep = Steps /\ InPacket
    BY <1>2, <1>3, <1>4, <1>5
  <2> QED
    BY <1>1, <2>1, PacketTaken
<1>6. CASE current = "FF"
  <2>1. ~cmdFlag /\ initstep <= 2 /\ InReset /\ UNCHANGED both
    BY <1>2, <1>3, <1>4, <1>6
  <2> QED
    BY <1>1, <2>1, ResetTaken
<1>7. CASE current = "F2"
  <2>1. ~cmdFlag /\ initstep = 9 /\ InGetType /\ UNCHANGED both
    BY <1>2, <1>3, <1>4, <1>7
  <2> QED
    BY <1>1, <2>1, TypeTaken
<1>8. CASE current = "E8"
  <2>1. cmdFlag /\ cmd = "E8" /\ InSetResolution /\ UNCHANGED both
    BY <1>2, <1>4, <1>8
  <2> QED
    BY <1>1, <2>1, ResolutionTaken
<1>9. CASE current \notin {"end", "FF", "F2", "E8"}
  <2>1. InOther /\ UNCHANGED both
    BY <1>2, <1>9
  <2>2. cmdFlag => cmd = "F4"
    BY <1>3, <1>9
  <2>3. ~cmdFlag => initstep \in 3..13 /\ initstep # 9
    BY <1>1, <1>4, <1>9 DEF Steps
  <2> QED
    BY <1>1, <2>1, <2>2, <2>3, OtherTaken
<1> QED
  BY <1>5, <1>6, <1>7, <1>8, <1>9

-----------------------------------------------------------------------------
(* The invariant and what follows from it *)

\* What the mouse has still to send is always the rest of what the task counts,
\* as long as no command and no answer has been damaged and no key has replaced the
\* ENABLE in hand.
THEOREM MouseInvariant == Spec => []MInv
<1>1. Init => MInv
  <2> SUFFICES ASSUME Init PROVE MInv
    OBVIOUS
  <2>1. /\ initstep = 0 /\ resp = 0 /\ cmd = "E8" /\ link = "idle" /\ knock = 0
        /\ arg = "none" /\ out = <<>> /\ faults = 0 /\ ~cmdFlag /\ ~on
    BY DEF Init
  <2>a. /\ cmdFlag \in BOOLEAN /\ type \in BOOLEAN /\ both \in BOOLEAN /\ wheel \in BOOLEAN
        /\ on \in BOOLEAN /\ spoilt \in BOOLEAN /\ replaced \in BOOLEAN
    BY DEF Init
  <2>2. <<>> \in Seq(Answers) /\ Len(<<>>) = 0
    OBVIOUS
  <2>3. MTypes
    BY <2>1, <2>a, <2>2, MouseAssumption DEF MTypes, Steps, PacketSize
  <2>4. Stray
    BY <2>1 DEF Stray
  <2> QED
    BY <2>1, <2>3, <2>4 DEF MInv, MFollow, Resets, Steps
<1>2. MInv /\ [Next]_vars => MInv'
  <2> SUFFICES ASSUME MInv, [Next]_vars PROVE MInv'
    OBVIOUS
  <2>1. CASE Task
    BY <2>1, SendStep, TimeoutStep, ReceiveStep, SentStep DEF Task
  <2>2. CASE SetResolution
    BY <2>2, ResolutionStep
  <2>3. CASE Hears \/ Sends \/ Moves
    BY <2>3, HearStep, SendsStep, MovesStep
  <2>4. CASE Fault
    BY <2>4, AskStep, EdgeStep, StallStep DEF Fault
  <2>5. CASE UNCHANGED vars
    <3>1. /\ UNCHANGED <<initstep, resp, cmd, cmdFlag, type, both, link, byte>>
          /\ UNCHANGED <<wheel, knock, on, arg, out, faults, spoilt, replaced>>
      BY <2>5 DEF vars, avr, mouse
    <3> QED
      BY <3>1 DEF MInv, MTypes, MFollow, Resets, SetsUp, Moved, Exchange, Stray, Sending, Awaits,
                  Declined, Answered, Answering, Got, PacketSize, FourBytes, TypeCode, Code
  <2> QED
    BY <2>1, <2>2, <2>3, <2>4, <2>5 DEF Next
<1> QED
  BY <1>1, <1>2, PTL DEF Spec

\* Every variable keeps its range: no answer and no stray byte drives
\* ps2mouse_initstep or ps2mouse_resp_count out of the tables of ps2mouse_task.
THEOREM MouseTypes == Spec => []TypeOK
<1>1. MInv => TypeOK
  <2> SUFFICES ASSUME MTypes PROVE TypeOK
    BY DEF MInv
  <2>1. Len(InitSequence) = Steps
    BY DEF InitSequence, Steps
  <2>2. {cmdFlag, type, both, wheel, on, spoilt, replaced} \subseteq BOOLEAN
    BY DEF MTypes
  <2> QED
    BY <2>1, <2>2 DEF MTypes, TypeOK
<1> QED
  BY <1>1, MouseInvariant, PTL

\* A byte of a packet is taken for what it is, and the packets have the size the
\* mouse sends, whatever has been lost of packets before, as long as the same holds.
THEOREM PacketsTaken == Spec => []PacketsInStep
<1>1. MInv => PacketsInStep
  <2> SUFFICES ASSUME MInv, ~spoilt, ~replaced, link = "got", Code = "end", ~cmdFlag
               PROVE  /\ IsPacket(byte) => byte = <<"p1", "p2", "p3", "p4">>[resp + 1]
                      /\ type = FourBytes
    BY DEF PacketsInStep
  <2>1. initstep = Steps
    BY Codes, CodeNow DEF MInv, MTypes
  <2>2. Moved /\ (type <=> FourBytes)
    BY <2>1 DEF MInv, MFollow, Steps
  <2>3. type \in BOOLEAN /\ FourBytes \in BOOLEAN
    BY DEF MInv, MTypes, FourBytes
  <2>4. type = FourBytes
    BY <2>2, <2>3
  <2> QED
    BY <2>2, <2>4 DEF Moved, PacketBytes
<1> QED
  BY <1>1, MouseInvariant, PTL
=============================================================================
