---------------------------- MODULE GatewayProofs ----------------------------
(***************************************************************************)
(* What TLAPS proves of the bridge, for any frames, on a line of any       *)
(* length: its parser keeps up (Spec), it broadcasts every frame that no   *)
(* fault touches, and nothing out of order, twice or that nobody sent, if  *)
(* no frame can be pieced together from others (HistorySpec).              *)
(***************************************************************************)
EXTENDS GatewayHistory, SequenceTheorems, TLAPS

IInv == TypeOK /\ OneLookIsEnough

-----------------------------------------------------------------------------
(* The parser                                                              *)

LEMMA UnpackType ==
  ASSUME NEW body PROVE Unpack(body) \in Frame \cup {NoFrame}
BY DEF Unpack

LEMMA Singleton ==
  ASSUME NEW S, NEW x \in S PROVE <<x>> \in Seq(S)
OBVIOUS

LEMMA BroadcastsType ==
  ASSUME NEW f \in Frame \cup {NoFrame}
  PROVE  Broadcasts(f) \in Seq([op : KnownOp, rest : Seq(Byte)])
<1>1. CASE f = NoFrame \/ f.payload = <<>>
  BY <1>1 DEF Broadcasts
<1>2. CASE f # NoFrame /\ f.payload # <<>>
  <2>1. f.payload \in Seq(Byte)
    BY <1>2, FrameAssumption
  <2>2. Tail(f.payload) \in Seq(Byte)
    BY <1>2, <2>1
  <2>3. OpCode(Head(f.payload)) \in KnownOp
    BY OpAssumption DEF OpCode
  <2>4. [op |-> OpCode(Head(f.payload)), rest |-> Tail(f.payload)]
          \in [op : KnownOp, rest : Seq(Byte)]
    BY <2>2, <2>3
  <2> QED
    BY <1>2, <2>4, Singleton DEF Broadcasts
<1> QED
  BY <1>1, <1>2

LEMMA HeaderType ==
  ASSUME NEW len \in Nat, len < 256 * 256
  PROVE  Header(len) \in Seq(Byte)
<1>1. len \div 256 \in Byte /\ len % 256 \in Byte
  BY DEF Byte
<1>2. Magic \in Seq(Byte)
  BY DEF Magic, Byte
<1> QED
  BY <1>1, <1>2 DEF Header

LEMMA PacketType ==
  ASSUME NEW f \in Frame
  PROVE  /\ Archive[f] \in Seq(Byte)
         /\ Header(Len(Archive[f])) \in Seq(Byte)
         /\ Packet(f) \in Seq(Byte)
<1>1. Archive[f] \in Seq(Byte) /\ Len(Archive[f]) \in Nat
  BY FrameAssumption
<1>2. Header(Len(Archive[f])) \in Seq(Byte)
  BY <1>1, HeaderType, LineAssumption
<1> QED
  BY <1>1, <1>2 DEF Packet

(* A byte more does not change what the first four bytes are.              *)
LEMMA SameBeginning ==
  ASSUME NEW buf \in Seq(Byte), NEW b \in Byte, Len(buf) >= 4
  PROVE  /\ IsPacket(Append(buf, b)) <=> IsPacket(buf)
         /\ LenOf(Append(buf, b)) = LenOf(buf)
BY DEF IsPacket, LenOf

LEMMA LengthType ==
  ASSUME NEW buf \in Seq(Byte), Len(buf) >= 4 PROVE LenOf(buf) \in Nat
<1>1. buf[3] \in Byte /\ buf[4] \in Byte
  OBVIOUS
<1>2. \A b \in Byte : b \in Nat
  BY DEF Byte
<1>3. buf[3] \in Nat /\ buf[4] \in Nat
  BY <1>1, <1>2
<1> QED
  BY <1>3 DEF LenOf

(* A byte completes a packet or it does not: nothing is left over.         *)
LEMMA ForwardLeavesNothing ==
  ASSUME NEW buf \in Seq(Byte), NEW b \in Byte, ~Complete(buf), ~Noise(buf),
         Complete(Append(buf, b))
  PROVE  Without(Append(buf, b)) = <<>>
<1> DEFINE got == Append(buf, b)
<1>1. got \in Seq(Byte) /\ Len(got) = Len(buf) + 1 /\ Len(buf) \in Nat
  OBVIOUS
<1>2. Len(got) >= 4 /\ LenOf(got) \in Nat /\ Len(got) >= 4 + LenOf(got)
  BY <1>1, LengthType DEF Complete, IsPacket
<1>3. Len(got) = 4 + LenOf(got)
  <2>1. CASE Len(buf) >= 4
    BY <1>1, <1>2, <2>1, SameBeginning DEF Complete, Noise
  <2>2. CASE Len(buf) < 4
    BY <1>1, <1>2, <2>2
  <2> QED
    BY <1>1, <2>1, <2>2
<1> HIDE DEF got
<1>4. SubSeq(got, 5 + LenOf(got), Len(got)) = <<>>
  BY <1>1, <1>2, <1>3
<1> QED
  BY <1>4 DEF Without, got

(* Only the fourth byte shows that a buffer begins no packet.              *)
LEMMA SkipLeavesThree ==
  ASSUME NEW buf \in Seq(Byte), NEW b \in Byte, ~Complete(buf), ~Noise(buf),
         Noise(Append(buf, b))
  PROVE  Realigned(Append(buf, b)) \in Seq(Byte) /\ Len(Realigned(Append(buf, b))) = 3
<1> DEFINE got == Append(buf, b)
<1>1. Len(got) = Len(buf) + 1 /\ Len(got) >= 4 /\ Len(buf) \in Nat
  BY DEF Noise
<1>2. Len(buf) < 4
  BY <1>1, SameBeginning DEF Noise
<1>3. got \in Seq(Byte) /\ got # <<>> /\ Len(got) = 4
  BY <1>1, <1>2
<1> HIDE DEF got
<1>4. Tail(got) \in Seq(Byte) /\ Len(Tail(got)) = Len(got) - 1
  BY <1>3, HeadTailProperties
<1> QED
  BY <1>3, <1>4 DEF Realigned, got

-----------------------------------------------------------------------------
(* The invariant                                                           *)

LEMMA InitInv == Init => IInv
BY DEF Init, IInv, TypeOK, OneLookIsEnough, Complete, IsPacket, Noise

LEMMA ReadInv ==
  ASSUME IInv, Read
  PROVE  IInv'
<1> USE DEF IInv, TypeOK
<1>1. line # <<>> /\ line' = Tail(line) /\ up' = <<>>
  BY DEF Read, Collect, Skip, Forward, Takes
<1>2. Head(line) \in Byte /\ line' \in Seq(Byte) /\ up' \in Seq(Byte)
  BY <1>1
<1>3. Got \in Seq(Byte)
  BY <1>2 DEF Got
<1>4. CASE Collect
  <2>1. rx_buf' = Got /\ tx' = <<>> /\ ~Complete(Got) /\ ~Noise(Got)
    BY <1>4 DEF Collect
  <2> QED
    BY <1>2, <1>3, <2>1 DEF OneLookIsEnough
<1>5. CASE Skip
  <2>1. rx_buf' = Realigned(Got) /\ tx' = <<>> /\ Noise(Got)
    BY <1>5 DEF Skip
  <2>2. rx_buf' \in Seq(Byte) /\ Len(rx_buf') = 3
    BY <1>3, <2>1, SkipLeavesThree DEF OneLookIsEnough, Got
  <2>3. ~Complete(rx_buf') /\ ~Noise(rx_buf')
    BY <2>2 DEF Complete, IsPacket, Noise
  <2> QED
    BY <1>2, <2>1, <2>2, <2>3 DEF OneLookIsEnough
<1>6. CASE Forward
  <2>1. /\ rx_buf' = Without(Got) /\ tx' = Broadcasts(Unpack(Body(Got)))
        /\ Complete(Got)
    BY <1>6 DEF Forward
  <2>2. rx_buf' = <<>>
    BY <1>3, <2>1, ForwardLeavesNothing DEF OneLookIsEnough, Got
  <2>3. ~Complete(rx_buf') /\ ~Noise(rx_buf')
    BY <2>2 DEF Complete, IsPacket, Noise
  <2>4. tx' \in Seq([op : KnownOp, rest : Seq(Byte)])
    BY <2>1, UnpackType, BroadcastsType
  <2> QED
    BY <1>2, <2>2, <2>3, <2>4 DEF OneLookIsEnough
<1> QED
  BY <1>4, <1>5, <1>6 DEF Read

LEMMA SendsInv ==
  ASSUME IInv, NEW bytes \in Seq(Byte), Sends(bytes)
  PROVE  IInv'
BY DEF IInv, TypeOK, OneLookIsEnough, Sends

LEMMA NextInv == IInv /\ [Next]_vars => IInv'
<1> SUFFICES ASSUME IInv, [Next]_vars PROVE IInv'
  OBVIOUS
<1>1. CASE Read
  BY <1>1, ReadInv
<1>2. ASSUME NEW f \in Frame, Receive(f) PROVE IInv'
  <2>1. <<>> \in Seq(Byte)
    OBVIOUS
  <2>2. up' \in Seq(Byte)
    BY <1>2, <2>1, PacketType DEF Receive
  <2> QED
    BY <1>2, <2>2 DEF Receive, IInv, TypeOK, OneLookIsEnough
<1>3. ASSUME NEW f \in Frame, HostWrites(f) PROVE IInv'
  BY <1>3, PacketType, SendsInv DEF HostWrites
<1>4. ASSUME NEW f \in Frame, NEW k \in 1..(Len(Packet(f)) - 1), HostStops(f, k)
      PROVE  IInv'
  <2>1. SubSeq(Packet(f), 1, k) \in Seq(Byte)
    <3>1. Packet(f) \in Seq(Byte)
      BY PacketType
    <3> QED
      BY <3>1
  <2> QED
    BY <1>4, <2>1, SendsInv DEF HostStops
<1>5. ASSUME NEW k \in 0..Len(line), Restart(k) PROVE IInv'
  <2>1. line \in Seq(Byte)
    BY DEF IInv, TypeOK
  <2>2. line' \in Seq(Byte)
    BY <1>5, <2>1 DEF Restart
  <2> QED
    BY <1>5, <2>2
    DEF Restart, IInv, TypeOK, OneLookIsEnough, Complete, IsPacket, Noise
<1>6. CASE UNCHANGED vars
  BY <1>6 DEF vars, IInv, TypeOK, OneLookIsEnough
<1> QED
  BY <1>1, <1>2, <1>3, <1>4, <1>5, <1>6 DEF Next

LEMMA Invariance == Spec => []IInv
BY InitInv, NextInv, PTL DEF Spec

(* Only opcodes of the protocol are broadcast, and what is on the lines    *)
(* and in the buffer are bytes.                                            *)
THEOREM TypeCorrect == Spec => []TypeOK
<1>1. IInv => TypeOK
  BY DEF IInv
<1> QED
  BY <1>1, Invariance, PTL

(* No packet waits, complete, for the bytes of the next one, and no noise  *)
(* piles up: whatever the host sends, whenever it or the bridge stops.     *)
THEOREM NoPacketWaits == Spec => []OneLookIsEnough
<1>1. IInv => OneLookIsEnough
  BY DEF IInv
<1> QED
  BY <1>1, Invariance, PTL
-----------------------------------------------------------------------------
(* What is owed                                                            *)

(* A line l whose bytes are due as o says, and the buffer b before it.     *)
(* The buffer holds nothing that a packet could begin with, or, behind     *)
(* that, the first m bytes of the packet of f.                             *)
Size(f) == Len(Packet(f))
Junk(b) == Len(b) <= 3 /\ NoMagic(b)
Holds(b, f, m) ==
  /\ Len(b) >= m
  /\ \A j \in 1..m : b[Len(b) - m + j] = Packet(f)[j]
  /\ \A j \in 1..(Len(b) - m) : b[j] # Magic[1]
  /\ Len(b) > m => Len(b) <= 3

(* The packet that ends with byte i is on the line from byte s on, behind  *)
(* another one that is due, or where the parser finds its beginning.       *)
StartsAt(l, o, b, i, s) ==
  /\ s \in 1..i
  /\ i = s + Size(o[i]) - 1
  /\ \A j \in s..i : l[j] = Packet(o[i])[j - s + 1]
  /\ \A j \in s..(i - 1) : o[j] = NoFrame
  /\ \/ s > 1 /\ o[s - 1] # NoFrame
     \/ Junk(b) /\ \A j \in 1..(s - 1) : o[j] = NoFrame /\ l[j] # Magic[1]

(* The buffer holds the first m bytes of it.                               *)
Continues(l, o, b, i, m) ==
  /\ m >= 1
  /\ Size(o[i]) = m + i
  /\ \A j \in 1..i : l[j] = Packet(o[i])[j + m]
  /\ \A j \in 1..(i - 1) : o[j] = NoFrame
  /\ Holds(b, o[i], m)

Owes(l, o, b) ==
  \A i \in 1..Len(l) : o[i] # NoFrame =>
    \/ \E s \in 1..i : StartsAt(l, o, b, i, s)
    \/ \E m \in 1..Size(o[i]) : Continues(l, o, b, i, m)

(* The next packet to be written begins where the parser finds it.         *)
Aligned(l, o, b) ==
  \/ l # <<>> /\ o[Len(l)] # NoFrame
  \/ Junk(b) /\ \A j \in 1..Len(l) : o[j] = NoFrame /\ l[j] # Magic[1]

(* Every frame that is due has its bytes where the parser will find them,  *)
(* and as long as no fault has misled it, so will the next one.            *)
OwedInv == /\ owed \in Seq(Frame \cup {NoFrame})
           /\ Len(owed) = Len(line)
           /\ Owes(line, owed, rx_buf)
           /\ sound => Aligned(line, owed, rx_buf)

Due == Frame \cup {NoFrame}

(* What Read makes of a buffer b and a byte c.                             *)
After(b, c) == LET got == Append(b, c)
               IN IF Complete(got) THEN Without(got)
                  ELSE IF Noise(got) THEN Realigned(got)
                  ELSE got

-----------------------------------------------------------------------------
(* The parser, a byte at a time                                            *)

LEMMA FourAndMore ==
  ASSUME NEW h \in Seq(Byte), NEW a \in Seq(Byte), Len(h) = 4
  PROVE  /\ h \o a \in Seq(Byte) /\ Len(h \o a) = 4 + Len(a)
         /\ \A i \in 1..(4 + Len(a)) : (h \o a)[i] = IF i <= 4 THEN h[i] ELSE a[i - 4]
<1>1. /\ h \o a \in Seq(Byte) /\ Len(h \o a) = Len(h) + Len(a)
      /\ \A i \in 1..(Len(h) + Len(a)) :
           (h \o a)[i] = IF i <= Len(h) THEN h[i] ELSE a[i - Len(h)]
  BY ConcatProperties
<1> QED
  BY <1>1

LEMMA PacketFacts ==
  ASSUME NEW f \in Frame
  PROVE  /\ Packet(f) \in Seq(Byte)
         /\ Size(f) \in Nat /\ Size(f) = 4 + Len(Archive[f])
         /\ Packet(f)[1] = Magic[1] /\ Packet(f)[2] = Magic[2]
         /\ Packet(f)[3] * 256 + Packet(f)[4] = Len(Archive[f])
         /\ SubSeq(Packet(f), 5, Size(f)) = Archive[f]
<1> DEFINE n == Len(Archive[f])
           len == <<n \div 256, n % 256>>
<1>1. Archive[f] \in Seq(Byte) /\ n \in Nat /\ n < 256 * 256
  BY FrameAssumption, LineAssumption
<1> HIDE DEF n
<1>2. n \div 256 \in Byte /\ n % 256 \in Byte
  BY <1>1 DEF Byte
<1>3. (n \div 256) * 256 + (n % 256) = n
  BY <1>1
<1>4. /\ Header(n) \in Seq(Byte) /\ Len(Header(n)) = 4
      /\ Header(n)[1] = Magic[1] /\ Header(n)[2] = Magic[2]
      /\ Header(n)[3] = n \div 256 /\ Header(n)[4] = n % 256
  <2>1. len \in Seq(Byte) /\ Len(len) = 2 /\ len[1] = n \div 256 /\ len[2] = n % 256
    BY <1>2
  <2>2. Magic \in Seq(Byte) /\ Len(Magic) = 2
    BY DEF Magic, Byte
  <2> HIDE DEF len
  <2>3. /\ Magic \o len \in Seq(Byte)
        /\ Len(Magic \o len) = Len(Magic) + Len(len)
        /\ \A i \in 1..(Len(Magic) + Len(len)) :
             (Magic \o len)[i] = IF i <= Len(Magic) THEN Magic[i] ELSE len[i - Len(Magic)]
    BY <2>1, <2>2, ConcatProperties
  <2>4. Header(n) = Magic \o len
    BY DEF Header, len
  <2> QED
    BY <2>1, <2>2, <2>3, <2>4
<1>5. /\ Packet(f) \in Seq(Byte)
      /\ Size(f) = 4 + n
      /\ \A i \in 1..(4 + n) :
           Packet(f)[i] = IF i <= 4 THEN Header(n)[i] ELSE Archive[f][i - 4]
  <2>1. Packet(f) = Header(n) \o Archive[f] /\ Len(Archive[f]) = n
    BY DEF Packet, n
  <2>2. /\ Header(n) \o Archive[f] \in Seq(Byte)
        /\ Len(Header(n) \o Archive[f]) = 4 + n
        /\ \A i \in 1..(4 + n) : (Header(n) \o Archive[f])[i]
             = IF i <= 4 THEN Header(n)[i] ELSE Archive[f][i - 4]
    <3> DEFINE a == Archive[f]
               h == Header(n)
    <3>1. a \in Seq(Byte) /\ Len(a) = n
      BY <1>1, <2>1
    <3>2. h \in Seq(Byte) /\ Len(h) = 4
      BY <1>4
    <3> HIDE DEF a, h
    <3>3. /\ h \o a \in Seq(Byte) /\ Len(h \o a) = 4 + Len(a)
          /\ \A i \in 1..(4 + Len(a)) : (h \o a)[i] = IF i <= 4 THEN h[i] ELSE a[i - 4]
      BY <3>1, <3>2, FourAndMore
    <3> QED
      BY <3>1, <3>3 DEF a, h
  <2> QED
    BY <2>1, <2>2 DEF Size
<1>6. /\ Packet(f)[1] = Magic[1] /\ Packet(f)[2] = Magic[2]
      /\ Packet(f)[3] = n \div 256 /\ Packet(f)[4] = n % 256
  <2>1. \A i \in 1..4 : Packet(f)[i] = Header(n)[i]
    BY <1>1, <1>5
  <2> QED
    BY <1>4, <2>1
<1>7. \A j \in 1..n : Packet(f)[4 + j] = Archive[f][j]
  <2> SUFFICES ASSUME NEW j \in 1..n PROVE Packet(f)[4 + j] = Archive[f][j]
    OBVIOUS
  <2>1. 4 + j \in 1..(4 + n) /\ ~(4 + j <= 4) /\ (4 + j) - 4 = j
    BY <1>1
  <2> QED
    BY <1>5, <2>1
<1>8. SubSeq(Packet(f), 5, Size(f)) = Archive[f]
  <2> DEFINE body == SubSeq(Packet(f), 5, Size(f))
  <2>1. /\ body \in Seq(Byte) /\ Len(body) = n
        /\ \A j \in 1..n : body[j] = Packet(f)[4 + j]
    BY <1>1, <1>5 DEF Size
  <2> HIDE DEF body
  <2>2. body = Archive[f]
    BY <1>1, <1>7, <2>1, SeqEqual DEF n
  <2> QED
    BY <2>2 DEF body
<1>9. Packet(f)[3] * 256 + Packet(f)[4] = n
  BY <1>3, <1>6
<1>10. Size(f) \in Nat
  BY <1>1, <1>5
<1>11. n = Len(Archive[f])
  BY DEF n
<1> QED
  BY <1>5, <1>6, <1>8, <1>9, <1>10, <1>11, Zenon

(* Behind bytes that no packet can begin with, the bytes of a packet are   *)
(* collected.                                                              *)
LEMMA HoldsMore ==
  ASSUME NEW b \in Seq(Byte), NEW f \in Frame, NEW m \in Nat,
         m + 1 < Size(f), Holds(b, f, m)
  PROVE  Holds(After(b, Packet(f)[m + 1]), f, m + 1)
<1> DEFINE c == Packet(f)[m + 1]
           got == Append(b, c)
<1>1. /\ Packet(f) \in Seq(Byte) /\ Size(f) = Len(Packet(f)) /\ Size(f) \in Nat
      /\ Size(f) = 4 + Len(Archive[f])
      /\ Packet(f)[1] = Magic[1] /\ Packet(f)[2] = Magic[2]
      /\ Packet(f)[3] * 256 + Packet(f)[4] = Len(Archive[f])
  BY PacketFacts DEF Size
<1>2. c \in Byte
  <2>1. m + 1 \in 1..Len(Packet(f))
    BY <1>1
  <2> QED
    BY <1>1, <2>1, ElementOfSeq
<1>3. /\ Len(b) \in Nat /\ Len(b) >= m
      /\ \A j \in 1..m : b[Len(b) - m + j] = Packet(f)[j]
      /\ \A j \in 1..(Len(b) - m) : b[j] # Magic[1]
      /\ Len(b) > m => Len(b) <= 3
  BY DEF Holds
<1>4. /\ got \in Seq(Byte) /\ Len(got) = Len(b) + 1
      /\ \A j \in 1..Len(b) : got[j] = b[j]
      /\ got[Len(b) + 1] = c
  BY <1>2, AppendProperties
<1> HIDE DEF got
<1>5. \A j \in 1..(m + 1) : got[Len(got) - (m + 1) + j] = Packet(f)[j]
  <2> SUFFICES ASSUME NEW j \in 1..(m + 1)
               PROVE  got[Len(got) - (m + 1) + j] = Packet(f)[j]
    OBVIOUS
  <2>1. CASE j = m + 1
    BY <1>3, <1>4, <2>1
  <2>2. CASE j \in 1..m
    <3>1. Len(got) - (m + 1) + j = Len(b) - m + j /\ Len(b) - m + j \in 1..Len(b)
      BY <1>3, <1>4, <2>2
    <3>2. b[Len(b) - m + j] = Packet(f)[j]
      BY <1>3, <2>2
    <3> QED
      BY <1>4, <3>1, <3>2
  <2> QED
    BY <2>1, <2>2
<1>6. \A j \in 1..(Len(got) - (m + 1)) : got[j] # Magic[1]
  BY <1>3, <1>4
<1>7. CASE Len(b) = m
  <2>1. Len(got) = m + 1 /\ \A j \in 1..(m + 1) : got[j] = Packet(f)[j]
    BY <1>4, <1>5, <1>7
  <2>2. ~Complete(got) /\ ~Noise(got)
    <3>1. CASE m + 1 < 4
      BY <2>1, <3>1 DEF Complete, IsPacket, Noise
    <3>2. CASE m + 1 >= 4
      <4>1. got[1] = Magic[1] /\ got[2] = Magic[2] /\ LenOf(got) = Len(Archive[f])
        BY <1>1, <2>1, <3>2 DEF LenOf
      <4> QED
        BY <1>1, <2>1, <3>2, <4>1 DEF Complete, IsPacket, Noise
    <3> QED
      BY <3>1, <3>2
  <2>3. After(b, c) = got
    BY <2>2 DEF After, got
  <2> QED
    BY <1>5, <1>6, <2>1, <2>3 DEF Holds
<1>8. CASE Len(b) > m
  <2>1. got[1] # Magic[1]
    BY <1>3, <1>4, <1>6, <1>8
  <2>2. ~Complete(got)
    BY <2>1 DEF Complete, IsPacket
  <2>3. CASE Len(got) <= 3
    <3>1. After(b, c) = got
      BY <1>4, <2>2, <2>3 DEF After, Noise, got
    <3> QED
      BY <1>3, <1>4, <1>5, <1>6, <1>8, <2>3, <3>1 DEF Holds
  <2>4. CASE Len(got) = 4
    <3>1. After(b, c) = Tail(got)
      BY <2>1, <2>2, <2>4 DEF After, Noise, IsPacket, Realigned, got
    <3> DEFINE rest == Tail(got)
    <3>2. Len(rest) = 3 /\ \A j \in 1..3 : rest[j] = got[j + 1]
      <4>1. got # <<>>
        BY <2>4
      <4>2. Len(rest) = Len(got) - 1 /\ \A j \in 1..Len(rest) : rest[j] = got[j + 1]
        BY <1>4, <4>1, HeadTailProperties
      <4>3. Len(rest) = 3
        BY <2>4, <4>2
      <4> QED
        BY <4>2, <4>3
    <3> HIDE DEF rest
    <3>3. \A j \in 1..(m + 1) : rest[3 - (m + 1) + j] = Packet(f)[j]
      <4> SUFFICES ASSUME NEW j \in 1..(m + 1)
                   PROVE  rest[3 - (m + 1) + j] = Packet(f)[j]
        OBVIOUS
      <4>1. 3 - (m + 1) + j \in 1..3
        BY <1>3, <1>4, <1>8, <2>4
      <4>2. (3 - (m + 1) + j) + 1 = Len(got) - (m + 1) + j
        BY <2>4
      <4> QED
        BY <1>5, <3>2, <4>1, <4>2
    <3>4. \A j \in 1..(3 - (m + 1)) : rest[j] # Magic[1]
      <4> SUFFICES ASSUME NEW j \in 1..(3 - (m + 1)) PROVE rest[j] # Magic[1]
        OBVIOUS
      <4>1. j \in 1..3 /\ j + 1 \in 1..(Len(got) - (m + 1))
        BY <2>4
      <4> QED
        BY <1>6, <3>2, <4>1
    <3>5. Len(rest) >= m + 1 /\ Len(rest) <= 3
      BY <1>3, <1>4, <1>8, <2>4, <3>2
    <3>6. Holds(rest, f, m + 1)
      BY <3>2, <3>3, <3>4, <3>5 DEF Holds
    <3> QED
      BY <3>1, <3>6 DEF rest
  <2> QED
    BY <1>3, <1>4, <1>8, <2>3, <2>4
<1> QED
  BY <1>3, <1>7, <1>8

LEMMA JunkHoldsNothing ==
  ASSUME NEW b \in Seq(Byte), NEW f PROVE Junk(b) <=> Holds(b, f, 0)
BY DEF Junk, NoMagic, Holds

(* A byte that no packet begins with leaves the parser as it is.           *)
LEMMA JunkStays ==
  ASSUME NEW b \in Seq(Byte), NEW c \in Byte, c # Magic[1], Junk(b)
  PROVE  Junk(After(b, c))
<1> DEFINE got == Append(b, c)
<1>1. /\ got \in Seq(Byte) /\ Len(got) = Len(b) + 1 /\ Len(b) \in Nat /\ Len(b) <= 3
      /\ \A j \in 1..Len(got) : got[j] # Magic[1]
  BY DEF Junk, NoMagic
<1> HIDE DEF got
<1>2. ~Complete(got)
  BY <1>1 DEF Complete, IsPacket
<1>3. CASE Len(got) <= 3
  <2>1. After(b, c) = got
    BY <1>1, <1>2, <1>3 DEF After, Noise, got
  <2> QED
    BY <1>1, <1>3, <2>1 DEF Junk, NoMagic
<1>4. CASE Len(got) = 4
  <2>1. After(b, c) = Tail(got)
    BY <1>1, <1>2, <1>4 DEF After, Noise, IsPacket, Realigned, got
  <2>2. Tail(got) \in Seq(Byte) /\ Len(Tail(got)) = 3 /\ \A j \in 1..3 : Tail(got)[j] = got[j + 1]
    <3>1. got # <<>>
      BY <1>1, <1>4
    <3>2. /\ Tail(got) \in Seq(Byte) /\ Len(Tail(got)) = Len(got) - 1
          /\ \A j \in 1..Len(Tail(got)) : Tail(got)[j] = got[j + 1]
      BY <1>1, <3>1, HeadTailProperties
    <3>3. Len(Tail(got)) = 3
      BY <1>4, <3>2
    <3> QED
      BY <3>2, <3>3
  <2> QED
    BY <1>1, <1>4, <2>1, <2>2 DEF Junk, NoMagic
<1> QED
  BY <1>1, <1>3, <1>4

(* The last byte of a packet completes it.                                 *)
LEMMA HoldsAll ==
  ASSUME NEW b \in Seq(Byte), NEW f \in Frame, Holds(b, f, Size(f) - 1)
  PROVE  /\ Append(b, Packet(f)[Size(f)]) = Packet(f)
         /\ Complete(Packet(f))
         /\ Body(Packet(f)) = Archive[f]
         /\ After(b, Packet(f)[Size(f)]) = <<>>
<1>1. /\ Packet(f) \in Seq(Byte) /\ Size(f) = Len(Packet(f)) /\ Size(f) \in Nat
      /\ Size(f) = 4 + Len(Archive[f]) /\ Len(Archive[f]) \in Nat
      /\ Packet(f)[1] = Magic[1] /\ Packet(f)[2] = Magic[2]
      /\ Packet(f)[3] * 256 + Packet(f)[4] = Len(Archive[f])
      /\ SubSeq(Packet(f), 5, Size(f)) = Archive[f]
  BY PacketFacts, FrameAssumption DEF Size
<1>2. Len(b) = Size(f) - 1 /\ \A j \in 1..Len(b) : b[j] = Packet(f)[j]
  <2>1. Len(b) \in Nat /\ Len(b) >= Size(f) - 1 /\ (Len(b) > Size(f) - 1 => Len(b) <= 3)
    BY DEF Holds
  <2>2. Len(b) = Size(f) - 1
    BY <1>1, <2>1
  <2>3. \A j \in 1..(Size(f) - 1) : b[Len(b) - (Size(f) - 1) + j] = Packet(f)[j]
    BY DEF Holds
  <2>4. \A j \in 1..(Size(f) - 1) : Len(b) - (Size(f) - 1) + j = j
    BY <1>1, <2>2
  <2> QED
    BY <2>2, <2>3, <2>4
<1>3. Append(b, Packet(f)[Size(f)]) = Packet(f)
  <2> DEFINE got == Append(b, Packet(f)[Size(f)])
  <2>1. /\ got \in Seq(Byte) /\ Len(got) = Size(f)
        /\ \A j \in 1..Len(b) : got[j] = b[j]
        /\ got[Size(f)] = Packet(f)[Size(f)]
    <3>1. Size(f) \in 1..Len(Packet(f)) /\ Len(b) + 1 = Size(f)
      BY <1>1, <1>2
    <3>2. Packet(f)[Size(f)] \in Byte
      BY <1>1, <3>1, ElementOfSeq
    <3> QED
      BY <3>1, <3>2, AppendProperties
  <2> HIDE DEF got
  <2>2. ASSUME NEW j \in 1..Size(f) PROVE got[j] = Packet(f)[j]
    <3>1. CASE j = Size(f)
      BY <2>1, <3>1
    <3>2. CASE j # Size(f)
      <4>1. j \in 1..Len(b)
        BY <1>1, <1>2, <3>2
      <4> QED
        BY <1>2, <2>1, <4>1
    <3> QED
      BY <3>1, <3>2
  <2>3. got = Packet(f)
    BY <1>1, <2>1, <2>2, SeqEqual
  <2> QED
    BY <2>3 DEF got
<1>4. LenOf(Packet(f)) = Len(Archive[f])
  BY <1>1 DEF LenOf
<1>5. Complete(Packet(f))
  BY <1>1, <1>4 DEF Complete, IsPacket
<1>6. Body(Packet(f)) = Archive[f]
  BY <1>1, <1>4 DEF Body
<1>7. Without(Packet(f)) = <<>>
  BY <1>1, <1>4 DEF Without
<1> QED
  BY <1>3, <1>5, <1>6, <1>7 DEF After

-----------------------------------------------------------------------------
(* What is owed, when a byte is read                                       *)

LEMMA SizeType ==
  ASSUME NEW f \in Frame PROVE Size(f) \in Nat /\ Size(f) >= 4
BY PacketFacts, FrameAssumption

(* What a byte that is due completes.                                      *)
LEMMA DueIsComplete ==
  ASSUME NEW l \in Seq(Byte), NEW o \in Seq(Due), NEW b \in Seq(Byte),
         Len(o) = Len(l), l # <<>>, Owes(l, o, b), o[1] # NoFrame
  PROVE  /\ o[1] \in Frame
         /\ Holds(b, o[1], Size(o[1]) - 1)
         /\ l[1] = Packet(o[1])[Size(o[1])]
<1>1. 1 \in 1..Len(l) /\ 1 \in 1..Len(o)
  BY EmptySeq
<1>2. o[1] \in Frame
  BY <1>1, ElementOfSeq DEF Due
<1>3. Size(o[1]) \in Nat /\ Size(o[1]) >= 4
  BY <1>2, SizeType
<1>4. \A s \in 1..1 : ~StartsAt(l, o, b, 1, s)
  BY <1>3 DEF StartsAt
<1>5. PICK m \in 1..Size(o[1]) : Continues(l, o, b, 1, m)
  BY <1>1, <1>4 DEF Owes
<1>6. m = Size(o[1]) - 1
  BY <1>3, <1>5 DEF Continues
<1>7. l[1] = Packet(o[1])[1 + m]
  BY <1>5 DEF Continues
<1>8. 1 + m = Size(o[1])
  BY <1>3, <1>6
<1> QED
  BY <1>2, <1>5, <1>6, <1>7, <1>8 DEF Continues

LEMMA DueLeavesNothing ==
  ASSUME NEW l \in Seq(Byte), NEW o \in Seq(Due), NEW b \in Seq(Byte),
         Len(o) = Len(l), l # <<>>, Owes(l, o, b), o[1] # NoFrame
  PROVE  After(b, l[1]) = <<>> /\ Junk(After(b, l[1]))
<1>1. After(b, l[1]) = <<>>
  BY DueIsComplete, HoldsAll
<1> QED
  BY <1>1 DEF Junk, NoMagic

LEMMA ReadOwes ==
  ASSUME NEW l \in Seq(Byte), NEW o \in Seq(Due), NEW b \in Seq(Byte),
         Len(o) = Len(l), l # <<>>, Owes(l, o, b)
  PROVE  Owes(Tail(l), Tail(o), After(b, l[1]))
<1> DEFINE l2 == Tail(l)
           o2 == Tail(o)
           b2 == After(b, l[1])
<1>1. o # <<>>
  BY EmptySeq
<1>2. /\ Len(l) \in Nat /\ Len(l) >= 1 /\ Len(l2) = Len(l) - 1 /\ Len(o2) = Len(l) - 1
      /\ l[1] \in Byte
      /\ \A j \in 1..(Len(l) - 1) : l2[j] = l[j + 1] /\ o2[j] = o[j + 1]
  <2>1. Len(l) \in Nat \ {0}
    BY EmptySeq
  <2>2. l[1] \in Byte
    BY <2>1, ElementOfSeq
  <2>3. /\ Len(l2) = Len(l) - 1 /\ Len(o2) = Len(o) - 1
        /\ \A j \in 1..Len(l2) : l2[j] = l[j + 1]
        /\ \A j \in 1..Len(o2) : o2[j] = o[j + 1]
    BY <1>1, HeadTailProperties
  <2> QED
    BY <2>1, <2>2, <2>3
<1> HIDE DEF l2, o2, b2
<1> SUFFICES ASSUME NEW i \in 1..Len(l2), o2[i] # NoFrame
             PROVE  \/ \E s \in 1..i : StartsAt(l2, o2, b2, i, s)
                    \/ \E m \in 1..Size(o2[i]) : Continues(l2, o2, b2, i, m)
  BY DEF Owes, l2, o2, b2
<1> DEFINE f == o[i + 1]
<1>3. /\ i \in Nat /\ i >= 1 /\ i + 1 \in 1..Len(l) /\ i + 1 \in 1..Len(o)
      /\ o2[i] = f
  BY <1>2
<1>4. f \in Frame
  BY <1>3, ElementOfSeq DEF Due
<1>5. Size(f) \in Nat /\ Size(f) >= 4
  BY <1>4, SizeType
<1> HIDE DEF f
<1>6. ASSUME NEW s \in 1..(i + 1), StartsAt(l, o, b, i + 1, s)
      PROVE  \/ \E t \in 1..i : StartsAt(l2, o2, b2, i, t)
             \/ \E m \in 1..Size(f) : Continues(l2, o2, b2, i, m)
  <2>1. /\ s \in Nat /\ i + 1 = s + Size(f) - 1
        /\ \A j \in s..(i + 1) : l[j] = Packet(f)[j - s + 1]
        /\ \A j \in s..i : o[j] = NoFrame
        /\ \/ s > 1 /\ o[s - 1] # NoFrame
           \/ Junk(b) /\ \A j \in 1..(s - 1) : o[j] = NoFrame /\ l[j] # Magic[1]
    BY <1>3, <1>6 DEF StartsAt, f
  <2>2. s > 1 => /\ s - 1 \in 1..i
                 /\ i = (s - 1) + Size(f) - 1
                 /\ \A j \in (s - 1)..i : l2[j] = Packet(f)[j - (s - 1) + 1]
                 /\ \A j \in (s - 1)..(i - 1) : o2[j] = NoFrame
    <3> SUFFICES ASSUME s > 1
                 PROVE  /\ s - 1 \in 1..i
                        /\ i = (s - 1) + Size(f) - 1
                        /\ \A j \in (s - 1)..i : l2[j] = Packet(f)[j - (s - 1) + 1]
                        /\ \A j \in (s - 1)..(i - 1) : o2[j] = NoFrame
      OBVIOUS
    <3> DEFINE n == Size(f)
    <3>0. s \in Nat /\ i \in Nat /\ n \in Nat /\ n >= 4 /\ i + 1 = s + n - 1
      BY <1>3, <1>5, <2>1
    <3> HIDE DEF n
    <3>1. s - 1 \in 1..i /\ i = (s - 1) + Size(f) - 1
      <4>1. s - 1 \in 1..i /\ i = (s - 1) + n - 1
        BY <3>0
      <4> QED
        BY <4>1 DEF n
    <3>2. ASSUME NEW j \in (s - 1)..i PROVE l2[j] = Packet(f)[j - (s - 1) + 1]
      <4>1. j \in 1..(Len(l) - 1) /\ j + 1 \in s..(i + 1) /\ (j + 1) - s + 1 = j - (s - 1) + 1
        BY <1>2, <1>3, <3>0, <3>1
      <4> QED
        BY <1>2, <2>1, <4>1
    <3>3. ASSUME NEW j \in (s - 1)..(i - 1) PROVE o2[j] = NoFrame
      <4>0. j \in Int /\ j >= s - 1 /\ j <= i - 1 /\ s - 1 >= 1 /\ i + 1 <= Len(l)
        BY <1>3, <3>0, <3>1
      <4>1. j \in 1..(Len(l) - 1) /\ j + 1 \in s..i
        BY <1>2, <3>0, <4>0
      <4> QED
        BY <1>2, <2>1, <4>1
    <3> QED
      BY <3>1, <3>2, <3>3
  <2>3. CASE s > 2 /\ o[s - 1] # NoFrame
    <3>1. s - 1 > 1 /\ o2[(s - 1) - 1] # NoFrame
      <4>1. s - 2 \in 1..(Len(l) - 1) /\ (s - 2) + 1 = s - 1 /\ (s - 1) - 1 = s - 2
        BY <1>3, <2>3
      <4>2. o2[s - 2] = o[(s - 2) + 1]
        BY <1>2, <4>1
      <4>3. o2[(s - 1) - 1] = o[s - 1]
        BY <4>1, <4>2
      <4> QED
        BY <2>1, <2>3, <4>3
    <3>2. StartsAt(l2, o2, b2, i, s - 1)
      BY <1>3, <2>1, <2>2, <2>3, <3>1 DEF StartsAt
    <3> QED
      BY <2>1, <2>2, <2>3, <3>2
  <2>4. CASE s = 2 /\ o[s - 1] # NoFrame
    <3>1. Junk(b2)
      BY <2>4, DueLeavesNothing DEF b2
    <3>2. StartsAt(l2, o2, b2, i, s - 1)
      BY <1>3, <2>1, <2>2, <2>4, <3>1 DEF StartsAt
    <3> QED
      BY <2>1, <2>2, <2>4, <3>2
  <2>5. CASE s > 1 /\ Junk(b) /\ \A j \in 1..(s - 1) : o[j] = NoFrame /\ l[j] # Magic[1]
    <3>1. l[1] # Magic[1]
      <4>1. 1 \in 1..(s - 1)
        BY <2>1, <2>5
      <4> QED
        BY <2>5, <4>1
    <3>2. Junk(b2)
      BY <1>2, <2>5, <3>1, JunkStays DEF b2
    <3>3. ASSUME NEW j \in 1..((s - 1) - 1) PROVE o2[j] = NoFrame /\ l2[j] # Magic[1]
      <4>1. j \in 1..(Len(l) - 1) /\ j + 1 \in 1..(s - 1)
        BY <1>3, <2>1
      <4> QED
        BY <1>2, <2>5, <4>1
    <3>4. StartsAt(l2, o2, b2, i, s - 1)
      BY <1>3, <2>1, <2>2, <2>5, <3>2, <3>3 DEF StartsAt
    <3> QED
      BY <2>1, <2>2, <2>5, <3>4
  <2>6. CASE s = 1
    <3>1. Junk(b) /\ l[1] = Packet(f)[1]
      <4>1. 1 \in s..(i + 1) /\ 1 - s + 1 = 1
        BY <1>3, <2>6
      <4> QED
        BY <2>1, <2>6, <4>1
    <3>2. Holds(b2, f, 1)
      <4>1. Holds(b, f, 0)
        BY <3>1, JunkHoldsNothing
      <4>2. Holds(After(b, Packet(f)[0 + 1]), f, 0 + 1)
        BY <1>4, <1>5, <4>1, HoldsMore
      <4> QED
        BY <3>1, <4>2 DEF b2
    <3>3. Size(f) = 1 + i
      BY <1>5, <2>1, <2>6
    <3>4. ASSUME NEW j \in 1..i PROVE l2[j] = Packet(f)[j + 1]
      <4>1. j \in 1..(Len(l) - 1) /\ j + 1 \in s..(i + 1) /\ (j + 1) - s + 1 = j + 1
        BY <1>2, <1>3, <2>6
      <4> QED
        BY <1>2, <2>1, <4>1
    <3>5. ASSUME NEW j \in 1..(i - 1) PROVE o2[j] = NoFrame
      <4>1. j \in 1..(Len(l) - 1) /\ j + 1 \in s..i
        BY <1>2, <1>3, <2>6
      <4> QED
        BY <1>2, <2>1, <4>1
    <3>6. Continues(l2, o2, b2, i, 1)
      BY <1>3, <3>2, <3>3, <3>4, <3>5 DEF Continues
    <3> QED
      BY <1>5, <3>6
  <2> QED
    BY <2>1, <2>3, <2>4, <2>5, <2>6
<1>7. ASSUME NEW m \in 1..Size(f), Continues(l, o, b, i + 1, m)
      PROVE  \E n \in 1..Size(f) : Continues(l2, o2, b2, i, n)
  <2>1. /\ m \in Nat /\ m >= 1 /\ Size(f) = m + (i + 1)
        /\ \A j \in 1..(i + 1) : l[j] = Packet(f)[j + m]
        /\ \A j \in 1..i : o[j] = NoFrame
        /\ Holds(b, f, m)
    BY <1>3, <1>7 DEF Continues, f
  <2>2. l[1] = Packet(f)[m + 1]
    <3>1. 1 \in 1..(i + 1) /\ 1 + m = m + 1
      BY <1>3, <2>1
    <3> QED
      BY <2>1, <3>1
  <2>3. Holds(b2, f, m + 1)
    <3>1. m + 1 < Size(f)
      BY <1>3, <2>1
    <3>2. Holds(After(b, Packet(f)[m + 1]), f, m + 1)
      BY <1>4, <2>1, <3>1, HoldsMore
    <3> QED
      BY <2>2, <3>2 DEF b2
  <2>4. ASSUME NEW j \in 1..i PROVE l2[j] = Packet(f)[j + (m + 1)]
    <3>1. j \in 1..(Len(l) - 1) /\ j + 1 \in 1..(i + 1) /\ (j + 1) + m = j + (m + 1)
      BY <1>2, <1>3, <2>1
    <3> QED
      BY <1>2, <2>1, <3>1
  <2>5. ASSUME NEW j \in 1..(i - 1) PROVE o2[j] = NoFrame
    <3>1. j \in 1..(Len(l) - 1) /\ j + 1 \in 1..i
      BY <1>2, <1>3
    <3> QED
      BY <1>2, <2>1, <3>1
  <2>6. m + 1 \in 1..Size(f) /\ m + 1 >= 1 /\ Size(f) = (m + 1) + i
    BY <1>3, <2>1
  <2>7. Continues(l2, o2, b2, i, m + 1)
    BY <1>3, <2>3, <2>4, <2>5, <2>6 DEF Continues
  <2> QED
    BY <2>6, <2>7
<1>8. \/ \E s \in 1..(i + 1) : StartsAt(l, o, b, i + 1, s)
      \/ \E m \in 1..Size(f) : Continues(l, o, b, i + 1, m)
  BY <1>3 DEF Owes, f
<1> QED
  BY <1>3, <1>6, <1>7, <1>8

LEMMA ReadAligned ==
  ASSUME NEW l \in Seq(Byte), NEW o \in Seq(Due), NEW b \in Seq(Byte),
         Len(o) = Len(l), l # <<>>, Owes(l, o, b), Aligned(l, o, b)
  PROVE  Aligned(Tail(l), Tail(o), After(b, l[1]))
<1> DEFINE l2 == Tail(l)
           o2 == Tail(o)
           b2 == After(b, l[1])
<1>1. o # <<>>
  BY EmptySeq
<1>2. /\ Len(l) \in Nat /\ Len(l) >= 1 /\ Len(l2) = Len(l) - 1 /\ Len(o2) = Len(l) - 1
      /\ l[1] \in Byte
      /\ \A j \in 1..(Len(l) - 1) : l2[j] = l[j + 1] /\ o2[j] = o[j + 1]
  <2>1. Len(l) \in Nat \ {0}
    BY EmptySeq
  <2>2. l[1] \in Byte
    BY <2>1, ElementOfSeq
  <2>3. /\ Len(l2) = Len(l) - 1 /\ Len(o2) = Len(o) - 1
        /\ \A j \in 1..Len(l2) : l2[j] = l[j + 1]
        /\ \A j \in 1..Len(o2) : o2[j] = o[j + 1]
    BY <1>1, HeadTailProperties
  <2> QED
    BY <2>1, <2>2, <2>3
<1> HIDE DEF l2, o2, b2
<1>3. CASE o[Len(l)] # NoFrame /\ Len(l) = 1
  <2>1. Junk(b2)
    BY <1>3, DueLeavesNothing DEF b2
  <2>2. Len(l2) = 0
    BY <1>2, <1>3
  <2> QED
    BY <2>1, <2>2 DEF Aligned, l2, o2, b2
<1>4. CASE o[Len(l)] # NoFrame /\ Len(l) > 1
  <2>1. Len(l2) \in 1..(Len(l) - 1) /\ Len(l2) + 1 = Len(l)
    BY <1>2, <1>4
  <2>2. o2[Len(l2)] = o[Len(l)]
    BY <1>2, <2>1
  <2>3. l2 # <<>>
    BY <2>1
  <2> QED
    BY <1>4, <2>2, <2>3 DEF Aligned, l2, o2, b2
<1>5. CASE Junk(b) /\ \A j \in 1..Len(l) : o[j] = NoFrame /\ l[j] # Magic[1]
  <2>1. Junk(b2)
    BY <1>2, <1>5, JunkStays DEF b2
  <2>2. ASSUME NEW j \in 1..Len(l2) PROVE o2[j] = NoFrame /\ l2[j] # Magic[1]
    <3>1. j \in 1..(Len(l) - 1) /\ j + 1 \in 1..Len(l)
      BY <1>2
    <3> QED
      BY <1>2, <1>5, <3>1
  <2> QED
    BY <2>1, <2>2 DEF Aligned, l2, o2, b2
<1> QED
  BY <1>2, <1>3, <1>4, <1>5 DEF Aligned

-----------------------------------------------------------------------------
(* What is owed, when bytes are appended to the line                       *)

LEMMA NothingType ==
  ASSUME NEW n \in Nat
  PROVE  /\ Nothing(n) \in Seq(Due) /\ Len(Nothing(n)) = n
         /\ \A j \in 1..n : Nothing(n)[j] = NoFrame
BY DEF Nothing, Due

LEMMA AtTheEndType ==
  ASSUME NEW f \in Frame
  PROVE  /\ AtTheEnd(f) \in Seq(Due) /\ Len(AtTheEnd(f)) = Size(f)
         /\ AtTheEnd(f)[Size(f)] = f
         /\ \A j \in 1..(Size(f) - 1) : AtTheEnd(f)[j] = NoFrame
<1>1. Size(f) \in Nat /\ Size(f) >= 4
  BY SizeType
<1>2. /\ Nothing(Size(f)) \in Seq(Due) /\ Len(Nothing(Size(f))) = Size(f)
      /\ \A j \in 1..Size(f) : Nothing(Size(f))[j] = NoFrame
  BY <1>1, NothingType
<1>3. AtTheEnd(f) = [Nothing(Size(f)) EXCEPT ![Size(f)] = f]
  BY DEF AtTheEnd, Size
<1>4. f \in Due
  BY DEF Due
<1> QED
  BY <1>1, <1>2, <1>3, <1>4

LEMMA BothGrow ==
  ASSUME NEW l \in Seq(Byte), NEW o \in Seq(Due), Len(o) = Len(l),
         NEW p \in Seq(Byte), NEW q \in Seq(Due), Len(q) = Len(p)
  PROVE  o \o q \in Seq(Due) /\ Len(o \o q) = Len(l \o p)
<1>1. Len(l \o p) = Len(l) + Len(p)
  BY ConcatProperties
<1>2. o \o q \in Seq(Due) /\ Len(o \o q) = Len(o) + Len(q)
  BY ConcatProperties
<1> QED
  BY <1>1, <1>2

LEMMA AppendOwesBefore ==
  ASSUME NEW l \in Seq(Byte), NEW o \in Seq(Due), NEW b \in Seq(Byte),
         Len(o) = Len(l), Owes(l, o, b),
         NEW p \in Seq(Byte), NEW q \in Seq(Due), Len(p) = Len(q),
         NEW i \in 1..Len(l), (o \o q)[i] # NoFrame
  PROVE  \/ \E s \in 1..i : StartsAt(l \o p, o \o q, b, i, s)
         \/ \E m \in 1..Size((o \o q)[i]) : Continues(l \o p, o \o q, b, i, m)
<1>1. \A j \in 1..Len(l) : (l \o p)[j] = l[j] /\ (o \o q)[j] = o[j]
  BY ConcatProperties
<1>2. (o \o q)[i] = o[i] /\ i \in Nat /\ i >= 1 /\ i <= Len(l) /\ Len(l) \in Nat
  BY <1>1
<1>3. ASSUME NEW s \in 1..i, StartsAt(l, o, b, i, s)
      PROVE  StartsAt(l \o p, o \o q, b, i, s)
  <2>1. \A j \in s..i : j \in 1..Len(l)
    BY <1>2
  <2>2. \A j \in 1..(s - 1) : j \in 1..Len(l)
    BY <1>2
  <2>3. s > 1 => s - 1 \in 1..Len(l)
    BY <1>2
  <2> QED
    BY <1>1, <1>2, <1>3, <2>1, <2>2, <2>3 DEF StartsAt
<1>4. ASSUME NEW m \in 1..Size(o[i]), Continues(l, o, b, i, m)
      PROVE  Continues(l \o p, o \o q, b, i, m)
  <2>1. \A j \in 1..i : (l \o p)[j] = l[j] /\ (o \o q)[j] = o[j]
    BY <1>1, <1>2
  <2> DEFINE l2 == l \o p
             o2 == o \o q
  <2>2. /\ \A j \in 1..i : l2[j] = l[j] /\ o2[j] = o[j]
        /\ o2[i] = o[i] /\ i \in Nat
    BY <1>2, <2>1
  <2> HIDE DEF l2, o2
  <2>3. Continues(l2, o2, b, i, m)
    <3>1. /\ m >= 1 /\ Size(o[i]) = m + i /\ Holds(b, o[i], m)
          /\ \A j \in 1..i : l[j] = Packet(o[i])[j + m]
          /\ \A j \in 1..(i - 1) : j \in 1..i /\ o[j] = NoFrame
      BY <1>4, <2>2 DEF Continues
    <3>2. /\ \A j \in 1..i : l2[j] = Packet(o2[i])[j + m]
          /\ \A j \in 1..(i - 1) : o2[j] = NoFrame
      BY <2>2, <3>1
    <3>3. Size(o2[i]) = m + i /\ Holds(b, o2[i], m)
      BY <2>2, <3>1
    <3> QED
      BY <3>1, <3>2, <3>3 DEF Continues
  <2> QED
    BY <2>3 DEF l2, o2
<1> QED
  BY <1>2, <1>3, <1>4 DEF Owes

LEMMA AppendNothing ==
  ASSUME NEW l \in Seq(Byte), NEW o \in Seq(Due), NEW b \in Seq(Byte),
         Len(o) = Len(l), Owes(l, o, b), NEW p \in Seq(Byte)
  PROVE  Owes(l \o p, o \o Nothing(Len(p)), b)
<1> DEFINE q == Nothing(Len(p))
<1>1. q \in Seq(Due) /\ Len(q) = Len(p) /\ \A j \in 1..Len(p) : q[j] = NoFrame
  BY NothingType
<1> HIDE DEF q
<1>2. /\ Len(l \o p) = Len(l) + Len(p) /\ Len(l) \in Nat /\ Len(p) \in Nat
      /\ \A j \in 1..(Len(l) + Len(p)) :
           (o \o q)[j] = IF j <= Len(l) THEN o[j] ELSE q[j - Len(l)]
  BY <1>1, ConcatProperties
<1> SUFFICES ASSUME NEW i \in 1..Len(l \o p), (o \o q)[i] # NoFrame
             PROVE  \/ \E s \in 1..i : StartsAt(l \o p, o \o q, b, i, s)
                    \/ \E m \in 1..Size((o \o q)[i]) : Continues(l \o p, o \o q, b, i, m)
  BY DEF Owes, q
<1>3. i \in 1..Len(l)
  <2>1. CASE i > Len(l)
    <3>1. i - Len(l) \in 1..Len(p)
      BY <1>2, <2>1
    <3> QED
      BY <1>1, <1>2, <2>1, <3>1
  <2> QED
    BY <1>2, <2>1
<1> QED
  BY <1>1, <1>3, AppendOwesBefore

LEMMA AppendPacket ==
  ASSUME NEW l \in Seq(Byte), NEW o \in Seq(Due), NEW b \in Seq(Byte),
         Len(o) = Len(l), Owes(l, o, b), Aligned(l, o, b), NEW f \in Frame
  PROVE  /\ Owes(l \o Packet(f), o \o AtTheEnd(f), b)
         /\ Aligned(l \o Packet(f), o \o AtTheEnd(f), b)
<1> DEFINE p == Packet(f)
           q == AtTheEnd(f)
           n == Len(l)
<1>1. /\ q \in Seq(Due) /\ Len(q) = Size(f) /\ q[Size(f)] = f
      /\ \A j \in 1..(Size(f) - 1) : q[j] = NoFrame
      /\ p \in Seq(Byte) /\ Len(p) = Size(f) /\ Size(f) \in Nat /\ Size(f) >= 4
      /\ n \in Nat /\ f # NoFrame
  BY AtTheEndType, PacketType, SizeType, FrameAssumption DEF Size
<1> HIDE DEF p, q
<1>2. /\ Len(l \o p) = n + Size(f)
      /\ \A j \in 1..n : (l \o p)[j] = l[j] /\ (o \o q)[j] = o[j]
      /\ \A j \in 1..(n + Size(f)) : j > n =>
           (l \o p)[j] = p[j - n] /\ (o \o q)[j] = q[j - n]
  <2>1. /\ Len(l \o p) = Len(l) + Len(p)
        /\ \A j \in 1..(Len(l) + Len(p)) :
             (l \o p)[j] = IF j <= Len(l) THEN l[j] ELSE p[j - Len(l)]
    <3>1. p \in Seq(Byte)
      BY <1>1
    <3> QED
      BY <3>1, ConcatProperties
  <2>2. /\ Len(o \o q) = Len(o) + Len(q)
        /\ \A j \in 1..(Len(o) + Len(q)) :
             (o \o q)[j] = IF j <= Len(o) THEN o[j] ELSE q[j - Len(o)]
    <3>1. q \in Seq(Due)
      BY <1>1
    <3> QED
      BY <3>1, ConcatProperties
  <2> QED
    BY <1>1, <2>1, <2>2
<1> HIDE DEF n
<1>0. n \in Nat /\ Size(f) \in Nat /\ Size(f) >= 4
  BY <1>1
<1>3. (o \o q)[n + Size(f)] = f
  <2>1. n + Size(f) \in 1..(n + Size(f)) /\ n + Size(f) > n /\ (n + Size(f)) - n = Size(f)
    BY <1>1
  <2> QED
    BY <1>1, <1>2, <2>1
<1>4. ASSUME NEW j \in (n + 1)..(n + Size(f) - 1) PROVE (o \o q)[j] = NoFrame
  <2>1. j \in 1..(n + Size(f)) /\ j > n /\ j - n \in 1..(Size(f) - 1)
    BY <1>1
  <2> QED
    BY <1>1, <1>2, <2>1
<1>5. ASSUME NEW j \in (n + 1)..(n + Size(f))
      PROVE  (l \o p)[j] = Packet(f)[j - (n + 1) + 1]
  <2>1. j \in 1..(n + Size(f)) /\ j > n /\ j - (n + 1) + 1 = j - n
    BY <1>1
  <2> QED
    BY <1>2, <2>1 DEF p
<1>6. \/ n + 1 > 1 /\ (o \o q)[(n + 1) - 1] # NoFrame
      \/ Junk(b) /\ \A j \in 1..((n + 1) - 1) :
                      (o \o q)[j] = NoFrame /\ (l \o p)[j] # Magic[1]
  <2>1. (n + 1) - 1 = n
    BY <1>1
  <2>2. CASE l # <<>> /\ o[n] # NoFrame
    <3>1. n \in 1..n /\ n + 1 > 1
      BY <1>1, <2>2, EmptySeq DEF n
    <3> QED
      BY <1>2, <2>1, <2>2, <3>1
  <2>3. CASE Junk(b) /\ \A j \in 1..n : o[j] = NoFrame /\ l[j] # Magic[1]
    BY <1>2, <2>1, <2>3
  <2> QED
    BY <2>2, <2>3 DEF Aligned, n
<1>7. StartsAt(l \o p, o \o q, b, n + Size(f), n + 1)
  <2>1. n + 1 \in 1..(n + Size(f)) /\ n + Size(f) = (n + 1) + Size(f) - 1
    BY <1>0
  <2> DEFINE e == n + Size(f)
  <2>2. e = (n + 1) + Size((o \o q)[e]) - 1
    BY <1>3, <2>1
  <2>3. \A j \in (n + 1)..e : (l \o p)[j] = Packet((o \o q)[e])[j - (n + 1) + 1]
    BY <1>3, <1>5
  <2>4. n + 1 \in 1..e
    BY <2>1
  <2> HIDE DEF e
  <2>5. ASSUME NEW j \in (n + 1)..(e - 1) PROVE (o \o q)[j] = NoFrame
    <3>1. j \in (n + 1)..(n + Size(f) - 1)
      BY <1>0 DEF e
    <3> QED
      BY <1>4, <3>1
  <2>6. StartsAt(l \o p, o \o q, b, e, n + 1)
    BY <1>6, <2>2, <2>3, <2>4, <2>5 DEF StartsAt
  <2> QED
    BY <2>6 DEF e
<1>8. Owes(l \o p, o \o q, b)
  <2> SUFFICES ASSUME NEW i \in 1..Len(l \o p), (o \o q)[i] # NoFrame
               PROVE  \/ \E s \in 1..i : StartsAt(l \o p, o \o q, b, i, s)
                      \/ \E m \in 1..Size((o \o q)[i]) : Continues(l \o p, o \o q, b, i, m)
    BY DEF Owes
  <2>1. CASE i <= n
    <3>1. i \in 1..Len(l)
      BY <1>1, <1>2, <2>1 DEF n
    <3> QED
      BY <1>1, <3>1, AppendOwesBefore
  <2>2. CASE i > n
    <3>1. i = n + Size(f)
      <4>1. i \in Nat /\ i <= n + Size(f)
        BY <1>0, <1>2
      <4>2. i \notin (n + 1)..(n + Size(f) - 1)
        BY <1>4
      <4>3. ~(i <= n + Size(f) - 1)
        BY <1>0, <2>2, <4>1, <4>2
      <4> QED
        BY <1>0, <4>1, <4>3
    <3>2. n + 1 \in 1..i
      BY <1>1, <3>1
    <3> QED
      BY <1>7, <3>1, <3>2
  <2> QED
    BY <1>1, <1>2, <2>1, <2>2
<1>9. Aligned(l \o p, o \o q, b)
  <2>1. Len(l \o p) = n + Size(f) /\ n + Size(f) # 0
    BY <1>1, <1>2
  <2>2. l \o p # <<>>
    BY <1>1, <2>1
  <2> QED
    BY <1>1, <1>3, <2>1, <2>2 DEF Aligned
<1> QED
  BY <1>8, <1>9 DEF p, q

-----------------------------------------------------------------------------
(* What is owed, when the beginning of the line is lost                    *)

LEMMA DueType ==
  ASSUME NEW o \in Seq(Due), NEW i \in 1..Len(o), o[i] # NoFrame
  PROVE  o[i] \in Frame /\ Size(o[i]) \in Nat /\ Size(o[i]) >= 4
<1>1. o[i] \in Frame
  BY ElementOfSeq DEF Due
<1> QED
  BY <1>1, SizeType

(* The packets that are due do not overlap, and nothing lies between them. *)
LEMMA DueApart ==
  ASSUME NEW l \in Seq(Byte), NEW o \in Seq(Due), NEW b,
         Len(o) = Len(l), Owes(l, o, b),
         NEW i \in 1..Len(l), NEW j \in 1..Len(l), j < i,
         o[i] # NoFrame, o[j] # NoFrame
  PROVE  /\ j <= i - Size(o[i])
         /\ o[i - Size(o[i])] # NoFrame
<1>1. Size(o[i]) \in Nat /\ Size(o[i]) >= 4
  BY DueType
<1>2. ASSUME NEW m \in 1..Size(o[i]), Continues(l, o, b, i, m) PROVE FALSE
  <2>1. j \in 1..(i - 1)
    OBVIOUS
  <2> QED
    BY <1>2, <2>1 DEF Continues
<1>3. PICK s \in 1..i : StartsAt(l, o, b, i, s)
  BY <1>2 DEF Owes
<1>4. /\ i = s + Size(o[i]) - 1
      /\ \A x \in s..(i - 1) : o[x] = NoFrame
      /\ \/ s > 1 /\ o[s - 1] # NoFrame
         \/ Junk(b) /\ \A x \in 1..(s - 1) : o[x] = NoFrame /\ l[x] # Magic[1]
  BY <1>3 DEF StartsAt
<1>5. j \notin s..(i - 1)
  BY <1>4
<1>6. j \in 1..(s - 1)
  BY <1>5
<1>7. s - 1 = i - Size(o[i])
  BY <1>1, <1>4
<1> QED
  BY <1>4, <1>6, <1>7

LEMMA DueStarts ==
  ASSUME NEW l, NEW o \in Seq(Due), NEW b,
         Len(o) = Len(l), Owes(l, o, b),
         NEW i \in 1..Len(o), o[i] # NoFrame, Size(o[i]) <= i
  PROVE  StartsAt(l, o, b, i, i - Size(o[i]) + 1)
<1>1. Size(o[i]) \in Nat
  BY DueType
<1>2. ASSUME NEW m \in 1..Size(o[i]), Continues(l, o, b, i, m) PROVE FALSE
  BY <1>1, <1>2 DEF Continues
<1>3. PICK s \in 1..i : StartsAt(l, o, b, i, s)
  BY <1>2 DEF Owes
<1>4. s = i - Size(o[i]) + 1
  BY <1>1, <1>3 DEF StartsAt
<1> QED
  BY <1>3, <1>4

LEMMA CutOwes ==
  ASSUME NEW l \in Seq(Byte), NEW o \in Seq(Due), NEW b,
         Len(o) = Len(l), Owes(l, o, b), Aligned(l, o, b),
         NEW k \in 0..Len(l),
         NEW l2 \in Seq(Byte), NEW o2 \in Seq(Due),
         Len(l2) = Len(l) - k, Len(o2) = Len(l2),
         \A i \in 1..Len(l2) : l2[i] = l[i + k],
         \A i \in 1..Len(l2) :
           o2[i] = IF o[i + k] # NoFrame /\ Size(o[i + k]) <= i THEN o[i + k] ELSE NoFrame,
         CleanCut(l2, o2)
  PROVE  Owes(l2, o2, <<>>) /\ Aligned(l2, o2, <<>>)
<1>1. /\ k \in Nat /\ Len(l) \in Nat /\ Len(l2) \in Nat
      /\ \A i \in 1..Len(l2) : i + k \in 1..Len(l) /\ i + k \in 1..Len(o)
  OBVIOUS
<1>2. ASSUME NEW i \in 1..Len(l2), o2[i] # NoFrame
      PROVE  /\ o[i + k] = o2[i] /\ o2[i] \in Frame
             /\ Size(o2[i]) \in Nat /\ Size(o2[i]) >= 4 /\ Size(o2[i]) <= i
  <2>1. o[i + k] = o2[i] /\ Size(o2[i]) <= i
    BY <1>2
  <2>2. i + k \in 1..Len(o)
    BY <1>1
  <2> QED
    BY <1>2, <2>1, <2>2, DueType
<1>3. Junk(<<>>)
  BY DEF Junk, NoMagic
<1>4. ASSUME NEW i \in 1..Len(l2), NEW j \in 1..Len(l2), j < i,
             o[i + k] # NoFrame, o2[j] # NoFrame
      PROVE  /\ j <= i - Size(o[i + k])
             /\ o[(i - Size(o[i + k])) + k] # NoFrame
             /\ Size(o[i + k]) <= i
  <2>1. /\ i + k \in 1..Len(l) /\ j + k \in 1..Len(l) /\ j + k < i + k
        /\ i + k \in 1..Len(o)
    BY <1>1, <1>4
  <2>2. o[j + k] # NoFrame
    BY <1>2, <1>4
  <2>3. j + k <= (i + k) - Size(o[i + k]) /\ o[(i + k) - Size(o[i + k])] # NoFrame
    BY <1>4, <2>1, <2>2, DueApart
  <2>4. Size(o[i + k]) \in Nat
    BY <1>4, <2>1, DueType
  <2> DEFINE n == Size(o[i + k])
  <2> HIDE DEF n
  <2>5. (i + k) - n = (i - n) + k /\ (j + k <= (i + k) - n => j <= i - n /\ n <= i)
    BY <1>1, <2>4 DEF n
  <2> QED
    BY <2>3, <2>5 DEF n
<1>5. Owes(l2, o2, <<>>)
  <2> SUFFICES ASSUME NEW i \in 1..Len(l2), o2[i] # NoFrame
               PROVE  \E s \in 1..i : StartsAt(l2, o2, <<>>, i, s)
    BY DEF Owes
  <2> DEFINE s == i - Size(o2[i]) + 1
  <2>1. /\ o[i + k] = o2[i] /\ o2[i] \in Frame
        /\ Size(o2[i]) \in Nat /\ Size(o2[i]) >= 4 /\ Size(o2[i]) <= i
        /\ i + k \in 1..Len(o) /\ i \in Nat
    BY <1>1, <1>2
  <2>2. s \in 1..i /\ s - 1 = i - Size(o2[i]) /\ i = s + Size(o2[i]) - 1
    <3> DEFINE n == Size(o2[i])
    <3>1. n \in Nat /\ n >= 4 /\ n <= i /\ i \in Nat
      BY <2>1
    <3> HIDE DEF n
    <3>2. i - n + 1 \in 1..i /\ (i - n + 1) - 1 = i - n /\ i = (i - n + 1) + n - 1
      BY <3>1
    <3> QED
      BY <3>2 DEF n
  <2>3. StartsAt(l, o, b, i + k, s + k)
    <3>1. Size(o[i + k]) <= i + k
      BY <1>1, <2>1
    <3>2. StartsAt(l, o, b, i + k, (i + k) - Size(o[i + k]) + 1)
      BY <2>1, <3>1, DueStarts
    <3>3. (i + k) - Size(o[i + k]) + 1 = s + k
      BY <1>1, <2>1
    <3> QED
      BY <3>2, <3>3
  <2> HIDE DEF s
  <2>4. ASSUME NEW j \in s..i PROVE l2[j] = Packet(o2[i])[j - s + 1]
    <3>1. j \in 1..Len(l2) /\ j + k \in (s + k)..(i + k) /\ (j + k) - (s + k) + 1 = j - s + 1
      BY <1>1, <2>2
    <3>2. l[j + k] = Packet(o[i + k])[(j + k) - (s + k) + 1]
      BY <2>3, <3>1 DEF StartsAt
    <3> QED
      BY <2>1, <3>1, <3>2
  <2>5. ASSUME NEW j \in s..(i - 1) PROVE o2[j] = NoFrame
    <3>1. j \in 1..Len(l2) /\ j + k \in (s + k)..((i + k) - 1)
      BY <1>1, <2>2
    <3>2. o[j + k] = NoFrame
      BY <2>3, <3>1 DEF StartsAt
    <3> QED
      BY <3>1, <3>2
  <2>6. CASE s > 1 /\ o2[s - 1] # NoFrame
    <3>1. StartsAt(l2, o2, <<>>, i, s)
      BY <2>2, <2>4, <2>5, <2>6 DEF StartsAt
    <3> QED
      BY <2>2, <3>1
  <2>7. CASE ~(s > 1 /\ o2[s - 1] # NoFrame)
    <3>1. ASSUME NEW j \in 1..(s - 1), o2[j] # NoFrame PROVE FALSE
      <4>1. j \in 1..Len(l2) /\ j < i /\ s > 1 /\ s - 1 \in 1..Len(l2)
        BY <2>2
      <4>2. j <= i - Size(o[i + k]) /\ o[(s - 1) + k] # NoFrame
        <5>1. o[i + k] # NoFrame /\ i - Size(o[i + k]) = s - 1
          BY <2>1, <2>2
        <5>2. /\ j <= i - Size(o[i + k])
              /\ o[(i - Size(o[i + k])) + k] # NoFrame
          BY <1>4, <3>1, <4>1, <5>1
        <5> QED
          BY <5>1, <5>2
      <4>3. o2[s - 1] = NoFrame
        BY <2>7, <4>1
      <4>4. j < s - 1
        BY <2>2, <3>1, <4>3
      <4>5. Size(o[(s - 1) + k]) <= s - 1
        BY <1>4, <3>1, <4>1, <4>2, <4>4
      <4> QED
        BY <4>1, <4>2, <4>3, <4>5
    <3>2. ASSUME NEW j \in 1..(s - 1) PROVE j \in Remainder(o2)
      <4>1. j \in DOMAIN o2 /\ DOMAIN o2 = 1..Len(l2)
        BY <2>2
      <4>2. ASSUME NEW x \in 1..Len(l2), o2[x] # NoFrame
            PROVE  j <= x - Size(o2[x])
        <5>1. CASE x < i
          <6>1. x \notin 1..(s - 1) /\ x \notin s..(i - 1)
            BY <2>5, <3>1, <4>2
          <6> QED
            BY <2>2, <5>1, <6>1
        <5>2. CASE x = i
          BY <2>2, <5>2
        <5>3. CASE x > i
          <6>1. o[x + k] = o2[x] /\ Size(o2[x]) \in Nat
            BY <1>2, <4>2
          <6>2. i <= x - Size(o[x + k])
            BY <1>4, <4>2, <5>3, <6>1
          <6>3. i <= x - Size(o2[x]) /\ j <= i
            BY <2>2, <6>1, <6>2
          <6> QED
            BY <6>1, <6>3
        <5> QED
          BY <5>1, <5>2, <5>3
      <4> QED
        BY <4>1, <4>2 DEF Remainder, Size
    <3>3. ASSUME NEW j \in 1..(s - 1) PROVE o2[j] = NoFrame /\ l2[j] # Magic[1]
      BY <3>1, <3>2 DEF CleanCut
    <3>4. StartsAt(l2, o2, <<>>, i, s)
      BY <1>3, <2>2, <2>4, <2>5, <3>3 DEF StartsAt
    <3> QED
      BY <2>2, <3>4
  <2> QED
    BY <2>6, <2>7
<1>6. Aligned(l2, o2, <<>>)
  <2>1. CASE l2 # <<>> /\ o2[Len(l2)] # NoFrame
    BY <2>1 DEF Aligned
  <2>2. CASE l2 = <<>>
    BY <1>3, <2>2 DEF Aligned
  <2>3. CASE l2 # <<>> /\ o2[Len(l2)] = NoFrame
    <3>1. Len(l2) \in 1..Len(l2) /\ Len(l2) + k = Len(l)
      BY <1>1, <2>3, EmptySeq
    <3>2. ASSUME NEW j \in 1..Len(l2), o2[j] # NoFrame PROVE FALSE
      <4>1. o[j + k] # NoFrame /\ j + k \in 1..Len(l)
        BY <1>1, <1>2, <3>2
      <4>2. o[Len(l)] # NoFrame
        BY <4>1 DEF Aligned
      <4>3. j < Len(l2)
        BY <1>1, <2>3, <3>2
      <4>4. Size(o[Len(l2) + k]) <= Len(l2)
        BY <1>4, <3>1, <3>2, <4>2, <4>3
      <4> QED
        BY <2>3, <3>1, <4>2, <4>4
    <3>3. Remainder(o2) = 1..Len(l2)
      <4>1. DOMAIN o2 = 1..Len(l2)
        OBVIOUS
      <4> QED
        BY <3>2, <4>1 DEF Remainder
    <3>4. ASSUME NEW j \in 1..Len(l2) PROVE o2[j] = NoFrame /\ l2[j] # Magic[1]
      BY <3>2, <3>3 DEF CleanCut
    <3> QED
      BY <1>3, <3>4 DEF Aligned
  <2> QED
    BY <2>1, <2>2, <2>3
<1> QED
  BY <1>5, <1>6

-----------------------------------------------------------------------------
(* The history                                                             *)

HistoryInv == IInv /\ OwedInv

LEMMA HistoryInitInv == HistoryInit => HistoryInv
<1> SUFFICES ASSUME HistoryInit PROVE HistoryInv
  OBVIOUS
<1>1. IInv
  BY InitInv DEF HistoryInit
<1>2. line = <<>> /\ rx_buf = <<>> /\ owed = <<>> /\ sound = TRUE
  BY DEF HistoryInit, Init
<1>3. owed \in Seq(Frame \cup {NoFrame}) /\ Len(owed) = Len(line) /\ Len(line) = 0
  BY <1>2
<1>4. Owes(line, owed, rx_buf)
  BY <1>3 DEF Owes
<1>5. Aligned(line, owed, rx_buf)
  <2>1. Junk(rx_buf)
    BY <1>2 DEF Junk, NoMagic
  <2> QED
    BY <1>3, <2>1 DEF Aligned
<1> QED
  BY <1>1, <1>3, <1>4, <1>5 DEF HistoryInv, OwedInv

(* The bridge takes a byte from the line and parses it.                    *)
LEMMA ReadStep ==
  ASSUME IInv, Read
  PROVE  /\ line \in Seq(Byte) /\ rx_buf \in Seq(Byte) /\ line # <<>>
         /\ line' = Tail(line)
         /\ rx_buf' = After(rx_buf, line[1])
         /\ Head(line) = line[1]
<1>1. line \in Seq(Byte) /\ rx_buf \in Seq(Byte)
  BY DEF IInv, TypeOK
<1>2. line # <<>> /\ line' = Tail(line)
  BY DEF Read, Collect, Skip, Forward, Takes
<1>3. Got = Append(rx_buf, line[1]) /\ Head(line) = line[1]
  BY <1>1, <1>2 DEF Got
<1>4. rx_buf' = After(rx_buf, line[1])
  <2>1. Noise(Got) => ~Complete(Got)
    BY DEF Noise, Complete
  <2>2. CASE Collect
    BY <1>3, <2>2 DEF Collect, After
  <2>3. CASE Skip
    BY <1>3, <2>1, <2>3 DEF Skip, After
  <2>4. CASE Forward
    BY <1>3, <2>4 DEF Forward, After
  <2> QED
    BY <2>2, <2>3, <2>4 DEF Read
<1> QED
  BY <1>1, <1>2, <1>3, <1>4

LEMMA ReadsOwedInv ==
  ASSUME HistoryInv, Reads
  PROVE  OwedInv'
<1>1. IInv /\ OwedInv /\ Read /\ owed' = Tail(owed) /\ sound' = sound
  BY DEF HistoryInv, Reads
<1>2. /\ line \in Seq(Byte) /\ rx_buf \in Seq(Byte) /\ line # <<>>
      /\ line' = Tail(line) /\ rx_buf' = After(rx_buf, line[1])
  BY <1>1, ReadStep
<1>3. /\ owed \in Seq(Due) /\ Len(owed) = Len(line) /\ Owes(line, owed, rx_buf)
      /\ sound => Aligned(line, owed, rx_buf)
  BY <1>1 DEF OwedInv, Due
<1>4. owed # <<>>
  BY <1>2, <1>3, EmptySeq
<1>5. owed' \in Seq(Due) /\ Len(owed') = Len(line')
  BY <1>1, <1>2, <1>3, <1>4, HeadTailProperties
<1>6. Owes(line', owed', rx_buf')
  BY <1>1, <1>2, <1>3, ReadOwes
<1>7. sound' => Aligned(line', owed', rx_buf')
  BY <1>1, <1>2, <1>3, ReadAligned
<1> QED
  BY <1>5, <1>6, <1>7 DEF OwedInv, Due

LEMMA WritesOwedInv ==
  ASSUME HistoryInv, NEW f \in Frame, Writes(f)
  PROVE  OwedInv'
<1>1. /\ IInv /\ OwedInv
      /\ line' = line \o Packet(f) /\ rx_buf' = rx_buf
      /\ sound' = (sound \/ Idle)
      /\ owed' = owed \o IF sound' THEN AtTheEnd(f) ELSE Nothing(Len(Packet(f)))
  BY DEF HistoryInv, Writes, HostWrites, Sends
<1>2. line \in Seq(Byte) /\ rx_buf \in Seq(Byte) /\ Packet(f) \in Seq(Byte)
  BY <1>1, PacketType DEF IInv, TypeOK
<1>3. /\ owed \in Seq(Due) /\ Len(owed) = Len(line) /\ Owes(line, owed, rx_buf)
      /\ sound => Aligned(line, owed, rx_buf)
  BY <1>1 DEF OwedInv, Due
<1>4. CASE sound'
  <2>1. Aligned(line, owed, rx_buf)
    <3>1. CASE sound
      BY <1>3, <3>1
    <3>2. CASE Idle
      <4>1. Len(line) = 0 /\ Junk(rx_buf)
        BY <3>2 DEF Idle, Junk
      <4> QED
        BY <4>1 DEF Aligned
    <3> QED
      BY <1>1, <1>4, <3>1, <3>2
  <2>2. owed' = owed \o AtTheEnd(f)
    BY <1>1, <1>4
  <2>3. AtTheEnd(f) \in Seq(Due) /\ Len(AtTheEnd(f)) = Len(Packet(f))
    BY AtTheEndType DEF Size
  <2>4. owed' \in Seq(Due) /\ Len(owed') = Len(line')
    <3>1. /\ owed \o AtTheEnd(f) \in Seq(Due)
          /\ Len(owed \o AtTheEnd(f)) = Len(line \o Packet(f))
      BY <1>2, <1>3, <2>3, BothGrow
    <3>2. line' = line \o Packet(f)
      BY <1>1
    <3> QED
      BY <2>2, <3>1, <3>2
  <2>5. Owes(line', owed', rx_buf') /\ Aligned(line', owed', rx_buf')
    BY <1>1, <1>2, <1>3, <2>1, <2>2, AppendPacket
  <2> QED
    BY <2>4, <2>5 DEF OwedInv, Due
<1>5. CASE ~sound'
  <2>1. owed' = owed \o Nothing(Len(Packet(f)))
    BY <1>1, <1>5
  <2>2. /\ Nothing(Len(Packet(f))) \in Seq(Due)
        /\ Len(Nothing(Len(Packet(f)))) = Len(Packet(f))
    BY <1>2, NothingType
  <2>3. owed' \in Seq(Due) /\ Len(owed') = Len(line')
    <3>1. /\ owed \o Nothing(Len(Packet(f))) \in Seq(Due)
          /\ Len(owed \o Nothing(Len(Packet(f)))) = Len(line \o Packet(f))
      BY <1>2, <1>3, <2>2, BothGrow
    <3>2. line' = line \o Packet(f)
      BY <1>1
    <3> QED
      BY <2>1, <3>1, <3>2
  <2>4. Owes(line', owed', rx_buf')
    BY <1>1, <1>2, <1>3, <2>1, AppendNothing
  <2> QED
    BY <1>5, <2>3, <2>4 DEF OwedInv, Due
<1> QED
  BY <1>4, <1>5

LEMMA StopsOwedInv ==
  ASSUME HistoryInv, NEW f \in Frame, NEW k \in 1..(Len(Packet(f)) - 1), Stops(f, k)
  PROVE  OwedInv'
<1> DEFINE bytes == SubSeq(Packet(f), 1, k)
<1>1. /\ IInv /\ OwedInv
      /\ line' = line \o bytes /\ rx_buf' = rx_buf
      /\ sound' = FALSE /\ owed' = owed \o Nothing(k)
  BY DEF HistoryInv, Stops, HostStops, Sends
<1>2. line \in Seq(Byte) /\ rx_buf \in Seq(Byte)
  BY <1>1 DEF IInv, TypeOK
<1>3. bytes \in Seq(Byte) /\ Len(bytes) = k
  <2>1. Packet(f) \in Seq(Byte) /\ Len(Packet(f)) \in Nat
    BY PacketType
  <2> QED
    BY <2>1
<1> HIDE DEF bytes
<1>4. owed \in Seq(Due) /\ Len(owed) = Len(line) /\ Owes(line, owed, rx_buf)
  BY <1>1 DEF OwedInv, Due
<1>5. Nothing(k) \in Seq(Due) /\ Len(Nothing(k)) = k
  BY <1>3, NothingType
<1>6. owed' \in Seq(Due) /\ Len(owed') = Len(line')
  BY <1>1, <1>2, <1>3, <1>4, <1>5, BothGrow
<1>7. Owes(line', owed', rx_buf')
  BY <1>1, <1>2, <1>3, <1>4, AppendNothing
<1> QED
  BY <1>1, <1>6, <1>7 DEF OwedInv, Due

LEMMA RestartsOwedInv ==
  ASSUME HistoryInv, NEW k \in 0..Len(line), Restarts(k)
  PROVE  OwedInv'
<1>1. /\ IInv /\ OwedInv
      /\ line' = SubSeq(line, k + 1, Len(line)) /\ rx_buf' = <<>>
      /\ sound' = (sound /\ CleanCut(line', WholeAfter(k)))
      /\ owed' = IF sound' THEN WholeAfter(k) ELSE Nothing(Len(line'))
  BY DEF HistoryInv, Restarts, Restart
<1>2. line \in Seq(Byte) /\ Len(line) \in Nat /\ k \in Nat
  BY <1>1 DEF IInv, TypeOK
<1>3. /\ owed \in Seq(Due) /\ Len(owed) = Len(line) /\ Owes(line, owed, rx_buf)
      /\ sound => Aligned(line, owed, rx_buf)
  BY <1>1 DEF OwedInv, Due
<1>4. /\ line' \in Seq(Byte) /\ Len(line') = Len(line) - k
      /\ \A i \in 1..Len(line') : line'[i] = line[i + k]
  BY <1>1, <1>2
<1>5. CASE sound'
  <2>1. /\ sound /\ CleanCut(line', WholeAfter(k)) /\ owed' = WholeAfter(k)
        /\ Aligned(line, owed, rx_buf)
    BY <1>1, <1>3, <1>5
  <2>2. \A i \in 1..(Len(line) - k) : owed[i + k] \in Due
    <3>1. \A i \in 1..(Len(line) - k) : i + k \in 1..Len(owed)
      BY <1>2, <1>3
    <3> QED
      BY <1>3, <3>1, ElementOfSeq
  <2>3. /\ WholeAfter(k) \in Seq(Due)
        /\ Len(WholeAfter(k)) = Len(line) - k
        /\ \A i \in 1..(Len(line) - k) : WholeAfter(k)[i] =
             IF owed[i + k] # NoFrame /\ Size(owed[i + k]) <= i THEN owed[i + k]
             ELSE NoFrame
    <3>1. Len(line) - k \in Nat
      BY <1>2
    <3>2. NoFrame \in Due
      BY DEF Due
    <3> DEFINE due(i) == IF owed[i + k] # NoFrame /\ Size(owed[i + k]) <= i
                         THEN owed[i + k] ELSE NoFrame
    <3>3. \A i \in 1..(Len(line) - k) : due(i) \in Due
      BY <2>2, <3>2
    <3>4. WholeAfter(k) = [i \in 1..(Len(line) - k) |-> due(i)]
      BY DEF WholeAfter, Size
    <3> HIDE DEF due
    <3>5. /\ WholeAfter(k) \in Seq(Due) /\ Len(WholeAfter(k)) = Len(line) - k
          /\ \A i \in 1..(Len(line) - k) : WholeAfter(k)[i] = due(i)
      BY <3>1, <3>3, <3>4
    <3> QED
      BY <3>5 DEF due
  <2> DEFINE o2 == owed'
             l2 == line'
  <2>4. Owes(l2, o2, <<>>) /\ Aligned(l2, o2, <<>>)
    <3>1. l2 \in Seq(Byte) /\ o2 \in Seq(Due) /\ Len(o2) = Len(l2) /\ CleanCut(l2, o2)
      BY <1>4, <2>1, <2>3
    <3>2. \A i \in 1..Len(l2) :
            o2[i] = IF owed[i + k] # NoFrame /\ Size(owed[i + k]) <= i THEN owed[i + k]
                    ELSE NoFrame
      BY <1>4, <2>1, <2>3
    <3>3. Len(l2) = Len(line) - k /\ \A i \in 1..Len(l2) : l2[i] = line[i + k]
      BY <1>4
    <3>4. Aligned(line, owed, rx_buf)
      BY <2>1
    <3> HIDE DEF l2, o2
    <3> QED
      BY <1>2, <1>3, <3>1, <3>2, <3>3, <3>4, CutOwes
  <2> QED
    BY <1>1, <1>4, <2>1, <2>3, <2>4 DEF OwedInv, Due
<1>6. CASE ~sound'
  <2>1. owed' = Nothing(Len(line')) /\ Len(line') \in Nat
    BY <1>1, <1>4, <1>6
  <2>2. /\ owed' \in Seq(Due) /\ Len(owed') = Len(line')
        /\ \A i \in 1..Len(line') : owed'[i] = NoFrame
    BY <2>1, NothingType
  <2>3. Owes(line', owed', rx_buf')
    BY <2>2 DEF Owes
  <2> QED
    BY <1>6, <2>2, <2>3 DEF OwedInv, Due
<1> QED
  BY <1>5, <1>6

LEMMA HistoryNextIsNext == HistoryNext => Next
<1> SUFFICES ASSUME HistoryNext PROVE Next
  OBVIOUS
<1>1. CASE Reads
  BY <1>1 DEF Reads, Next
<1>2. ASSUME NEW f \in Frame, Writes(f) PROVE Next
  BY <1>2 DEF Writes, Next
<1>3. ASSUME NEW f \in Frame, NEW k \in 1..(Len(Packet(f)) - 1), Stops(f, k) PROVE Next
  BY <1>3 DEF Stops, Next
<1>4. ASSUME NEW f \in Frame, Receive(f) PROVE Next
  BY <1>4 DEF Next
<1>5. ASSUME NEW k \in 0..Len(line), Restarts(k) PROVE Next
  BY <1>5 DEF Restarts, Next
<1> QED
  BY <1>1, <1>2, <1>3, <1>4, <1>5 DEF HistoryNext

LEMMA HistoryNextInv == HistoryInv /\ [HistoryNext]_historyVars => HistoryInv'
<1> SUFFICES ASSUME HistoryInv, [HistoryNext]_historyVars PROVE HistoryInv'
  OBVIOUS
<1>1. IInv'
  BY HistoryNextIsNext, NextInv DEF HistoryInv, historyVars, vars
<1>2. OwedInv'
  <2>1. CASE Reads
    BY <2>1, ReadsOwedInv
  <2>2. ASSUME NEW f \in Frame, Writes(f) PROVE OwedInv'
    BY <2>2, WritesOwedInv
  <2>3. ASSUME NEW f \in Frame, NEW k \in 1..(Len(Packet(f)) - 1), Stops(f, k)
        PROVE  OwedInv'
    BY <2>3, StopsOwedInv
  <2>4. ASSUME NEW f \in Frame, Receive(f), UNCHANGED history PROVE OwedInv'
    BY <2>4 DEF Receive, history, HistoryInv, OwedInv
  <2>5. ASSUME NEW k \in 0..Len(line), Restarts(k) PROVE OwedInv'
    BY <2>5, RestartsOwedInv
  <2>6. CASE UNCHANGED historyVars
    BY <2>6 DEF historyVars, vars, history, HistoryInv, OwedInv
  <2> QED
    BY <2>1, <2>2, <2>3, <2>4, <2>5, <2>6 DEF HistoryNext
<1> QED
  BY <1>1, <1>2 DEF HistoryInv

LEMMA HistoryInvariance == HistorySpec => []HistoryInv
BY HistoryInitInv, HistoryNextInv, PTL DEF HistorySpec

(* The archive of a frame is of this frame alone.                          *)
LEMMA UnpackArchive ==
  ASSUME NEW f \in Frame PROVE Unpack(Archive[f]) = f
<1>1. Unpack(Archive[f]) \in Frame /\ Archive[Unpack(Archive[f])] = Archive[f]
  BY DEF Unpack
<1> QED
  BY <1>1, FrameAssumption

(* A frame that no fault touches is broadcast with its last byte, for any  *)
(* frames, on a line of any length: whatever was lost or cut off before it, *)
(* as long as the parser takes nothing in between for a beginning.         *)
THEOREM OwedFramesAreForwarded == HistorySpec => OwedIsForwarded
<1>1. ASSUME HistoryInv, Read, Head(owed) # NoFrame
      PROVE  tx' = Broadcasts(Head(owed)) /\ rx_buf' = <<>>
  <2>1. /\ line \in Seq(Byte) /\ rx_buf \in Seq(Byte) /\ line # <<>>
        /\ rx_buf' = After(rx_buf, line[1]) /\ Head(line) = line[1]
    BY <1>1, ReadStep DEF HistoryInv
  <2>2. owed \in Seq(Due) /\ Len(owed) = Len(line) /\ Owes(line, owed, rx_buf)
    BY <1>1 DEF HistoryInv, OwedInv, Due
  <2>3. Head(owed) = owed[1]
    BY <2>1, <2>2, EmptySeq
  <2> DEFINE f == owed[1]
  <2>4. f \in Frame /\ Holds(rx_buf, f, Size(f) - 1) /\ line[1] = Packet(f)[Size(f)]
    BY <1>1, <2>1, <2>2, <2>3, DueIsComplete
  <2> HIDE DEF f
  <2>5. Got = Packet(f) /\ Complete(Got) /\ Body(Got) = Archive[f] /\ rx_buf' = <<>>
    BY <2>1, <2>4, HoldsAll DEF Got
  <2>6. Forward
    <3>1. ~Collect /\ ~Skip
      BY <2>5 DEF Collect, Skip, Noise, Complete
    <3> QED
      BY <1>1, <3>1 DEF Read
  <2>7. tx' = Broadcasts(f)
    BY <2>4, <2>5, <2>6, UnpackArchive DEF Forward
  <2> QED
    BY <2>3, <2>5, <2>7 DEF f
<1>2. HistoryInv /\ [HistoryNext]_historyVars =>
        [Read /\ Head(owed) # NoFrame =>
           tx' = Broadcasts(Head(owed)) /\ rx_buf' = <<>>]_historyVars
  BY <1>1
<1> QED
  BY <1>2, HistoryInvariance, PTL DEF HistorySpec, OwedIsForwarded
-----------------------------------------------------------------------------
(* What was broadcast                                                      *)

(* Where the bytes s that the bridge has not done with, of the buffer and  *)
(* of the line, come from: byte i is the one at of[i] of the packet that   *)
(* the host began as its from[i]-th.  Only packets behind the first q of w *)
(* have bytes left; those of a packet follow each other, in the order of   *)
(* the packets, and only the first may lack its beginning.                 *)
Traces(s, w, q, from, of) ==
  /\ \A i \in 1..Len(s) : /\ from[i] \in Nat /\ q < from[i] /\ from[i] <= Len(w)
                          /\ of[i] \in Nat /\ 1 <= of[i] /\ of[i] <= Size(w[from[i]])
                          /\ s[i] = Packet(w[from[i]])[of[i]]
  /\ \A i, j \in 1..Len(s) : i < j => from[i] <= from[j]
  /\ \A i, j \in 1..Len(s) : i < j /\ from[i] = from[j] => of[j] = of[i] + (j - i)
  /\ \A i \in 1..Len(s) : of[i] <= i => from[i - of[i] + 1] = from[i]
  /\ \A i \in 1..Len(s) : of[i] > i => from[1] = from[i]

Traceable(s, w, q) ==
  \E from, of \in [1..Len(s) -> Nat] : Traces(s, w, q, from, of)

(* The first n bytes of s are gone.                                        *)
Dropped(s, t, n) == /\ n + Len(t) = Len(s)
                    /\ \A i \in 1..Len(t) : t[i] = s[i + n]

(* The bytes a are behind those of s.                                      *)
Grown(s, t, a) ==
  /\ Len(t) = Len(s) + Len(a)
  /\ \A i \in 1..Len(t) : t[i] = IF i <= Len(s) THEN s[i] ELSE a[i - Len(s)]

(* The broadcasts r come from the first q packets of w.                    *)
Relays(r, w, q) ==
  \E at \in [1..Len(r) -> 1..q] :
    /\ \A i \in 1..Len(r) : Broadcasts(w[at[i]]) = <<r[i]>>
    /\ \A i, j \in 1..Len(r) : i < j => at[i] < at[j]

(* The bytes that the bridge has not done with.                            *)
Pending == rx_buf \o line

Broadcast == [op : KnownOp, rest : Seq(Byte)]

(* What the bridge has broadcast comes from packets before those that it   *)
(* still has bytes of.                                                     *)
OrderInv ==
  /\ written \in Seq(Frame)
  /\ relayed \in Seq(Broadcast)
  /\ \E q \in 0..Len(written) : /\ Relays(relayed, written, q)
                                /\ Traceable(Pending, written, q)

(* What is left after a beginning is gone can be traced as before; q2 may  *)
(* be any packet that has no bytes left.                                   *)
LEMMA DropTraceable ==
  ASSUME NEW s \in Seq(Byte), NEW t \in Seq(Byte), NEW n \in Nat, Dropped(s, t, n),
         NEW w \in Seq(Frame), NEW q \in Nat, NEW q2 \in Nat,
         NEW from \in [1..Len(s) -> Nat], NEW of \in [1..Len(s) -> Nat],
         Traces(s, w, q, from, of),
         \A i \in 1..Len(s) : n < i => q2 < from[i]
  PROVE  Traceable(t, w, q2)
<1> DEFINE from2 == [i \in 1..Len(t) |-> from[i + n]]
           of2 == [i \in 1..Len(t) |-> of[i + n]]
<1>1. /\ Len(s) \in Nat /\ Len(t) \in Nat /\ n + Len(t) = Len(s)
      /\ \A i \in 1..Len(t) : t[i] = s[i + n] /\ i + n \in 1..Len(s)
  BY DEF Dropped
<1>2. from2 \in [1..Len(t) -> Nat] /\ of2 \in [1..Len(t) -> Nat]
  BY <1>1
<1>3. \A i \in 1..Len(t) : from2[i] = from[i + n] /\ of2[i] = of[i + n]
  OBVIOUS
<1> HIDE DEF from2, of2
<1>4. \A i \in 1..Len(t) :
        /\ from2[i] \in Nat /\ q2 < from2[i] /\ from2[i] <= Len(w)
        /\ of2[i] \in Nat /\ 1 <= of2[i] /\ of2[i] <= Size(w[from2[i]])
        /\ t[i] = Packet(w[from2[i]])[of2[i]]
  <2> TAKE i \in 1..Len(t)
  <2>1. i + n \in 1..Len(s) /\ n < i + n
    BY <1>1
  <2>2. /\ from[i + n] \in Nat /\ from[i + n] <= Len(w) /\ q2 < from[i + n]
        /\ of[i + n] \in Nat /\ 1 <= of[i + n] /\ of[i + n] <= Size(w[from[i + n]])
        /\ s[i + n] = Packet(w[from[i + n]])[of[i + n]]
    BY <2>1 DEF Traces
  <2> QED
    BY <1>1, <1>3, <2>2
<1>5. \A i, j \in 1..Len(s) : i <= j => from[i] <= from[j]
  BY DEF Traces
<1>6. \A i, j \in 1..Len(t) : i < j => from2[i] <= from2[j]
  BY <1>1, <1>3, <1>5
<1>7. \A i, j \in 1..Len(t) : i < j /\ from2[i] = from2[j] => of2[j] = of2[i] + (j - i)
  <2> SUFFICES ASSUME NEW i \in 1..Len(t), NEW j \in 1..Len(t), i < j,
                      from2[i] = from2[j]
               PROVE  of2[j] = of2[i] + (j - i)
    OBVIOUS
  <2>1. /\ i + n \in 1..Len(s) /\ j + n \in 1..Len(s) /\ i + n < j + n
        /\ (j + n) - (i + n) = j - i
    BY <1>1
  <2>2. of[j + n] = of[i + n] + ((j + n) - (i + n))
    BY <1>3, <2>1 DEF Traces
  <2> QED
    BY <1>3, <2>1, <2>2
<1>8. ASSUME NEW i \in 1..Len(t)
      PROVE  /\ of2[i] <= i => from2[i - of2[i] + 1] = from2[i]
             /\ of2[i] > i => from2[1] = from2[i]
  <2> DEFINE k == i + n
             b == k - of[k] + 1
  <2>1. /\ k \in 1..Len(s) /\ of2[i] = of[k] /\ from2[i] = from[k]
        /\ of[k] \in Nat /\ 1 <= of[k] /\ from[k] \in Nat
        /\ k = i + n /\ b = k - of[k] + 1
    BY <1>1, <1>3, <1>4
  <2> HIDE DEF k, b
  <2>2. /\ of[k] <= k => from[b] = from[k]
        /\ of[k] > k => from[1] = from[k]
    BY <2>1 DEF Traces
  <2>3. CASE of2[i] <= i
    <3> DEFINE c == i - of2[i] + 1
    <3>1. /\ c = i - of[k] + 1 /\ of[k] <= i /\ 1 <= of[k] /\ of[k] \in Nat
          /\ i \in Nat /\ i <= Len(t)
      BY <2>1, <2>3
    <3> HIDE DEF c
    <3>2. c \in 1..Len(t)
      <4>1. c \in Nat /\ 1 <= c /\ c <= i
        BY <3>1
      <4> QED
        BY <1>1, <3>1, <4>1
    <3>3. c + n = b /\ of[k] <= k
      <4> DEFINE x == of[k]
      <4>1. /\ x \in Nat /\ x <= i /\ i \in Nat /\ c = i - x + 1
            /\ k = i + n /\ b = k - x + 1
        BY <2>1, <3>1
      <4> HIDE DEF x
      <4>2. c + n = b /\ x <= k
        BY <4>1
      <4> QED
        BY <4>2 DEF x
    <3>4. from2[c] = from[b]
      BY <1>3, <3>2, <3>3
    <3> QED
      BY <2>1, <2>2, <2>3, <3>3, <3>4 DEF c
  <2>4. CASE of2[i] > i
    <3>1. 1 \in 1..Len(t) /\ 1 + n \in 1..Len(s) /\ 1 + n <= k
      <4>1. i \in Nat /\ 1 <= i /\ i <= Len(t) /\ k = i + n
        BY <2>1
      <4>2. 1 <= Len(t) /\ 1 + n <= Len(s)
        BY <1>1, <4>1
      <4> QED
        BY <1>1, <4>1, <4>2
    <3>2. from2[1] = from[1 + n]
      BY <1>3, <3>1
    <3>3. from[1 + n] <= from[k] /\ from[1 + n] \in Nat
      BY <1>5, <2>1, <3>1
    <3>4. from[k] <= from[1 + n]
      <4>1. CASE of[k] <= k
        <5>1. b \in 1..Len(s) /\ b <= 1 + n
          BY <2>1, <2>4, <3>1, <4>1
        <5>2. from[b] <= from[1 + n]
          BY <1>5, <3>1, <5>1
        <5> QED
          BY <2>2, <4>1, <5>2
      <4>2. CASE of[k] > k
        <5>1. 1 \in 1..Len(s) /\ 1 <= 1 + n
          BY <1>1, <3>1
        <5>2. from[1] <= from[1 + n]
          BY <1>5, <3>1, <5>1
        <5> QED
          BY <2>2, <4>2, <5>2
      <4> QED
        BY <2>1, <4>1, <4>2
    <3> QED
      BY <2>1, <2>4, <3>2, <3>3, <3>4
  <2> QED
    BY <2>1, <2>3, <2>4
<1>9. Traces(t, w, q2, from2, of2)
  BY <1>4, <1>6, <1>7, <1>8 DEF Traces
<1> QED
  BY <1>2, <1>9 DEF Traceable

(* Bytes of a packet that the host begins are traced to this packet.       *)
LEMMA AppendTraceable ==
  ASSUME NEW s \in Seq(Byte), NEW t \in Seq(Byte), NEW a \in Seq(Byte), Grown(s, t, a),
         NEW w \in Seq(Frame), NEW f \in Frame, NEW q \in Nat,
         q <= Len(w), Traceable(s, w, q),
         Len(a) <= Size(f), \A j \in 1..Len(a) : a[j] = Packet(f)[j]
  PROVE  Traceable(t, Append(w, f), q)
<1>1. PICK from \in [1..Len(s) -> Nat], of \in [1..Len(s) -> Nat] :
        Traces(s, w, q, from, of)
  BY DEF Traceable
<1> DEFINE v == Append(w, f)
           from2 == [i \in 1..Len(t) |-> IF i <= Len(s) THEN from[i] ELSE Len(w) + 1]
           of2 == [i \in 1..Len(t) |-> IF i <= Len(s) THEN of[i] ELSE i - Len(s)]
<1>2. /\ Len(t) = Len(s) + Len(a)
      /\ \A i \in 1..Len(t) : t[i] = IF i <= Len(s) THEN s[i] ELSE a[i - Len(s)]
  BY DEF Grown
<1>3. /\ Len(v) = Len(w) + 1 /\ v[Len(w) + 1] = f
      /\ \A x \in 1..Len(w) : v[x] = w[x]
  BY AppendProperties
<1>4. Len(s) \in Nat /\ Len(a) \in Nat /\ Len(w) \in Nat /\ Len(t) \in Nat
  BY <1>2
<1>5. from2 \in [1..Len(t) -> Nat] /\ of2 \in [1..Len(t) -> Nat]
  <2>1. \A i \in 1..Len(t) : i <= Len(s) => i \in 1..Len(s)
    BY <1>4
  <2>2. \A i \in 1..Len(t) : ~(i <= Len(s)) => i - Len(s) \in Nat
    BY <1>4
  <2> QED
    BY <1>4, <2>1, <2>2
<1>6. \A i \in 1..Len(t) :
        /\ i <= Len(s) => from2[i] = from[i] /\ of2[i] = of[i] /\ i \in 1..Len(s)
        /\ ~(i <= Len(s)) => from2[i] = Len(w) + 1 /\ of2[i] = i - Len(s)
  BY <1>4
<1> HIDE DEF from2, of2, v
<1>7. \A i \in 1..Len(t) :
        /\ from2[i] \in Nat /\ q < from2[i] /\ from2[i] <= Len(v)
        /\ of2[i] \in Nat /\ 1 <= of2[i] /\ of2[i] <= Size(v[from2[i]])
        /\ t[i] = Packet(v[from2[i]])[of2[i]]
  <2> TAKE i \in 1..Len(t)
  <2>1. CASE i <= Len(s)
    <3>1. /\ from[i] \in Nat /\ q < from[i] /\ from[i] <= Len(w)
          /\ of[i] \in Nat /\ 1 <= of[i] /\ of[i] <= Size(w[from[i]])
          /\ s[i] = Packet(w[from[i]])[of[i]]
      BY <1>1, <1>6, <2>1 DEF Traces
    <3>2. from[i] \in 1..Len(w) /\ v[from[i]] = w[from[i]]
      BY <1>3, <1>4, <3>1
    <3>3. from2[i] = from[i] /\ of2[i] = of[i] /\ t[i] = s[i]
      BY <1>2, <1>6, <2>1
    <3> QED
      BY <1>3, <1>4, <3>1, <3>2, <3>3
  <2>2. CASE ~(i <= Len(s))
    <3>1. from2[i] = Len(w) + 1 /\ of2[i] = i - Len(s) /\ t[i] = a[i - Len(s)]
      BY <1>2, <1>6, <2>2
    <3>2. i - Len(s) \in 1..Len(a)
      BY <1>2, <1>4, <2>2
    <3>3. Size(f) \in Nat
      BY PacketFacts
    <3> QED
      BY <1>3, <1>4, <3>1, <3>2, <3>3
  <2> QED
    BY <2>1, <2>2
<1>8. \A i, j \in 1..Len(t) : i < j => from2[i] <= from2[j]
  <2> SUFFICES ASSUME NEW i \in 1..Len(t), NEW j \in 1..Len(t), i < j
               PROVE  from2[i] <= from2[j]
    OBVIOUS
  <2>1. CASE j <= Len(s)
    <3>1. i <= Len(s)
      BY <1>4, <2>1
    <3>2. /\ from2[i] = from[i] /\ i \in 1..Len(s)
          /\ from2[j] = from[j] /\ j \in 1..Len(s)
      BY <1>6, <2>1, <3>1
    <3> QED
      BY <1>1, <3>2 DEF Traces
  <2>2. CASE ~(j <= Len(s))
    <3>1. from2[j] = Len(w) + 1 /\ from2[i] <= Len(v)
      BY <1>6, <1>7, <2>2
    <3> QED
      BY <1>3, <3>1
  <2> QED
    BY <2>1, <2>2
<1>9. \A i, j \in 1..Len(t) : i < j /\ from2[i] = from2[j] => of2[j] = of2[i] + (j - i)
  <2> SUFFICES ASSUME NEW i \in 1..Len(t), NEW j \in 1..Len(t), i < j,
                      from2[i] = from2[j]
               PROVE  of2[j] = of2[i] + (j - i)
    OBVIOUS
  <2>1. CASE j <= Len(s)
    <3>1. i <= Len(s)
      BY <1>4, <2>1
    <3>2. /\ from2[i] = from[i] /\ of2[i] = of[i] /\ i \in 1..Len(s)
          /\ from2[j] = from[j] /\ of2[j] = of[j] /\ j \in 1..Len(s)
      BY <1>6, <2>1, <3>1
    <3> QED
      BY <1>1, <3>2 DEF Traces
  <2>2. CASE ~(j <= Len(s)) /\ i <= Len(s)
    <3>1. from2[j] = Len(w) + 1 /\ from2[i] = from[i] /\ i \in 1..Len(s)
      BY <1>6, <2>2
    <3>2. from[i] <= Len(w) /\ from[i] \in Nat
      BY <1>1, <3>1 DEF Traces
    <3>3. from2[i] = from2[j]
      OBVIOUS
    <3> QED
      BY <1>4, <3>1, <3>2, <3>3
  <2>3. CASE ~(i <= Len(s))
    <3>1. ~(j <= Len(s))
      BY <1>4, <2>3
    <3>2. of2[j] = j - Len(s) /\ of2[i] = i - Len(s)
      BY <1>6, <2>3, <3>1
    <3>3. (j - Len(s)) = (i - Len(s)) + (j - i)
      BY <1>4
    <3> QED
      BY <3>2, <3>3
  <2> QED
    BY <1>4, <2>1, <2>2, <2>3
<1>10. ASSUME NEW i \in 1..Len(t)
       PROVE  /\ of2[i] <= i => from2[i - of2[i] + 1] = from2[i]
              /\ of2[i] > i => from2[1] = from2[i]
  <2>1. CASE i <= Len(s)
    <3>1. /\ i \in 1..Len(s) /\ from2[i] = from[i] /\ of2[i] = of[i]
          /\ of[i] \in Nat /\ 1 <= of[i]
          /\ of[i] <= i => from[i - of[i] + 1] = from[i]
          /\ of[i] > i => from[1] = from[i]
      BY <1>1, <1>6, <2>1 DEF Traces
    <3>2. CASE of[i] <= i
      <4>1. i - of[i] + 1 \in 1..Len(t) /\ i - of[i] + 1 <= Len(s)
        BY <1>4, <2>1, <3>1, <3>2
      <4> QED
        BY <1>6, <3>1, <3>2, <4>1
    <3>3. CASE of[i] > i
      <4>1. 1 \in 1..Len(t) /\ 1 <= Len(s)
        BY <1>4, <2>1
      <4>2. from2[1] = from[1]
        BY <1>6, <4>1
      <4> QED
        BY <3>1, <3>3, <4>2
    <3> QED
      BY <3>1, <3>2, <3>3
  <2>2. CASE ~(i <= Len(s))
    <3>1. from2[i] = Len(w) + 1 /\ of2[i] = i - Len(s)
      BY <1>6, <2>2
    <3>2. /\ i - of2[i] + 1 = Len(s) + 1 /\ Len(s) + 1 \in 1..Len(t)
          /\ ~(Len(s) + 1 <= Len(s)) /\ of2[i] <= i
      BY <1>4, <2>2, <3>1
    <3>3. from2[Len(s) + 1] = Len(w) + 1
      BY <1>6, <3>2
    <3> QED
      BY <3>1, <3>2, <3>3
  <2> QED
    BY <2>1, <2>2
<1>11. Traces(t, v, q, from2, of2)
  BY <1>7, <1>8, <1>9, <1>10 DEF Traces
<1> QED
  BY <1>5, <1>11 DEF Traceable, v

(* Up to the next byte that begins a packet, the bytes behind byte a are   *)
(* those behind it in its packet.                                          *)
LEMMA SamePacket ==
  ASSUME NEW s \in Seq(Byte), NEW w, NEW q, NEW from, NEW of,
         Traces(s, w, q, from, of)
  PROVE  \A a, i \in 1..Len(s) :
           a <= i /\ (\A x \in 1..Len(s) : a < x /\ x <= i => of[x] # 1)
             => from[i] = from[a] /\ of[i] = of[a] + (i - a)
<1> SUFFICES ASSUME NEW a \in 1..Len(s), NEW i \in 1..Len(s), a <= i,
                    \A x \in 1..Len(s) : a < x /\ x <= i => of[x] # 1
             PROVE  from[i] = from[a] /\ of[i] = of[a] + (i - a)
  OBVIOUS
<1>1. /\ from[i] \in Nat /\ of[i] \in Nat /\ 1 <= of[i]
      /\ from[a] \in Nat /\ of[a] \in Nat
  BY DEF Traces
<1>2. \A x, y \in 1..Len(s) : x <= y => from[x] <= from[y]
  BY DEF Traces
<1>3. from[i] <= from[a]
  <2>1. CASE of[i] <= i
    <3> DEFINE b == i - of[i] + 1
    <3>1. b \in 1..Len(s) /\ b <= i /\ b = i - of[i] + 1
      <4>1. b \in Nat /\ 1 <= b /\ b <= i
        BY <1>1, <2>1
      <4> QED
        BY <4>1
    <3>2. from[b] = from[i]
      BY <2>1 DEF Traces
    <3> HIDE DEF b
    <3>3. of[b] = 1
      <4>1. of[b] \in Nat
        BY <3>1 DEF Traces
      <4>2. CASE b < i
        <5>1. of[i] = of[b] + (i - b)
          BY <3>1, <3>2, <4>2 DEF Traces
        <5>2. i - b = of[i] - 1
          BY <1>1, <3>1
        <5>3. of[i] = of[b] + (of[i] - 1)
          BY <5>1, <5>2
        <5> QED
          BY <1>1, <4>1, <5>3
      <4>3. CASE b = i
        BY <1>1, <3>1, <4>3
      <4> QED
        BY <3>1, <4>2, <4>3
    <3>4. b <= a
      BY <3>1, <3>3
    <3>5. from[b] <= from[a]
      BY <1>2, <3>1, <3>4
    <3> QED
      BY <3>2, <3>5
  <2>2. CASE of[i] > i
    <3>1. from[1] = from[i]
      BY <2>2 DEF Traces
    <3>2. 1 \in 1..Len(s) /\ 1 <= a
      OBVIOUS
    <3>3. from[1] <= from[a]
      BY <1>2, <3>2
    <3> QED
      BY <3>1, <3>3
  <2> QED
    BY <1>1, <2>1, <2>2
<1>4. from[i] = from[a]
  BY <1>1, <1>2, <1>3
<1>5. of[i] = of[a] + (i - a)
  <2>1. CASE a < i
    BY <1>4, <2>1 DEF Traces
  <2>2. CASE a = i
    BY <1>1, <2>2
  <2> QED
    BY <2>1, <2>2
<1> QED
  BY <1>4, <1>5

(* If no packet can be pieced together from others, one that the parser    *)
(* finds is a packet that the host began, and all of it.                   *)
LEMMA FoundIsWritten ==
  ASSUME Unmistakable,
         NEW s \in Seq(Byte), NEW w \in Seq(Frame), NEW q \in Nat, NEW from, NEW of,
         Traces(s, w, q, from, of),
         NEW f \in Frame, Size(f) <= Len(s),
         \A i \in 1..Size(f) : s[i] = Packet(f)[i]
  PROVE  /\ from[1] \in Nat /\ q < from[1] /\ from[1] <= Len(w)
         /\ w[from[1]] = f
         /\ \A i \in 1..Len(s) : Size(f) < i => from[1] < from[i]
<1>1. \A a, i \in 1..Len(s) :
        a <= i /\ (\A x \in 1..Len(s) : a < x /\ x <= i => of[x] # 1)
          => from[i] = from[a] /\ of[i] = of[a] + (i - a)
  BY SamePacket
<1> DEFINE n == Size(f)
           cuts == {b \in 1..(n - 1) : of[b + 1] = 1}
<1>2. n \in Nat /\ n >= 4 /\ Len(s) \in Nat /\ n <= Len(s) /\ n = Len(Packet(f))
  <2>1. Size(f) \in Nat /\ Size(f) = 4 + Len(Archive[f]) /\ Len(Archive[f]) \in Nat
    BY PacketFacts, FrameAssumption
  <2> QED
    BY <2>1 DEF Size
<1>3. \A i \in 1..Len(s) :
        /\ from[i] \in Nat /\ q < from[i] /\ from[i] <= Len(w)
        /\ of[i] \in Nat /\ 1 <= of[i] /\ of[i] <= Size(w[from[i]])
        /\ w[from[i]] \in Frame
        /\ s[i] = Packet(w[from[i]])[of[i]]
  <2> TAKE i \in 1..Len(s)
  <2>1. /\ from[i] \in Nat /\ q < from[i] /\ from[i] <= Len(w)
        /\ of[i] \in Nat /\ 1 <= of[i] /\ of[i] <= Size(w[from[i]])
        /\ s[i] = Packet(w[from[i]])[of[i]]
    BY DEF Traces
  <2>2. from[i] \in 1..Len(w)
    BY <2>1
  <2>3. w[from[i]] \in Frame
    BY <2>2, ElementOfSeq
  <2> QED
    BY <2>1, <2>3
<1>4. \A i \in 1..n : i \in 1..Len(s) /\ s[i] = Packet(f)[i]
  BY <1>2
<1>5. cuts \in SUBSET (1..(n - 1))
  OBVIOUS
<1>6. \A b \in cuts : b \in 1..(n - 1) /\ of[b + 1] = 1
  OBVIOUS
<1>7. \A x \in 2..n : of[x] = 1 => x - 1 \in cuts
  <2> SUFFICES ASSUME NEW x \in 2..n, of[x] = 1 PROVE x - 1 \in cuts
    OBVIOUS
  <2>1. x - 1 \in 1..(n - 1) /\ (x - 1) + 1 = x
    BY <1>2
  <2> QED
    BY <2>1
<1> HIDE DEF cuts, n
<1>8. ASSUME NEW b \in 0..(n - 1), NEW j \in 1..(n - b),
             \A c \in cuts : ~(b < c /\ c < b + j)
      PROVE  /\ b + 1 \in 1..Len(s) /\ b + j \in 1..Len(s) /\ b + j \in 1..n
             /\ from[b + j] = from[b + 1] /\ of[b + j] = of[b + 1] + (j - 1)
  <2> DEFINE lo == b + 1
             hi == b + j
  <2>1. b \in Nat /\ j \in Nat /\ 1 <= j /\ b + j <= n
    BY <1>2
  <2>2. /\ lo \in 1..Len(s) /\ hi \in 1..Len(s) /\ hi \in 1..n
        /\ lo <= hi /\ hi - lo = j - 1
    BY <1>2, <2>1
  <2>3. ASSUME NEW x \in 1..Len(s), lo < x, x <= hi PROVE of[x] # 1
    <3>1. x \in 2..n /\ b < x - 1 /\ x - 1 < b + j
      BY <1>2, <2>1, <2>3
    <3>2. x - 1 \notin cuts
      BY <1>8, <3>1
    <3> QED
      BY <1>7, <3>1, <3>2
  <2> HIDE DEF lo, hi
  <2>4. from[hi] = from[lo] /\ of[hi] = of[lo] + (hi - lo)
    BY <1>1, <2>2, <2>3
  <2> QED
    BY <2>2, <2>4 DEF lo, hi
<1> DEFINE g(b) == w[from[b + 1]]
           d(b) == of[b + 1] - 1
<1>9. \A b \in 0..(n - 1) :
        /\ b + 1 \in 1..Len(s)
        /\ g(b) \in Frame /\ d(b) \in 0..Len(Packet(g(b)))
  <2> TAKE b \in 0..(n - 1)
  <2>1. b + 1 \in 1..Len(s)
    BY <1>2
  <2>2. /\ w[from[b + 1]] \in Frame
        /\ of[b + 1] \in Nat /\ 1 <= of[b + 1] /\ of[b + 1] <= Size(w[from[b + 1]])
    BY <1>3, <2>1
  <2>3. Size(w[from[b + 1]]) \in Nat
    BY <2>2, PacketFacts
  <2> QED
    BY <2>1, <2>2, <2>3 DEF Size
<1>10. ASSUME NEW b \in 0..(n - 1), NEW j \in 1..(n - b),
              \A c \in cuts : ~(b < c /\ c < b + j)
       PROVE  j + d(b) <= Len(Packet(g(b))) /\ Packet(f)[b + j] = Packet(g(b))[j + d(b)]
  <2>1. /\ b + 1 \in 1..Len(s) /\ b + j \in 1..Len(s) /\ b + j \in 1..n
        /\ from[b + j] = from[b + 1] /\ of[b + j] = of[b + 1] + (j - 1)
    BY <1>8, <1>10
  <2>2. of[b + 1] \in Nat
    BY <1>3, <2>1
  <2>3. of[b + j] = j + d(b)
    BY <2>1, <2>2
  <2>4. /\ of[b + j] <= Size(g(b))
        /\ s[b + j] = Packet(g(b))[of[b + j]]
    BY <1>3, <2>1
  <2>5. s[b + j] = Packet(f)[b + j]
    BY <1>4, <2>1
  <2> QED
    BY <2>3, <2>4, <2>5 DEF Size
<1>11. \A b \in 0..(n - 1) : ComesFrom(f, b, cuts, g(b), d(b))
  <2>1. Len(Packet(f)) = n
    BY <1>2
  <2> HIDE DEF g, d
  <2> QED
    BY <1>10, <2>1 DEF ComesFrom
<1>12. \A b \in cuts : \E h \in Frame : ComesFrom(f, b, cuts, h, 0)
  <2> TAKE b \in cuts
  <2>1. b \in 0..(n - 1) /\ d(b) = 0
    BY <1>2, <1>5, <1>6
  <2> HIDE DEF g, d
  <2>2. g(b) \in Frame /\ ComesFrom(f, b, cuts, g(b), 0)
    BY <1>9, <1>11, <2>1
  <2> QED
    BY <2>2
<1>13. cuts = {} /\ d(0) = 0
  <2>1. 0 \in 0..(n - 1)
    BY <1>2
  <2> HIDE DEF g, d
  <2>2. /\ g(0) \in Frame /\ d(0) \in 0..Len(Packet(g(0)))
        /\ ComesFrom(f, 0, cuts, g(0), d(0))
    BY <1>9, <1>11, <2>1
  <2>3. cuts \in SUBSET (1..(Len(Packet(f)) - 1))
    BY <1>2, <1>5
  <2> QED
    BY <1>12, <2>2, <2>3 DEF Unmistakable
<1> DEFINE h == w[from[1]]
<1>14. /\ 1 \in 1..Len(s) /\ of[1] = 1 /\ h \in Frame
       /\ from[1] \in Nat /\ q < from[1] /\ from[1] <= Len(w)
  <2>1. 1 \in 1..Len(s)
    BY <1>2
  <2>2. of[1] - 1 = 0
    BY <1>13
  <2> QED
    BY <1>3, <2>1, <2>2
<1>15. \A j \in 1..n : /\ from[j] = from[1] /\ of[j] = j
                       /\ j <= Size(h) /\ Packet(f)[j] = Packet(h)[j]
  <2> TAKE j \in 1..n
  <2>1. 0 \in 0..(n - 1) /\ j \in 1..(n - 0) /\ 0 + j = j /\ 0 + 1 = 1
    BY <1>2
  <2>2. from[j] = from[1] /\ of[j] = of[1] + (j - 1)
    BY <1>8, <1>13, <2>1
  <2>3. of[j] = j
    BY <1>14, <2>2
  <2>4. j \in 1..Len(s) /\ s[j] = Packet(f)[j]
    BY <1>4
  <2> QED
    BY <1>3, <2>2, <2>3, <2>4
<1> HIDE DEF h, g, d
<1>16. h = f
  <2>1. /\ Packet(f) \in Seq(Byte) /\ Len(Packet(f)) = 4 + Len(Archive[f])
        /\ Packet(f)[3] * 256 + Packet(f)[4] = Len(Archive[f])
        /\ SubSeq(Packet(f), 5, Len(Packet(f))) = Archive[f]
    BY PacketFacts DEF Size
  <2>2. /\ Packet(h) \in Seq(Byte) /\ Len(Packet(h)) = 4 + Len(Archive[h])
        /\ Packet(h)[3] * 256 + Packet(h)[4] = Len(Archive[h])
        /\ SubSeq(Packet(h), 5, Len(Packet(h))) = Archive[h]
    BY <1>14, PacketFacts DEF Size
  <2>3. Packet(f)[3] = Packet(h)[3] /\ Packet(f)[4] = Packet(h)[4]
    <3>1. 3 \in 1..n /\ 4 \in 1..n
      BY <1>2
    <3> QED
      BY <1>15, <3>1
  <2>4. Len(Packet(f)) = Len(Packet(h))
    <3>1. Packet(f)[3] * 256 + Packet(f)[4] = Packet(h)[3] * 256 + Packet(h)[4]
      BY <2>3
    <3>2. Len(Archive[f]) = Len(Archive[h])
      BY <2>1, <2>2, <3>1
    <3> QED
      BY <2>1, <2>2, <3>2
  <2>5. Packet(f) = Packet(h)
    BY <1>2, <1>15, <2>1, <2>2, <2>4, SeqEqual
  <2> QED
    BY <1>14, <2>1, <2>2, <2>5, FrameAssumption
<1>17. ASSUME NEW i \in 1..Len(s), n < i PROVE from[1] < from[i]
  <2>1. from[i] \in Nat /\ from[1] <= from[i]
    <3>1. 1 < i
      BY <1>2, <1>17
    <3> QED
      BY <1>3, <1>14, <3>1 DEF Traces
  <2>2. ASSUME from[i] = from[1] PROVE FALSE
    <3>1. n \in 1..n /\ n \in 1..Len(s) /\ from[n] = from[1] /\ of[n] = n
      BY <1>2, <1>15
    <3>2. of[i] = of[n] + (i - n)
      BY <1>17, <2>2, <3>1 DEF Traces
    <3>3. of[i] <= Size(h)
      BY <1>3, <2>2 DEF h
    <3> QED
      BY <1>2, <1>16, <1>17, <3>1, <3>2, <3>3 DEF n
  <2> QED
    BY <1>14, <2>1, <2>2
<1> QED
  BY <1>14, <1>16, <1>17 DEF n, h

(* What the parser drops of the buffer, it drops of what is pending.       *)
LEMMA TakenDropped ==
  ASSUME rx_buf \in Seq(Byte), line \in Seq(Byte), line # <<>>,
         rx_buf' \in Seq(Byte), line' \in Seq(Byte), line' = Tail(line),
         Got \in Seq(Byte), Got = Append(rx_buf, line[1]),
         NEW n \in Nat, Dropped(Got, rx_buf', n)
  PROVE  /\ Len(Got) <= Len(Pending)
         /\ \A i \in 1..Len(Got) : Pending[i] = Got[i]
         /\ Dropped(Pending, Pending', n)
<1> DEFINE b == rx_buf
           l == line
           got == Got
           r == rx_buf'
           t == line'
<1>1. /\ b \in Seq(Byte) /\ l \in Seq(Byte) /\ l # <<>>
      /\ r \in Seq(Byte) /\ t \in Seq(Byte) /\ t = Tail(l)
      /\ got \in Seq(Byte) /\ got = Append(b, l[1]) /\ Dropped(got, r, n)
      /\ Pending = b \o l /\ Pending' = r \o t
  BY DEF Pending
<1> HIDE DEF b, l, got, r, t
<1>2. /\ Len(t) = Len(l) - 1
      /\ \A i \in 1..Len(t) : t[i] = l[i + 1]
  BY <1>1, HeadTailProperties
<1>3. Len(l) >= 1 /\ Len(l) \in Nat /\ Len(b) \in Nat /\ Len(r) \in Nat
      /\ Len(t) \in Nat
  BY <1>1, <1>2, EmptySeq
<1>4. l[1] \in Byte
  <2>1. 1 \in 1..Len(l)
    BY <1>3
  <2> QED
    BY <1>1, <2>1, ElementOfSeq
<1>5. /\ Len(got) = Len(b) + 1
      /\ \A i \in 1..Len(b) : got[i] = b[i]
      /\ got[Len(b) + 1] = l[1]
  BY <1>1, <1>4, AppendProperties
<1>6. /\ Len(b \o l) = Len(b) + Len(l)
      /\ \A i \in 1..(Len(b) + Len(l)) :
           (b \o l)[i] = IF i <= Len(b) THEN b[i] ELSE l[i - Len(b)]
  BY <1>1, ConcatProperties
<1>7. /\ Len(r \o t) = Len(r) + Len(t)
      /\ \A i \in 1..(Len(r) + Len(t)) :
           (r \o t)[i] = IF i <= Len(r) THEN r[i] ELSE t[i - Len(r)]
  <2>1. r \in Seq(Byte) /\ t \in Seq(Byte)
    BY <1>1
  <2> QED
    BY <2>1, ConcatProperties
<1>8. n + Len(r) = Len(got) /\ \A i \in 1..Len(r) : r[i] = got[i + n]
  BY <1>1 DEF Dropped
<1> DEFINE nb == Len(b)
           nl == Len(l)
           nr == Len(r)
           nt == Len(t)
           ng == Len(got)
           all == b \o l
           rest == r \o t
<1>9. /\ nb \in Nat /\ nl \in Nat /\ nr \in Nat /\ nt \in Nat /\ ng \in Nat
      /\ nt = nl - 1 /\ ng = nb + 1 /\ n + nr = ng
      /\ n \in Nat /\ nl >= 1
      /\ Len(rest) = nr + nt /\ Len(all) = nb + nl
  BY <1>2, <1>3, <1>5, <1>6, <1>7, <1>8
<1>10. /\ \A i \in 1..nb : got[i] = b[i]
       /\ got[nb + 1] = l[1]
       /\ \A i \in 1..nt : t[i] = l[i + 1]
       /\ \A i \in 1..nr : r[i] = got[i + n]
       /\ \A i \in 1..(nb + nl) : all[i] = IF i <= nb THEN b[i] ELSE l[i - nb]
       /\ \A i \in 1..(nr + nt) : rest[i] = IF i <= nr THEN r[i] ELSE t[i - nr]
  <2>1. \A i \in 1..nb : got[i] = b[i]
    BY <1>5
  <2>2. got[nb + 1] = l[1]
    BY <1>5
  <2>3. \A i \in 1..nt : t[i] = l[i + 1]
    BY <1>2
  <2>4. \A i \in 1..nr : r[i] = got[i + n]
    BY <1>8
  <2>5. \A i \in 1..(nb + nl) : all[i] = IF i <= nb THEN b[i] ELSE l[i - nb]
    BY <1>6
  <2>6. \A i \in 1..(nr + nt) : rest[i] = IF i <= nr THEN r[i] ELSE t[i - nr]
    BY <1>7
  <2> QED
    BY <2>1, <2>2, <2>3, <2>4, <2>5, <2>6, Zenon
<1> HIDE DEF nb, nl, nr, nt, ng, all, rest
<1>11. \A i \in 1..ng : all[i] = got[i]
  <2> TAKE i \in 1..ng
  <2>1. CASE i <= nb
    <3>1. i \in 1..nb /\ i \in 1..(nb + nl)
      BY <1>9, <2>1
    <3> QED
      BY <1>10, <2>1, <3>1
  <2>2. CASE ~(i <= nb)
    <3>1. i = nb + 1 /\ i \in 1..(nb + nl) /\ i - nb = 1
      BY <1>3, <1>9, <2>2 DEF nl
    <3> QED
      BY <1>10, <2>2, <3>1
  <2> QED
    BY <2>1, <2>2
<1>12. ng <= nb + nl /\ n + (nr + nt) = nb + nl
  BY <1>9
<1>13. ASSUME NEW i \in 1..(nr + nt) PROVE rest[i] = all[i + n]
  <2>1. CASE i <= nr
    <3>1. i \in 1..nr /\ i + n \in 1..ng
      BY <1>9, <2>1
    <3> QED
      BY <1>10, <1>11, <2>1, <3>1
  <2>2. CASE ~(i <= nr)
    <3>1. /\ i - nr \in 1..nt /\ i + n \in 1..(nb + nl) /\ ~(i + n <= nb)
          /\ (i + n) - nb = (i - nr) + 1
      BY <1>9, <2>2
    <3>2. rest[i] = l[(i - nr) + 1]
      BY <1>10, <2>2, <3>1
    <3> QED
      BY <1>10, <3>1, <3>2
  <2> QED
    BY <2>1, <2>2
<1> QED
  BY <1>1, <1>9, <1>11, <1>12, <1>13 DEF Dropped, nr, ng, got, all, rest

LEMMA SameDigits ==
  ASSUME NEW a \in Byte, NEW b \in Byte, NEW c \in Byte, NEW d \in Byte,
         a * 256 + b = c * 256 + d
  PROVE  a = c /\ b = d
BY DEF Byte

(* A buffer that is complete, without a byte too many, and of which the    *)
(* body is the archive of a frame, is the packet of this frame.            *)
LEMMA BodyOfPacket ==
  ASSUME NEW got \in Seq(Byte), Complete(got), Len(got) = 4 + LenOf(got),
         NEW f \in Frame, Body(got) = Archive[f]
  PROVE  got = Packet(f)
<1> DEFINE n == Len(Archive[f])
           p == Packet(f)
<1>1. /\ p \in Seq(Byte) /\ Len(p) = 4 + n
      /\ p[1] = Magic[1] /\ p[2] = Magic[2] /\ p[3] * 256 + p[4] = n
      /\ SubSeq(p, 5, Len(p)) = Archive[f]
  BY PacketFacts DEF Size
<1>2. /\ Len(got) >= 4 /\ got[1] = Magic[1] /\ got[2] = Magic[2]
      /\ LenOf(got) = got[3] * 256 + got[4] /\ LenOf(got) \in Nat
      /\ SubSeq(got, 5, Len(got)) = Archive[f]
  <2>1. LenOf(got) \in Nat
    BY LengthType DEF Complete, IsPacket
  <2> QED
    BY <2>1 DEF Complete, IsPacket, LenOf, Body
<1>3. Archive[f] \in Seq(Byte) /\ n \in Nat
  BY FrameAssumption
<1> HIDE DEF n, p
<1>4. Len(got) = Len(p)
  <2>1. Len(SubSeq(got, 5, Len(got))) = Len(got) - 4
    BY <1>2
  <2> QED
    BY <1>1, <1>2, <1>3, <2>1 DEF n
<1>5. got[3] = p[3] /\ got[4] = p[4]
  <2>1. got[3] \in Byte /\ got[4] \in Byte /\ p[3] \in Byte /\ p[4] \in Byte
    BY <1>1, <1>2, <1>4
  <2>2. LenOf(got) = n
    BY <1>1, <1>2, <1>3, <1>4
  <2>3. got[3] * 256 + got[4] = p[3] * 256 + p[4]
    BY <1>1, <1>2, <2>2
  <2> DEFINE a == got[3]
             b == got[4]
             c == p[3]
             d == p[4]
  <2>4. /\ a \in Byte /\ b \in Byte /\ c \in Byte /\ d \in Byte
        /\ a * 256 + b = c * 256 + d
    BY <2>1, <2>3
  <2> HIDE DEF a, b, c, d
  <2>5. a = c /\ b = d
    BY <2>4, SameDigits
  <2> QED
    BY <2>5 DEF a, b, c, d
<1>6. ASSUME NEW i \in 1..Len(got) PROVE got[i] = p[i]
  <2>1. CASE i <= 4
    <3>1. i = 1 \/ i = 2 \/ i = 3 \/ i = 4
      BY <2>1
    <3> QED
      BY <1>1, <1>2, <1>5, <3>1
  <2>2. CASE ~(i <= 4)
    <3>1. i - 4 \in 1..(Len(got) - 4) /\ 5 + (i - 4) - 1 = i
      BY <2>2
    <3>2. \A j \in 1..(Len(got) - 4) :
            /\ SubSeq(got, 5, Len(got))[j] = got[5 + j - 1]
            /\ SubSeq(p, 5, Len(p))[j] = p[5 + j - 1]
      BY <1>1, <1>2, <1>4
    <3>3. got[5 + (i - 4) - 1] = p[5 + (i - 4) - 1]
      BY <1>1, <1>2, <3>1, <3>2
    <3> QED
      BY <3>1, <3>3
  <2> QED
    BY <2>1, <2>2
<1> QED
  BY <1>1, <1>4, <1>6, SeqEqual DEF p

LEMMA RelaysKept ==
  ASSUME NEW r, NEW w \in Seq(Frame), NEW f \in Frame,
         NEW q \in 0..Len(w), Relays(r, w, q)
  PROVE  Relays(r, Append(w, f), q)
<1>1. PICK at \in [1..Len(r) -> 1..q] :
        /\ \A i \in 1..Len(r) : Broadcasts(w[at[i]]) = <<r[i]>>
        /\ \A i, j \in 1..Len(r) : i < j => at[i] < at[j]
  BY DEF Relays
<1>2. \A x \in 1..q : Append(w, f)[x] = w[x]
  <2>1. \A x \in 1..q : x \in 1..Len(w)
    OBVIOUS
  <2> QED
    BY <2>1, AppendProperties
<1>3. \A i \in 1..Len(r) : Broadcasts(Append(w, f)[at[i]]) = <<r[i]>>
  <2>1. \A i \in 1..Len(r) : at[i] \in 1..q
    BY <1>1
  <2> QED
    BY <1>1, <1>2, <2>1
<1> QED
  BY <1>1, <1>3 DEF Relays

LEMMA RelaysMore ==
  ASSUME NEW R, NEW r \in Seq(R), NEW x \in R, NEW w \in Seq(Frame),
         NEW q \in Nat, NEW p \in Nat, q < p, Relays(r, w, q),
         Broadcasts(w[p]) = <<x>>
  PROVE  Relays(r \o <<x>>, w, p)
<1>1. PICK at \in [1..Len(r) -> 1..q] :
        /\ \A i \in 1..Len(r) : Broadcasts(w[at[i]]) = <<r[i]>>
        /\ \A i, j \in 1..Len(r) : i < j => at[i] < at[j]
  BY DEF Relays
<1> DEFINE n == Len(r)
           r2 == r \o <<x>>
           at2 == [i \in 1..(n + 1) |-> IF i <= n THEN at[i] ELSE p]
<1>2. n \in Nat /\ Len(r2) = n + 1 /\ r2[n + 1] = x /\ \A i \in 1..n : r2[i] = r[i]
  OBVIOUS
<1>3. \A i \in 1..n : at[i] \in 1..q
  BY <1>1
<1>4. \A i \in 1..(n + 1) : /\ i <= n => at2[i] = at[i] /\ i \in 1..n
                            /\ ~(i <= n) => at2[i] = p /\ i = n + 1
  <2> TAKE i \in 1..(n + 1)
  <2>1. at2[i] = IF i <= n THEN at[i] ELSE p
    OBVIOUS
  <2>2. i \in Nat /\ 1 <= i /\ i <= n + 1
    BY <1>2
  <2> HIDE DEF n, at2
  <2> QED
    BY <1>2, <2>1, <2>2
<1>5. at2 \in [1..Len(r2) -> 1..p]
  <2>1. \A i \in 1..(n + 1) : at2[i] \in 1..p
    BY <1>2, <1>3, <1>4
  <2> QED
    BY <1>2, <2>1
<1> HIDE DEF n, r2, at2
<1>6. \A i \in 1..Len(r2) : Broadcasts(w[at2[i]]) = <<r2[i]>>
  BY <1>1, <1>2, <1>4 DEF n
<1>7. \A i, j \in 1..Len(r2) : i < j => at2[i] < at2[j]
  <2> SUFFICES ASSUME NEW i \in 1..(n + 1), NEW j \in 1..(n + 1), i < j
               PROVE  at2[i] < at2[j]
    BY <1>2
  <2>1. i <= n /\ i \in 1..n /\ at2[i] = at[i] /\ at[i] \in 1..q
    BY <1>2, <1>3, <1>4
  <2>2. CASE j <= n
    BY <1>1, <1>4, <2>1, <2>2 DEF n
  <2>3. CASE ~(j <= n)
    BY <1>4, <2>1, <2>3
  <2> QED
    BY <2>2, <2>3
<1> QED
  BY <1>5, <1>6, <1>7 DEF Relays, r2

LEMMA OneBroadcast ==
  ASSUME NEW f \in Due
  PROVE  \/ Broadcasts(f) = <<>>
         \/ f \in Frame /\ \E x \in Broadcast : Broadcasts(f) = <<x>>
<1>1. CASE f = NoFrame \/ f.payload = <<>>
  BY <1>1 DEF Broadcasts
<1>2. CASE f # NoFrame /\ f.payload # <<>>
  <2> DEFINE x == [op |-> OpCode(Head(f.payload)), rest |-> Tail(f.payload)]
  <2>1. f \in Frame /\ Broadcasts(f) = <<x>>
    BY <1>2 DEF Due, Broadcasts
  <2>2. Broadcasts(f) \in Seq(Broadcast)
    BY BroadcastsType DEF Due, Broadcast
  <2> HIDE DEF x
  <2>3. x \in Broadcast
    BY <2>1, <2>2
  <2> QED
    BY <2>1, <2>3
<1> QED
  BY <1>1, <1>2

(* A turn of the loop drops the first bytes of what is pending: if it      *)
(* broadcasts something, these are the packet of a frame that asks for it. *)
LEMMA ReadDrops ==
  ASSUME IInv, Read
  PROVE  /\ Pending \in Seq(Byte) /\ Pending' \in Seq(Byte)
         /\ \/ tx' = <<>> /\ \E n \in Nat : Dropped(Pending, Pending', n)
            \/ \E f \in Frame : \E x \in Broadcast :
                 /\ tx' = <<x>> /\ Broadcasts(f) = <<x>>
                 /\ Size(f) <= Len(Pending)
                 /\ \A i \in 1..Size(f) : Pending[i] = Packet(f)[i]
                 /\ Dropped(Pending, Pending', Size(f))
<1>1. /\ line \in Seq(Byte) /\ rx_buf \in Seq(Byte) /\ line # <<>>
      /\ line' = Tail(line) /\ Head(line) = line[1]
  BY ReadStep
<1>2. Got = Append(rx_buf, line[1]) /\ line[1] \in Byte
  <2>1. 1 \in 1..Len(line)
    BY <1>1, EmptySeq
  <2> QED
    BY <1>1, <2>1, ElementOfSeq DEF Got
<1>3. Got \in Seq(Byte) /\ Len(Got) \in Nat
  BY <1>1, <1>2
<1>4. rx_buf' \in Seq(Byte) /\ line' \in Seq(Byte)
  BY ReadInv DEF IInv, TypeOK
<1>5. Pending \in Seq(Byte) /\ Pending' \in Seq(Byte)
  BY <1>1, <1>4, ConcatProperties DEF Pending
<1>6. ASSUME NEW n \in Nat, Dropped(Got, rx_buf', n)
      PROVE  /\ Len(Got) <= Len(Pending)
             /\ \A i \in 1..Len(Got) : Pending[i] = Got[i]
             /\ Dropped(Pending, Pending', n)
  BY <1>1, <1>2, <1>3, <1>4, <1>6, TakenDropped
<1>7. CASE Collect
  <2>1. tx' = <<>> /\ rx_buf' = Got
    BY <1>7 DEF Collect
  <2>2. Dropped(Got, rx_buf', 0)
    BY <1>3, <2>1 DEF Dropped
  <2>3. 0 \in Nat
    OBVIOUS
  <2> QED
    BY <1>5, <1>6, <2>1, <2>2, <2>3
<1>8. CASE Skip
  <2>1. tx' = <<>> /\ rx_buf' = Tail(Got) /\ Got # <<>>
    BY <1>2, <1>8 DEF Skip, Realigned, Noise
  <2>2. Dropped(Got, rx_buf', 1)
    BY <1>3, <2>1, HeadTailProperties DEF Dropped
  <2>3. 1 \in Nat
    OBVIOUS
  <2> QED
    BY <1>5, <1>6, <2>1, <2>2, <2>3
<1>9. CASE Forward
  <2>1. /\ Complete(Got) /\ rx_buf' = Without(Got)
        /\ tx' = Broadcasts(Unpack(Body(Got)))
    BY <1>9 DEF Forward
  <2>2. rx_buf' = <<>>
    BY <1>1, <1>2, <2>1, ForwardLeavesNothing DEF IInv, OneLookIsEnough
  <2>3. Len(Got) = 4 + LenOf(Got)
    <3>1. LenOf(Got) \in Nat /\ Len(Got) >= 4 + LenOf(Got)
      BY <1>3, <2>1, LengthType DEF Complete, IsPacket
    <3>2. Len(SubSeq(Got, 5 + LenOf(Got), Len(Got))) = 0
      <4>1. SubSeq(Got, 5 + LenOf(Got), Len(Got)) = <<>>
        BY <2>1, <2>2 DEF Without
      <4> DEFINE e == SubSeq(Got, 5 + LenOf(Got), Len(Got))
      <4>2. e = <<>>
        BY <4>1
      <4> HIDE DEF e
      <4>3. Len(e) = 0
        BY <4>2
      <4> QED
        BY <4>3 DEF e
    <3>3. Len(SubSeq(Got, 5 + LenOf(Got), Len(Got))) = Len(Got) - (4 + LenOf(Got))
      BY <1>3, <3>1
    <3> QED
      BY <1>3, <3>1, <3>2, <3>3
  <2>4. Dropped(Got, rx_buf', Len(Got))
    BY <1>3, <2>2 DEF Dropped
  <2>5. /\ Len(Got) <= Len(Pending)
        /\ \A i \in 1..Len(Got) : Pending[i] = Got[i]
        /\ Dropped(Pending, Pending', Len(Got))
    BY <1>3, <1>6, <2>4
  <2> DEFINE f == Unpack(Body(Got))
  <2>6. f \in Due /\ tx' = Broadcasts(f)
    BY <2>1, UnpackType DEF Due
  <2>7. f \in Frame => Archive[f] = Body(Got)
    BY FrameAssumption DEF Unpack
  <2> HIDE DEF f
  <2>8. CASE tx' = <<>>
    BY <1>3, <1>5, <2>5, <2>8
  <2>9. CASE tx' # <<>>
    <3>1. PICK x \in Broadcast : f \in Frame /\ Broadcasts(f) = <<x>>
      BY <2>6, <2>9, OneBroadcast
    <3>2. Got = Packet(f)
      BY <1>3, <2>1, <2>3, <2>7, <3>1, BodyOfPacket
    <3>3. Size(f) = Len(Got)
      BY <3>2 DEF Size
    <3> QED
      BY <1>5, <2>5, <2>6, <3>1, <3>2, <3>3
  <2> QED
    BY <2>8, <2>9
<1> QED
  BY <1>7, <1>8, <1>9 DEF Read

-----------------------------------------------------------------------------
LEMMA OrderInitInv == HistoryInit => OrderInv
<1> SUFFICES ASSUME HistoryInit PROVE OrderInv
  OBVIOUS
<1>1. written = <<>> /\ relayed = <<>> /\ rx_buf \o line = <<>>
  BY DEF HistoryInit, Init
<1>2. Relays(<<>>, <<>>, 0)
  <2>1. [i \in 1..0 |-> 0] \in [1..Len(<<>>) -> 1..0]
    OBVIOUS
  <2>2. Len(<<>>) = 0 /\ \A i \in 1..0 : FALSE
    OBVIOUS
  <2> QED
    BY <2>1, <2>2 DEF Relays
<1>3. Traceable(<<>>, <<>>, 0)
  <2>1. [i \in 1..0 |-> 0] \in [1..Len(<<>>) -> Nat]
    OBVIOUS
  <2>2. \A from, of : Traces(<<>>, <<>>, 0, from, of)
    BY DEF Traces
  <2> QED
    BY <2>1, <2>2 DEF Traceable
<1>4. 0 \in 0..Len(written)
  BY <1>1
<1> QED
  BY <1>1, <1>2, <1>3, <1>4 DEF OrderInv, Pending

(* Bytes that are lost, or that the parser drops without a broadcast.      *)
LEMMA DropOrderInv ==
  ASSUME OrderInv, Pending \in Seq(Byte), Pending' \in Seq(Byte),
         NEW n \in Nat, Dropped(Pending, Pending', n),
         UNCHANGED <<written, relayed>>
  PROVE  OrderInv'
<1>1. PICK q \in 0..Len(written) : /\ Relays(relayed, written, q)
                                   /\ Traceable(Pending, written, q)
  BY DEF OrderInv, Pending
<1>2. PICK from \in [1..Len(Pending) -> Nat], of \in [1..Len(Pending) -> Nat] :
        Traces(Pending, written, q, from, of)
  BY <1>1 DEF Traceable
<1>3. written \in Seq(Frame)
  BY DEF OrderInv
<1>4. q \in Nat
  BY <1>3
<1>5. \A i \in 1..Len(Pending) : n < i => q < from[i]
  BY <1>2 DEF Traces
<1>6. Traceable(Pending', written, q)
  BY <1>2, <1>3, <1>4, <1>5, DropTraceable
<1> QED
  BY <1>1, <1>6 DEF OrderInv, Pending

LEMMA ReadsOrderInv ==
  ASSUME Unmistakable, IInv, OrderInv, Reads
  PROVE  OrderInv'
<1>1. Read /\ relayed' = relayed \o tx' /\ written' = written
  BY DEF Reads
<1>2. Pending \in Seq(Byte) /\ Pending' \in Seq(Byte)
  BY <1>1, ReadDrops
<1>3. written \in Seq(Frame) /\ relayed \in Seq(Broadcast)
  BY DEF OrderInv, Broadcast
<1>4. ASSUME tx' = <<>>, NEW n \in Nat, Dropped(Pending, Pending', n)
      PROVE  OrderInv'
  <2>1. relayed' = relayed
    BY <1>1, <1>3, <1>4
  <2> QED
    BY <1>1, <1>2, <1>4, <2>1, DropOrderInv
<1>5. ASSUME NEW f \in Frame, NEW x \in Broadcast,
             tx' = <<x>>, Broadcasts(f) = <<x>>,
             Size(f) <= Len(Pending),
             \A i \in 1..Size(f) : Pending[i] = Packet(f)[i],
             Dropped(Pending, Pending', Size(f))
      PROVE  OrderInv'
  <2>1. PICK q \in 0..Len(written) : /\ Relays(relayed, written, q)
                                     /\ Traceable(Pending, written, q)
    BY DEF OrderInv, Pending
  <2>2. PICK from \in [1..Len(Pending) -> Nat], of \in [1..Len(Pending) -> Nat] :
          Traces(Pending, written, q, from, of)
    BY <2>1 DEF Traceable
  <2>3. q \in Nat /\ Size(f) \in Nat
    BY <1>3, PacketFacts
  <2> DEFINE p == from[1]
  <2>4. /\ p \in Nat /\ q < p /\ p <= Len(written) /\ written[p] = f
        /\ \A i \in 1..Len(Pending) : Size(f) < i => p < from[i]
    <3>1. /\ from[1] \in Nat /\ q < from[1] /\ from[1] <= Len(written)
          /\ written[from[1]] = f
          /\ \A i \in 1..Len(Pending) : Size(f) < i => from[1] < from[i]
      BY <1>2, <1>3, <1>5, <2>2, <2>3, FoundIsWritten, Zenon
    <3> QED
      BY <3>1
  <2> HIDE DEF p
  <2>5. Traceable(Pending', written, p)
    BY <1>2, <1>3, <1>5, <2>2, <2>3, <2>4, DropTraceable
  <2>6. Relays(relayed', written, p)
    BY <1>1, <1>3, <1>5, <2>1, <2>3, <2>4, RelaysMore
  <2>7. relayed' \in Seq(Broadcast)
    <3>1. <<x>> \in Seq(Broadcast)
      BY Singleton
    <3> QED
      BY <1>1, <1>3, <1>5, <3>1, ConcatProperties
  <2>8. p \in 0..Len(written)
    BY <1>3, <2>4
  <2> QED
    BY <1>1, <1>3, <2>5, <2>6, <2>7, <2>8 DEF OrderInv, Pending, Broadcast
<1> QED
  BY <1>1, <1>4, <1>5, ReadDrops

(* What is written to the line is behind what is pending.                  *)
LEMMA LineGrows ==
  ASSUME rx_buf \in Seq(Byte), line \in Seq(Byte), NEW a \in Seq(Byte),
         rx_buf' = rx_buf, line' = line \o a
  PROVE  Grown(Pending, Pending', a) /\ Pending' \in Seq(Byte)
<1> DEFINE b == rx_buf
           l == line
           m == line'
           all == Pending
           more == Pending'
           nb == Len(b)
           nl == Len(l)
           na == Len(a)
<1>1. /\ b \in Seq(Byte) /\ l \in Seq(Byte) /\ m = l \o a
      /\ all = b \o l /\ more = b \o m
  BY DEF Pending
<1> HIDE DEF b, l, m, all, more
<1>2. /\ m \in Seq(Byte) /\ Len(m) = Len(l) + Len(a)
      /\ \A i \in 1..(Len(l) + Len(a)) : m[i] = IF i <= Len(l) THEN l[i] ELSE a[i - Len(l)]
  BY <1>1, ConcatProperties
<1>3. /\ Len(all) = Len(b) + Len(l)
      /\ \A i \in 1..(Len(b) + Len(l)) : all[i] = IF i <= Len(b) THEN b[i] ELSE l[i - Len(b)]
  BY <1>1, ConcatProperties
<1>4. /\ more \in Seq(Byte) /\ Len(more) = Len(b) + Len(m)
      /\ \A i \in 1..(Len(b) + Len(m)) : more[i] = IF i <= Len(b) THEN b[i] ELSE m[i - Len(b)]
  <2>1. b \in Seq(Byte) /\ m \in Seq(Byte) /\ more = b \o m
    BY <1>1, <1>2
  <2> QED
    BY <2>1, ConcatProperties
<1>5. nb \in Nat /\ nl \in Nat /\ na \in Nat
  BY <1>1
<1>6. /\ Len(m) = nl + na /\ Len(all) = nb + nl /\ Len(more) = nb + Len(m)
      /\ \A i \in 1..(nl + na) : m[i] = IF i <= nl THEN l[i] ELSE a[i - nl]
      /\ \A i \in 1..(nb + nl) : all[i] = IF i <= nb THEN b[i] ELSE l[i - nb]
      /\ \A i \in 1..(nb + Len(m)) : more[i] = IF i <= nb THEN b[i] ELSE m[i - nb]
  BY <1>2, <1>3, <1>4, Zenon
<1> HIDE DEF nb, nl, na
<1>7. Len(more) = nb + nl + na
  BY <1>5, <1>6
<1>8. ASSUME NEW i \in 1..(nb + nl + na)
      PROVE  more[i] = IF i <= nb + nl THEN all[i] ELSE a[i - (nb + nl)]
  <2>1. more[i] = IF i <= nb THEN b[i] ELSE m[i - nb]
    BY <1>5, <1>6
  <2>2. CASE i <= nb
    <3>1. i \in 1..(nb + nl)
      BY <1>5, <2>2
    <3>2. all[i] = b[i]
      BY <1>6, <2>2, <3>1
    <3> QED
      BY <1>5, <2>1, <2>2, <3>1, <3>2
  <2>3. CASE ~(i <= nb) /\ i <= nb + nl
    <3>1. i \in 1..(nb + nl) /\ i - nb \in 1..(nl + na) /\ i - nb <= nl
      BY <1>5, <2>3
    <3>2. all[i] = l[i - nb] /\ m[i - nb] = l[i - nb]
      BY <1>6, <2>3, <3>1
    <3> QED
      BY <2>1, <2>3, <3>2
  <2>4. CASE ~(i <= nb + nl)
    <3>1. /\ ~(i <= nb) /\ i - nb \in 1..(nl + na) /\ ~(i - nb <= nl)
          /\ (i - nb) - nl = i - (nb + nl)
      BY <1>5, <2>4
    <3>2. m[i - nb] = a[(i - nb) - nl]
      BY <1>6, <3>1
    <3> QED
      BY <2>1, <2>4, <3>1, <3>2
  <2> QED
    BY <1>5, <2>2, <2>3, <2>4
<1>9. Grown(all, more, a)
  <2>1. \A i \in 1..Len(more) : more[i] = IF i <= Len(all) THEN all[i] ELSE a[i - Len(all)]
    BY <1>6, <1>7, <1>8
  <2>2. Len(more) = Len(all) + Len(a)
    BY <1>6, <1>7 DEF na
  <2> QED
    BY <2>1, <2>2 DEF Grown
<1> QED
  BY <1>4, <1>9 DEF all, more

(* The host begins a packet and ends it, or does not.                      *)
LEMMA AppendOrderInv ==
  ASSUME IInv, OrderInv, NEW f \in Frame, NEW a \in Seq(Byte), Len(a) <= Size(f),
         \A j \in 1..Len(a) : a[j] = Packet(f)[j],
         line' = line \o a, rx_buf' = rx_buf,
         written' = Append(written, f), relayed' = relayed
  PROVE  OrderInv'
<1>1. PICK q \in 0..Len(written) : /\ Relays(relayed, written, q)
                                   /\ Traceable(Pending, written, q)
  BY DEF OrderInv, Pending
<1>2. written \in Seq(Frame) /\ line \in Seq(Byte) /\ rx_buf \in Seq(Byte)
  BY DEF OrderInv, IInv, TypeOK
<1>3. Pending \in Seq(Byte) /\ q \in Nat /\ q <= Len(written)
  BY <1>2, ConcatProperties DEF Pending
<1>4. Grown(Pending, Pending', a) /\ Pending' \in Seq(Byte)
  BY <1>2, LineGrows
<1>5. Traceable(Pending', Append(written, f), q)
  BY <1>1, <1>2, <1>3, <1>4, AppendTraceable
<1>6. Relays(relayed, Append(written, f), q)
  BY <1>1, <1>2, RelaysKept
<1>7. Append(written, f) \in Seq(Frame) /\ q \in 0..Len(Append(written, f))
  BY <1>2, <1>3, AppendProperties
<1> QED
  BY <1>4, <1>5, <1>6, <1>7 DEF OrderInv, Pending

LEMMA OrderNextInv ==
  Unmistakable /\ HistoryInv /\ OrderInv /\ [HistoryNext]_historyVars => OrderInv'
<1> SUFFICES ASSUME Unmistakable, HistoryInv, OrderInv, [HistoryNext]_historyVars
             PROVE  OrderInv'
  OBVIOUS
<1>1. IInv /\ line \in Seq(Byte) /\ rx_buf \in Seq(Byte)
  BY DEF HistoryInv, IInv, TypeOK
<1>2. CASE Reads
  BY <1>1, <1>2, ReadsOrderInv
<1>3. ASSUME NEW f \in Frame, Writes(f) PROVE OrderInv'
  <2>1. /\ line' = line \o Packet(f) /\ rx_buf' = rx_buf
        /\ written' = Append(written, f) /\ relayed' = relayed
    BY <1>3 DEF Writes, HostWrites, Sends
  <2>2. Packet(f) \in Seq(Byte) /\ Len(Packet(f)) <= Size(f)
    BY PacketFacts DEF Size
  <2> QED
    BY <1>1, <2>1, <2>2, AppendOrderInv
<1>4. ASSUME NEW f \in Frame, NEW k \in 1..(Len(Packet(f)) - 1), Stops(f, k)
      PROVE  OrderInv'
  <2> DEFINE a == SubSeq(Packet(f), 1, k)
  <2>1. /\ line' = line \o a /\ rx_buf' = rx_buf
        /\ written' = Append(written, f) /\ relayed' = relayed
    BY <1>4 DEF Stops, HostStops, Sends
  <2>2. /\ a \in Seq(Byte) /\ Len(a) <= Size(f)
        /\ \A j \in 1..Len(a) : a[j] = Packet(f)[j]
    <3>1. Packet(f) \in Seq(Byte) /\ Size(f) = Len(Packet(f))
      BY PacketFacts DEF Size
    <3> QED
      BY <3>1
  <2> HIDE DEF a
  <2> QED
    BY <1>1, <2>1, <2>2, AppendOrderInv
<1>5. ASSUME NEW f \in Frame, Receive(f), UNCHANGED history PROVE OrderInv'
  BY <1>5 DEF Receive, history, OrderInv, Pending
<1>6. ASSUME NEW k \in 0..Len(line), Restarts(k) PROVE OrderInv'
  <2>1. /\ line' = SubSeq(line, k + 1, Len(line)) /\ rx_buf' = <<>>
        /\ UNCHANGED <<written, relayed>>
    BY <1>6 DEF Restarts, Restart
  <2>2. /\ line' \in Seq(Byte) /\ Len(line') = Len(line) - k
        /\ \A i \in 1..Len(line') : line'[i] = line[i + k]
    BY <1>1, <2>1
  <2>3. Pending' = line'
    BY <2>1, <2>2 DEF Pending
  <2>4. /\ Pending \in Seq(Byte) /\ Len(Pending) = Len(rx_buf) + Len(line)
        /\ \A i \in 1..(Len(rx_buf) + Len(line)) :
             Pending[i] = IF i <= Len(rx_buf) THEN rx_buf[i] ELSE line[i - Len(rx_buf)]
    BY <1>1, ConcatProperties DEF Pending
  <2> DEFINE n == Len(rx_buf) + k
  <2>5. n \in Nat /\ n = Len(rx_buf) + k /\ Len(rx_buf) \in Nat /\ Len(line) \in Nat
    BY <1>1
  <2> HIDE DEF n
  <2>6. Dropped(Pending, Pending', n)
    <3>1. n + Len(line') = Len(Pending)
      BY <2>2, <2>4, <2>5
    <3>2. ASSUME NEW i \in 1..Len(line') PROVE line'[i] = Pending[i + n]
      <4>1. /\ i + n \in 1..(Len(rx_buf) + Len(line)) /\ ~(i + n <= Len(rx_buf))
            /\ (i + n) - Len(rx_buf) = i + k
        BY <2>2, <2>5
      <4> QED
        BY <2>2, <2>4, <4>1
    <3> QED
      BY <2>3, <3>1, <3>2 DEF Dropped
  <2> QED
    BY <2>1, <2>2, <2>3, <2>4, <2>5, <2>6, DropOrderInv
<1>7. CASE UNCHANGED historyVars
  BY <1>7 DEF historyVars, vars, history, OrderInv, Pending
<1> QED
  BY <1>2, <1>3, <1>4, <1>5, <1>6, <1>7 DEF HistoryNext

LEMMA OrderInvIsEnough == OrderInv => InOrderAtMostOnce
<1> SUFFICES ASSUME OrderInv PROVE InOrderAtMostOnce
  OBVIOUS
<1>1. PICK q \in 0..Len(written) : Relays(relayed, written, q)
  BY DEF OrderInv
<1>2. /\ DOMAIN relayed = 1..Len(relayed)
      /\ \A x \in 1..q : x \in DOMAIN written
  BY DEF OrderInv
<1>3. PICK at \in [1..Len(relayed) -> 1..q] :
        /\ \A i \in 1..Len(relayed) : Broadcasts(written[at[i]]) = <<relayed[i]>>
        /\ \A i, j \in 1..Len(relayed) : i < j => at[i] < at[j]
  BY <1>1 DEF Relays
<1>4. at \in [DOMAIN relayed -> DOMAIN written]
  BY <1>2, <1>3
<1> QED
  BY <1>2, <1>3, <1>4 DEF InOrderAtMostOnce

(* The bridge broadcasts nothing that nobody sent, nothing twice and       *)
(* nothing out of order, however often it or the host stops, for any       *)
(* frames that are Unmistakable.                                           *)
THEOREM RelaysInOrder ==
  ASSUME Unmistakable PROVE HistorySpec => []InOrderAtMostOnce
<1>1. HistoryInv /\ OrderInv /\ [HistoryNext]_historyVars => OrderInv'
  BY OrderNextInv
<1>2. HistorySpec => []OrderInv
  BY <1>1, OrderInitInv, HistoryInvariance, PTL DEF HistorySpec
<1> QED
  BY <1>2, OrderInvIsEnough, PTL

(* Frames are Unmistakable if no byte of their packets but the first is    *)
(* the first of the magic ones.                                            *)
LEMMA PlainFramesAreUnmistakable ==
  ASSUME \A f \in Frame : \A j \in 2..Len(Packet(f)) : Packet(f)[j] # Magic[1]
  PROVE  Unmistakable
<1> SUFFICES ASSUME NEW f \in Frame, NEW g \in Frame, NEW d \in 0..Len(Packet(g)),
                    NEW cuts \in SUBSET (1..(Len(Packet(f)) - 1)),
                    ComesFrom(f, 0, cuts, g, d),
                    \A b \in cuts : \E h \in Frame : ComesFrom(f, b, cuts, h, 0)
             PROVE  cuts = {} /\ d = 0
  BY DEF Unmistakable
<1>1. \A h \in Frame : /\ Len(Packet(h)) \in Nat /\ Len(Packet(h)) >= 4
                       /\ Packet(h)[1] = Magic[1]
  <2> TAKE h \in Frame
  <2>1. Size(h) \in Nat /\ Size(h) = 4 + Len(Archive[h]) /\ Len(Archive[h]) \in Nat
    BY PacketFacts, FrameAssumption
  <2> QED
    BY <2>1, PacketFacts DEF Size
<1>2. ASSUME NEW b \in cuts PROVE FALSE
  <2>1. PICK h \in Frame : ComesFrom(f, b, cuts, h, 0)
    OBVIOUS
  <2>2. b \in 1..(Len(Packet(f)) - 1)
    OBVIOUS
  <2>3. /\ 1 \in 1..(Len(Packet(f)) - b) /\ b + 1 \in 2..Len(Packet(f)) /\ 1 + 0 = 1
        /\ \A c \in cuts : ~(b < c /\ c < b + 1)
    BY <1>1, <2>2
  <2>4. Packet(f)[b + 1] = Packet(h)[1]
    BY <2>1, <2>3 DEF ComesFrom
  <2> QED
    BY <1>1, <2>3, <2>4
<1>3. d = 0
  <2>1. /\ 1 \in 1..(Len(Packet(f)) - 0) /\ 0 + 1 = 1
        /\ \A c \in cuts : ~(0 < c /\ c < 0 + 1)
    BY <1>1, <1>2
  <2>2. 1 + d <= Len(Packet(g)) /\ Packet(f)[1] = Packet(g)[1 + d]
    BY <2>1 DEF ComesFrom
  <2>3. Packet(f)[1] = Magic[1]
    BY <1>1
  <2>4. d # 0 => 1 + d \in 2..Len(Packet(g))
    BY <1>1, <2>2
  <2> QED
    BY <2>2, <2>3, <2>4
<1> QED
  BY <1>2, <1>3
=============================================================================
