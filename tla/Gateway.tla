------------------------------- MODULE Gateway -------------------------------
(***************************************************************************)
(* The bridge between a host's serial line and the radio (gateway.rs).     *)
(*                                                                         *)
(* The host sends packets: two magic bytes, the length, and the archive of *)
(* a frame.  GatewayBridge::tick reads the line byte by byte, and every    *)
(* packet that is complete is broadcast; then it passes at most one        *)
(* message of the radio to the host.  The crate leaves the assembly of     *)
(* packets to io_oi_core's FramingDecoder, whose source is not in the      *)
(* repository; the host's copy of the bridge spells it out, and is what is *)
(* modelled here.                                                          *)
(*                                                                         *)
(* Bytes arrive one by one while tick runs, so that each turn of its loop  *)
(* is a step of its own.  The host may stop in the middle of a packet, and *)
(* the bridge may lose power: it then misses what arrives meanwhile.       *)
(***************************************************************************)
EXTENDS Integers, Sequences

CONSTANTS Frame,        \* what packets carry: [mac, payload]
          NoFrame,
          Archive,      \* frame -> its bytes
          KnownOp,      \* the opcodes of the protocol
          Heartbeat,    \* 4 in the code
          MaxLine       \* bound: bytes on the line

Byte == 0..255
Magic == <<222, 173>>   \* 0xDE 0xAD

ASSUME OpAssumption == KnownOp \subseteq Byte /\ Heartbeat \in KnownOp
ASSUME FrameAssumption ==
  /\ NoFrame \notin Frame
  /\ \A f \in Frame : f.payload \in Seq(Byte)
  /\ Archive \in [Frame -> Seq(Byte)]
  /\ \A f, g \in Frame : Archive[f] = Archive[g] => f = g
ASSUME LineAssumption ==
  /\ MaxLine \in Nat
  /\ \A f \in Frame : Len(Archive[f]) < 256 * 256

VARIABLES line,         \* bytes on the way from the host
          rx_buf,       \* bytes of a packet that is not complete
          tx,           \* the broadcasts of the last step
          up            \* what the last step wrote to the host

vars == <<line, rx_buf, tx, up>>

Header(len) == Magic \o <<len \div 256, len % 256>>
Packet(f) == Header(Len(Archive[f])) \o Archive[f]

-----------------------------------------------------------------------------
(* The parser.                                                             *)

IsPacket(buf) == Len(buf) >= 4 /\ buf[1] = Magic[1] /\ buf[2] = Magic[2]
LenOf(buf) == buf[3] * 256 + buf[4]
Complete(buf) == IsPacket(buf) /\ Len(buf) >= 4 + LenOf(buf)
Noise(buf) == Len(buf) >= 4 /\ ~IsPacket(buf)
Body(buf) == SubSeq(buf, 5, 4 + LenOf(buf))

(* check_archived_root, with what it is assumed to do: it accepts the      *)
(* archives of frames and nothing else.                                    *)
Unpack(body) == IF \E f \in Frame : Archive[f] = body
                THEN CHOOSE f \in Frame : Archive[f] = body
                ELSE NoFrame

(* Variants named Mut... change the definition that follows them the way a  *)
(* plausible bug would.  No specification uses them.                       *)
MutOpCode(b) == b                                          \* transmute
OpCode(b) == IF b \in KnownOp THEN b ELSE Heartbeat

(* A frame goes to everybody, whatever its mac; an empty one nowhere.      *)
Broadcasts(f) == IF f = NoFrame \/ f.payload = <<>> THEN <<>>
                 ELSE <<[op |-> OpCode(Head(f.payload)), rest |-> Tail(f.payload)]>>

MutWithout(buf) == IF Unpack(Body(buf)) = NoFrame THEN buf      \* a bad one stays
                   ELSE SubSeq(buf, 5 + LenOf(buf), Len(buf))
MutWithoutKeeps(buf) == buf                                \* no drain
Without(buf) == SubSeq(buf, 5 + LenOf(buf), Len(buf))      \* drain(..4 + len)

MutRealigned(buf) == <<>>                                  \* clear()
Realigned(buf) == Tail(buf)                                \* remove(0)

-----------------------------------------------------------------------------
(* The bridge.                                                             *)

Got == Append(rx_buf, Head(line))
Takes == /\ line # <<>>
         /\ line' = Tail(line)
         /\ up' = <<>>

Collect == /\ Takes
           /\ ~Complete(Got) /\ ~Noise(Got)
           /\ rx_buf' = Got
           /\ tx' = <<>>

Skip == /\ Takes
        /\ Noise(Got)
        /\ rx_buf' = Realigned(Got)
        /\ tx' = <<>>

Forward == /\ Takes
           /\ Complete(Got)
           /\ rx_buf' = Without(Got)
           /\ tx' = Broadcasts(Unpack(Body(Got)))

(* The results of the two writes are dropped: each may have failed.        *)
Receive(f) == /\ f.payload # <<>> /\ Head(f.payload) \in KnownOp
              /\ up' \in {Packet(f), Header(Len(Archive[f])), Archive[f], <<>>}
              /\ tx' = <<>>
              /\ UNCHANGED <<line, rx_buf>>

(* Power loss: the first k bytes on the line arrive before the bridge is   *)
(* ready again.                                                            *)
Restart(k) == /\ line' = SubSeq(line, k + 1, Len(line))
              /\ rx_buf' = <<>>
              /\ tx' = <<>>
              /\ up' = <<>>

-----------------------------------------------------------------------------
(* The host.                                                               *)

Sends(bytes) == /\ Len(line) + Len(bytes) <= MaxLine
                /\ line' = line \o bytes
                /\ tx' = <<>>
                /\ up' = <<>>
                /\ UNCHANGED rx_buf

HostWrites(f) == Sends(Packet(f))
HostStops(f, k) == Sends(SubSeq(Packet(f), 1, k))

Init == line = <<>> /\ rx_buf = <<>> /\ tx = <<>> /\ up = <<>>

Read == Collect \/ Skip \/ Forward

Next == \/ Read
        \/ \E f \in Frame : Receive(f) \/ HostWrites(f)
        \/ \E f \in Frame : \E k \in 1..(Len(Packet(f)) - 1) : HostStops(f, k)
        \/ \E k \in 0..Len(line) : Restart(k)

Spec == Init /\ [][Next]_vars

-----------------------------------------------------------------------------
(* Properties.                                                             *)

TypeOK == /\ line \in Seq(Byte)
          /\ rx_buf \in Seq(Byte)
          /\ tx \in Seq([op : KnownOp, rest : Seq(Byte)])
          /\ up \in Seq(Byte)

(* One look at the buffer for each byte is enough (an "if" in the loop, no *)
(* "while"): between two bytes the buffer never holds a packet that is     *)
(* complete, nor four bytes that begin none.  So no packet waits for the   *)
(* bytes of the next one, and what the buffer holds never exceeds a packet. *)
OneLookIsEnough == ~Complete(rx_buf) /\ ~Noise(rx_buf)
=============================================================================
