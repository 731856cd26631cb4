--------------------------- MODULE GatewayHistory ---------------------------
(***************************************************************************)
(* Gateway with a record of what the host wrote and what was broadcast,    *)
(* and of the frames that the bridge owes: those which no fault touches,   *)
(* neither on their own way nor in the packets that the parser takes in    *)
(* before them.                                                            *)
(***************************************************************************)
EXTENDS Gateway

CONSTANT MaxFrames      \* bound: packets that the host begins

VARIABLES written,      \* the frames of the packets begun
          relayed,      \* everything that was broadcast
          owed,         \* for each byte of the line, the frame that is to be
                        \* broadcast when the bridge has read it
          sound         \* has no fault misled the parser?

history == <<written, relayed, owed, sound>>
historyVars == <<vars, history>>

Nothing(n) == [i \in 1..n |-> NoFrame]
AtTheEnd(f) == [Nothing(Len(Packet(f))) EXCEPT ![Len(Packet(f))] = f]

(* The parser is at the beginning of a packet or among bytes that none can *)
(* begin with.                                                             *)
NoMagic(bytes) == \A i \in DOMAIN bytes : bytes[i] # Magic[1]
Idle == line = <<>> /\ Len(rx_buf) <= 3 /\ NoMagic(rx_buf)

(* What is due on a line of which the first k bytes are lost: the frames   *)
(* whose packets are left whole.  A packet that was cut off may leave its  *)
(* remainder before them.                                                  *)
WholeAfter(k) ==
  [i \in 1..(Len(line) - k) |->
     IF owed[i + k] # NoFrame /\ Len(Packet(owed[i + k])) <= i THEN owed[i + k]
     ELSE NoFrame]
Remainder(due) ==
  {i \in DOMAIN due : \A j \in DOMAIN due :
                        due[j] # NoFrame => i <= j - Len(Packet(due[j]))}
CleanCut(bytes, due) == \A i \in Remainder(due) : bytes[i] # Magic[1]

HistoryInit == Init /\ written = <<>> /\ relayed = <<>> /\ owed = <<>> /\ sound = TRUE

Reads == /\ Read
         /\ relayed' = relayed \o tx'
         /\ owed' = Tail(owed)
         /\ UNCHANGED <<written, sound>>

Writes(f) == /\ Len(written) < MaxFrames
             /\ HostWrites(f)
             /\ written' = Append(written, f)
             /\ sound' = (sound \/ Idle)
             /\ owed' = owed \o IF sound' THEN AtTheEnd(f) ELSE Nothing(Len(Packet(f)))
             /\ UNCHANGED relayed

Stops(f, k) == /\ Len(written) < MaxFrames
               /\ HostStops(f, k)
               /\ written' = Append(written, f)
               /\ sound' = FALSE
               /\ owed' = owed \o Nothing(k)
               /\ UNCHANGED relayed

(* After a stop of the host's the line may hold a piece of a packet among  *)
(* whole ones, so that only a line that was sound before stays sound.      *)
Restarts(k) == /\ Restart(k)
               /\ sound' = (sound /\ CleanCut(line', WholeAfter(k)))
               /\ owed' = IF sound' THEN WholeAfter(k) ELSE Nothing(Len(line'))
               /\ UNCHANGED <<written, relayed>>

HistoryNext ==
  \/ Reads
  \/ \E f \in Frame : \/ Writes(f)
                      \/ \E k \in 1..(Len(Packet(f)) - 1) : Stops(f, k)
                      \/ Receive(f) /\ UNCHANGED history
  \/ \E k \in 0..Len(line) : Restarts(k)

HistorySpec == HistoryInit /\ [][HistoryNext]_historyVars

(* The packet of f from its byte b+1 on, up to the next cut, is what the   *)
(* packet of g has from its byte d+1 on.                                   *)
ComesFrom(f, b, cuts, g, d) ==
  \A j \in 1..(Len(Packet(f)) - b) :
    (\A c \in cuts : ~(b < c /\ c < b + j)) =>
      j + d <= Len(Packet(g)) /\ Packet(f)[b + j] = Packet(g)[j + d]

(* No packet can be pieced together from others: from what follows the     *)
(* first d bytes of one, and the beginnings of some behind it.             *)
Unmistakable ==
  \A f, g \in Frame : \A d \in 0..Len(Packet(g)) :
    \A cuts \in SUBSET (1..(Len(Packet(f)) - 1)) :
      /\ ComesFrom(f, 0, cuts, g, d)
      /\ \A b \in cuts : \E h \in Frame : ComesFrom(f, b, cuts, h, 0)
      => cuts = {} /\ d = 0

(* What is broadcast was written by the host, in this order, at most once: *)
(* no restart of the bridge and no packet cut off makes it broadcast what  *)
(* nobody sent, twice or out of order, if frames are Unmistakable: the     *)
(* code has no checksum to tell a packet from what looks like one.         *)
InOrderAtMostOnce ==
  \E at \in [DOMAIN relayed -> DOMAIN written] :
    /\ \A i \in DOMAIN relayed : Broadcasts(written[at[i]]) = <<relayed[i]>>
    /\ \A i, j \in DOMAIN relayed : i < j => at[i] < at[j]

(* A frame that no fault touches is broadcast when its last byte is read   *)
(* (gateway.rs:28-38), no earlier and no later: also one that follows the  *)
(* rest of a packet whose beginning was missed, provided that no byte of   *)
(* this rest looks like a beginning.                                       *)
OwedIsForwarded ==
  [][Read /\ Head(owed) # NoFrame =>
       tx' = Broadcasts(Head(owed)) /\ rx_buf' = <<>>]_historyVars
=============================================================================
