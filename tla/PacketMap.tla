------------------------------- MODULE PacketMap -------------------------------
(***************************************************************************)
(* How a down track renumbers the packets it forwards: packetmap.Map       *)
(* (packetmap/packetmap.go), with its users in rtpconn/rtpconn.go, Write   *)
(* (called by the writer loop of the track and by retransmissions) and     *)
(* gotNACK.                                                                *)
(*                                                                         *)
(* Layers a client does not receive are dropped, and the packets after     *)
(* them renumbered so that the client does not take them for lost.  The    *)
(* client's requests for retransmission name the new numbers, Reverse      *)
(* turns them into the old ones.  All numbers are modulo W; the ring of    *)
(* intervals remembers the last MaxEntries renumberings.                   *)
(*                                                                         *)
(* Picture ids are left out: they change with delta (in Drop) and nowhere  *)
(* else.  Which packets belong to an unwanted layer is left open.          *)
(***************************************************************************)
EXTENDS Integers, Sequences, FiniteSetsExt

CONSTANTS
  W,            \* the number space, 2^16 in the code
  Far,          \* 8*1024 in the code: a longer jump starts the map anew
  MaxEntries,   \* the size of the ring, 128 in the code
  Starts,       \* the number of the first packet
  Skips,        \* how many packets the reader may miss at once
  Recent,       \* how late a packet may be, or how old to be retransmitted
  MaxPackets,   \* bound on the new packets
  MaxDrops      \* bound on the packets of unwanted layers

PacketMapAssumption ==
  /\ W \in Nat /\ Far \in Nat \ {0} /\ 4 * Far < W /\ W % 2 = 0
  /\ MaxEntries \in Nat \ {0} /\ Recent \in 1..Far
  /\ Starts \subseteq 0..(W - 1) /\ Skips \subseteq 0..(W \div 2 - 1)
  /\ MaxPackets \in Nat /\ MaxDrops \in Nat

VARIABLES
  next, delta, lastEntry, entries,  \* the fields of Map
  pc,        \* where each writer stands in Write
  packet,    \* the packet it holds
  out,       \* what the last step wrote to the client
  head,      \* the number after the newest packet written or dropped
  due,       \* the number owed to each recent packet, newest first
  packets, drops

map == <<next, delta, lastEntry, entries>>
writers == <<pc, packet>>
owed == <<head, due, drops>>
vars == <<next, delta, lastEntry, entries, pc, packet, out, head, due,
          packets, drops>>

(* rtpWriterLoop and the retransmissions of gotNACK, two goroutines.       *)
Writer == {"loop", "resend"}
Number == 0..(W - 1)
None == W          \* not a number: nothing written, nothing asked
Dropped == W       \* nothing owed

Nothing == [seqno |-> None, target |-> None, asked |-> None]
NoPacket == [seqno |-> None, wanted |-> TRUE, asked |-> None]

-----------------------------------------------------------------------------
(* compare, modulo W.                                                      *)
AtMost(m, n) == (n - m) % W < W \div 2
Less(m, n) == m # n /\ AtMost(m, n)
AtLeast(m, n) == m = n \/ ~ AtMost(m, n)

(* The loops of direct and Reverse: from the newest interval back to the   *)
(* first that does not start after n; n must then lie in it.  The answer   *)
(* is the delta of that interval, or nothing.                              *)
Back(i) == ((lastEntry - i) % Len(entries)) + 1
Search(n, start) ==
  LET started == {i \in 0..(Len(entries) - 1) : AtLeast(n, start[Back(i)])}
      j == Back(Min(started))
  IN  IF started # {} /\ Less(n, (start[j] + entries[j].count) % W)
      THEN {entries[j].delta} ELSE {}

(* direct searches the old numbers of the intervals, Reverse the new ones. *)
SourceStart == [i \in DOMAIN entries |-> entries[i].first]
TargetStart == [i \in DOMAIN entries |-> (entries[i].first + entries[i].delta) % W]
Direct(n) == {(n + d) % W : d \in Search(n, SourceStart)}

Plain == delta = 0 /\ entries = <<>>

(* Mutants: the targets overlap; the missing packets are not covered; the  *)
(* new numbers are searched among the old.                                 *)
NewEntryOverlapping(n) ==
  LET ff == (entries[lastEntry + 1].first + entries[lastEntry + 1].count) % W
      f == IF Less(ff, n) THEN ff ELSE n
  IN  [first |-> f, count |-> (n - f + 1) % W, delta |-> delta]
NewEntryNarrow(n) == [first |-> n, count |-> 1, delta |-> delta]
ReverseBySource(n) == IF Plain THEN {n}
                      ELSE {(n - d) % W : d \in Search(n, SourceStart)}

Reverse(n) == IF Plain THEN {n}
              ELSE {(n - d) % W : d \in Search(n, TargetStart)}

(* addMapping: packet n extends the newest interval, or starts one that    *)
(* also covers the packets missing before it.                              *)
NewEntry(n) ==
  LET e == entries[lastEntry + 1]
      d == (e.delta - delta) % W
      ff == (e.first + e.count + d) % W
      f == IF d < Far /\ Less(ff, n) THEN ff ELSE n
  IN  [first |-> f, count |-> (n - f + 1) % W, delta |-> delta]

Extended(n) ==
  [entries EXCEPT ![lastEntry + 1].count = (n - entries[lastEntry + 1].first + 1) % W]

AddMapping(n) ==
  IF delta = entries[lastEntry + 1].delta
  THEN entries' = Extended(n) /\ UNCHANGED lastEntry
  ELSE IF Len(entries) < MaxEntries
  THEN entries' = Append(entries, NewEntry(n)) /\ lastEntry' = Len(entries)
  ELSE /\ lastEntry' = (lastEntry + 1) % MaxEntries
       /\ entries' = [entries EXCEPT ![lastEntry' + 1] = NewEntry(n)]

(* Map(n): the answer, empty when n could not be mapped, and what it does  *)
(* to the map.                                                             *)
Ahead(n) == AtMost(next, n)
Restarts(n) == IF Ahead(n) THEN (n - next) % W > Far ELSE (next - n) % W > Far

Mapped(n) ==
  IF Plain \/ Restarts(n) THEN {n}
  ELSE IF Ahead(n) THEN {(n + delta) % W}
  ELSE Direct(n)

MapPlain(n) ==
  /\ Plain
  /\ next' = IF Ahead(n) \/ Restarts(n) THEN (n + 1) % W ELSE next
  /\ UNCHANGED <<delta, lastEntry, entries>>

MapAhead(n) ==
  /\ ~ Plain /\ Ahead(n) /\ ~ Restarts(n)
  /\ next' = (n + 1) % W
  /\ AddMapping(n) /\ UNCHANGED delta

(* reset, then n is the first packet again.                                *)
MapReset(n) ==
  /\ ~ Plain /\ Restarts(n)
  /\ next' = (n + 1) % W
  /\ delta' = 0 /\ lastEntry' = 0 /\ entries' = <<>>

MapLate(n) == ~ Plain /\ ~ Ahead(n) /\ ~ Restarts(n) /\ UNCHANGED map

(* Drop(n) when it succeeds: the map expects just this packet.             *)
FirstEntry(n) == <<[first |-> (n - Far) % W, count |-> Far, delta |-> 0]>>
Dropping(n) ==
  /\ n = next
  /\ entries' = IF entries = <<>> THEN FirstEntry(n) ELSE entries
  /\ delta' = (delta - 1) % W
  /\ next' = (n + 1) % W
  /\ UNCHANGED lastEntry

-----------------------------------------------------------------------------
(* What is owed: a packet is due its own number less the packets dropped   *)
(* before it, missing packets included, until the stream jumps.            *)

New(n) == AtMost(head, n)
Owe(n, target) ==
  LET gap == (n - head) % W
      missing == [i \in 1..gap |-> (n - i - drops) % W]
      all == <<target>> \o missing \o (IF gap > Far THEN <<>> ELSE due)
  IN  IF New(n)
      THEN /\ head' = (n + 1) % W
           /\ due' = SubSeq(all, 1, Min({Recent, IF gap > Far THEN 1 ELSE Len(all)}))
      ELSE UNCHANGED <<head, due>>

(* A jump of the stream ends what was owed.                                *)
Jump(n) == New(n) /\ (n - head) % W > Far

-----------------------------------------------------------------------------
Init ==
  /\ next = 0 /\ delta = 0 /\ lastEntry = 0 /\ entries = <<>>
  /\ pc = [w \in Writer |-> "idle"]
  /\ packet = [w \in Writer |-> NoPacket]
  /\ out = Nothing
  /\ head \in Starts /\ due = <<>> /\ packets = 0 /\ drops = 0

Take(w, n, wanted, asked) ==
  /\ pc[w] = "idle"
  /\ pc' = [pc EXCEPT ![w] = IF wanted THEN "map" ELSE "drop"]
  /\ packet' = [packet EXCEPT ![w] = [seqno |-> n, wanted |-> wanted, asked |-> asked]]
  /\ out' = Nothing
  /\ UNCHANGED <<map, owed>>

(* The writer loop has a new packet, or one that comes late.               *)
Forward(skip, wanted) ==
  /\ packets < MaxPackets
  /\ wanted \/ drops < MaxDrops
  /\ packets' = packets + 1
  /\ Take("loop", (head + skip) % W, wanted, None)

Late(k, wanted) ==
  /\ k <= Len(due)
  /\ Take("loop", (head - k) % W, wanted, None)
  /\ UNCHANGED packets

(* gotNACK: the client misses a number it was owed.  The packet is sent    *)
(* again if the map knows its number and the cache still holds it.         *)
Cached == {(head - k) % W : k \in 1..Recent}
Nack(k, wanted) ==
  /\ k <= Len(due) /\ due[k] # Dropped
  /\ \E n \in Reverse(due[k]) \cap Cached : Take("resend", n, wanted, due[k])
  /\ UNCHANGED packets

(* A writer in the middle of Write does not sleep while the stream moves   *)
(* on by Far packets: its packet would start the map anew.  Assumed.       *)
InTime(w) ==
  New(packet[w].seqno) =>
    \A v \in Writer \ {w} :
      pc[v] # "idle" => (packet[w].seqno + 1 - packet[v].seqno) % W <= Far

(* Write on a packet of an unwanted layer: dropped, if the map agrees.     *)
WriteDrop(w) ==
  /\ pc[w] = "drop"
  /\ InTime(w)
  /\ Dropping(packet[w].seqno)
  /\ pc' = [pc EXCEPT ![w] = "idle"]
  /\ packet' = [packet EXCEPT ![w] = NoPacket]
  /\ Owe(packet[w].seqno, Dropped)
  /\ drops' = drops + 1
  /\ out' = Nothing /\ UNCHANGED packets

WriteKeep(w) ==
  /\ pc[w] = "drop" /\ packet[w].seqno # next
  /\ pc' = [pc EXCEPT ![w] = "map"]
  /\ out' = Nothing
  /\ UNCHANGED <<map, packet, owed, packets>>

(* The rest of Write: the packet goes out under the number of the map.     *)
WriteMap(w) ==
  LET n == packet[w].seqno IN
  /\ pc[w] = "map"
  /\ InTime(w)
  /\ MapPlain(n) \/ MapAhead(n) \/ MapReset(n) \/ MapLate(n)
  /\ out' = [seqno |-> n, asked |-> packet[w].asked,
             target |-> IF Mapped(n) = {} THEN None ELSE CHOOSE t \in Mapped(n) : TRUE]
  /\ pc' = [pc EXCEPT ![w] = "idle"]
  /\ packet' = [packet EXCEPT ![w] = NoPacket]
  /\ drops' = IF Jump(n) THEN 0 ELSE drops
  /\ Owe(n, (n - drops') % W)
  /\ UNCHANGED packets

Next ==
  \/ \E wanted \in BOOLEAN :
       \/ \E skip \in Skips : Forward(skip, wanted)
       \/ \E k \in 1..Recent : Late(k, wanted) \/ Nack(k, wanted)
  \/ \E w \in Writer : WriteDrop(w) \/ WriteKeep(w) \/ WriteMap(w)

Spec == Init /\ [][Next]_vars

-----------------------------------------------------------------------------
(* Numbers stay in range, and the newest interval is in the ring.          *)
TypeOK ==
  /\ next \in Number /\ delta \in Number /\ head \in Number
  /\ \A i \in 1..Len(entries) : entries[i] \in [first : Number, count : Number, delta : Number]
  /\ Len(entries) <= MaxEntries
  /\ lastEntry \in 0..(MaxEntries - 1) /\ (entries # <<>> => lastEntry < Len(entries))
  /\ pc \in [Writer -> {"idle", "drop", "map"}]
  /\ packet \in [Writer -> [seqno : Number \cup {None}, wanted : BOOLEAN,
                            asked : Number \cup {None}]]
  /\ out \in [seqno : Number \cup {None}, target : Number \cup {None},
              asked : Number \cup {None}]
  /\ Len(due) <= Recent /\ \A k \in 1..Len(due) : due[k] \in Number \cup {Dropped}

Written == out.target # None
IsRecent(k) == k \in 1..Len(due) /\ (head - k) % W = out.seqno

(* A packet, however late and however often it is written, goes out under  *)
(* its own number less the packets dropped before it, and one that was     *)
(* dropped does not go out any more: Map, direct and addMapping.           *)
SentAsDue == Written => \A k \in 1..Recent : IsRecent(k) => out.target = due[k]

(* addMapping: "make sure the targets don't overlap".  No packet is        *)
(* written under the number of another.                                    *)
NoOverlap == Written => \A k \in 1..Len(due) : out.target = due[k] => IsRecent(k)

(* A recent packet that was not dropped is not refused: the intervals      *)
(* leave no gap (the comment in addMapping, "expand the interval to cover  *)
(* missing values"), and the ring is long enough.                          *)
NoneRefused ==
  (out.seqno # None /\ ~ Written) => \A k \in 1..Recent : IsRecent(k) => due[k] = Dropped

(* What a request for retransmission brings goes out under the number the  *)
(* client asked for: gotNACK's Reverse and Write's Map are two steps, with *)
(* new packets and renumberings in between.                                *)
SentAsAsked == Written /\ out.asked # None => out.target = out.asked
=============================================================================
