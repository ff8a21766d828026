---------------------------- MODULE FilesProofs ----------------------------
(***************************************************************************)
(* Theorems about FileTransfer, for files of any size and any number of ICE *)
(* candidates.  FilesInv is the inductive invariant: what each row can be  *)
(* (Rows), in which order invitation, offer and answer go (Handshake), how *)
(* the chunks that were written, are in flight and were received add up    *)
(* (Channel), and where each candidate is (Kept, OfferLeads).  There is one *)
(* lemma per action, or two, when what it does to the sender and to the    *)
(* receiver is not the same; each proves the parts of FilesInv in turn.    *)
(***************************************************************************)
EXTENDS FileTransfer, SequenceTheorems, FiniteSetTheorems, TLAPS

Message == {"invite", "offer", "answer", "ice", "cancel", "gone"}

FilesTyped ==
    /\ FileTransferAssumption
    /\ f \in [Page -> File]
    /\ wire \in [Page -> Seq(Message)]
    /\ chan \in [state : {"none", "open", "closed"}, down : Seq(Nat), up : Seq({"done"})]
    /\ online \in [Page -> BOOLEAN]
    /\ size \in 0..MaxSize
    /\ ice \in [Page -> [sent : 0..MaxIce, added : Nat]]
    /\ saved \in 0..1

Closed(r) == r.state = "closed"

Waiting(m, p) == Count(m, wire[p])

nInvite == Waiting("invite", "down")
nOffer == Waiting("offer", "up")
nAnswer == Waiting("answer", "down")
nIceUp == Waiting("ice", "up")
nIceDown == Waiting("ice", "down")
nCancelUp == Waiting("cancel", "up")
nCancelDown == Waiting("cancel", "down")

Fresh(r) == r.pc = "null" /\ ~r.dc /\ r.len = 0 /\ r.held = 0 /\ r.busy = "no"

(* What each of the two records can be.                                    *)
Row(r) ==
    /\ r.state = "none" => Fresh(r) /\ r.shown = "nothing"
    /\ Closed(r) => Fresh(r) /\ r.shown \in {"cancelled", "done"}
    /\ r.shown = "cancelled" => Closed(r)
    /\ r.pc = "stable" => r.held = 0

UpRow(r) ==
    /\ Row(r)
    /\ r.pc # "have-local-offer" /\ r.state # "done"
    /\ r.pc \in {"new", "have-remote-offer"} => r.busy = "answer"
    /\ r.pc \notin {"new", "have-remote-offer"} => r.busy = "no"
    /\ r.dc => r.pc = "stable"
    /\ ~r.dc => r.len = 0
    /\ r.shown = "done" => Closed(r)

DownRow(r) ==
    /\ Row(r)
    /\ r.pc # "have-remote-offer"
    /\ r.dc <=> r.pc # "null"
    /\ r.busy = "receive" <=> r.pc = "new"
    /\ r.busy = "receiveFile" => r.pc = "have-local-offer"
    /\ r.busy = "handshake" => r.pc = "stable"
    /\ r.busy = "handshake" <=> r.state = "done"
    /\ r.shown = "offer" <=> r.state = "inviting"
    /\ r.state = "inviting" => r.pc = "null"
    /\ r.state = "done" => r.shown = "done"
    /\ r.busy # "answer"

Rows == UpRow(f["up"]) /\ DownRow(f["down"])

(* The receiver waits for the answer.                                      *)
Offered == f["down"].pc = "have-local-offer" /\ f["down"].busy = "no"

(* One invitation, one offer, one answer, in that order.                   *)
Handshake ==
    /\ f["up"].state = "none" => f["down"].state = "none"
    /\ nInvite \in 0..1
    /\ nInvite # 0 => f["down"].state = "none" /\ f["up"].state # "none"
    /\ nOffer \in 0..1
    /\ nOffer # 0 =>
         /\ f["up"].pc = "null" /\ nAnswer = 0
         /\ Offered \/ Closed(f["down"])
    /\ nAnswer \in 0..1
    /\ nAnswer # 0 =>
         /\ f["up"].pc = "stable" \/ Closed(f["up"])
         /\ Offered \/ Closed(f["down"])
    /\ f["up"].pc \in {"new", "have-remote-offer"} =>
         /\ nAnswer = 0
         /\ Offered \/ Closed(f["down"])
    /\ ~Closed(f["down"]) /\ f["down"].pc \in {"null", "new"} =>
         f["up"].pc = "null" /\ ice["up"].sent = 0 /\ ice["down"].sent = 0
    /\ f["down"].pc = "stable" \/ f["down"].busy = "receiveFile" =>
         f["up"].pc = "stable" \/ Closed(f["up"])

(* What the receiver has, and what is on its way to it.                    *)
Chunks == f["down"].len + Len(chan.down)

(* The chunks, and the message that ends the transfer.                     *)
Channel ==
    /\ chan.state = "none" => /\ chan.down = <<>> /\ chan.up = <<>>
                              /\ ~f["up"].dc /\ f["down"].len = 0
    /\ chan.state # "none" => /\ f["up"].pc = "stable" \/ Closed(f["up"])
                              /\ f["down"].pc = "stable" \/ Closed(f["down"])
    /\ Chunks <= size /\ f["up"].len <= size
    /\ f["up"].dc => Chunks <= f["up"].len
    /\ saved = 1 => f["down"].busy = "handshake" \/ Closed(f["down"])
    /\ chan.up # <<>> \/ f["down"].busy = "handshake" \/ f["up"].shown = "done" => saved = 1

OfferFirst(s) ==
    \A i \in 1..Len(s) : s[i] = "ice" => \E j \in 1..(i - 1) : s[j] = "offer"

(* Each candidate that was sent is on its way, held, or added.             *)
Kept ==
    /\ online["up"] /\ ~Closed(f["up"]) =>
         ice["down"].sent = ice["up"].added + f["up"].held + nIceUp
    /\ online["down"] /\ ~Closed(f["down"]) =>
         ice["up"].sent = ice["down"].added + f["down"].held + nIceDown

(* No candidate arrives before the offer.                                  *)
OfferLeads ==
    online["up"] /\ ~Closed(f["up"]) /\ f["up"].pc = "null" =>
      /\ OfferFirst(wire["up"])
      /\ online["down"] /\ f["down"].pc = "have-local-offer" =>
           nOffer # 0

OneCancel ==
    /\ nCancelUp \in 0..1 /\ nCancelDown \in 0..1
    /\ nCancelUp # 0 => Closed(f["down"])
    /\ nCancelDown # 0 => Closed(f["up"])

FilesInv == FilesTyped /\ Rows /\ Handshake /\ Channel /\ Kept /\ OfferLeads /\ OneCancel

-----------------------------------------------------------------------------
(* How many times a message is in a queue.                                 *)

Indices(m, s) == {i \in DOMAIN s : s[i] = m}

LEMMA CountIs == \A m, s : Count(m, s) = Cardinality(Indices(m, s))
BY DEF Count, Indices

LEMMA CountInNat ==
  ASSUME NEW s \in Seq(Message), NEW m
  PROVE  /\ IsFiniteSet(Indices(m, s)) /\ Count(m, s) = Cardinality(Indices(m, s))
         /\ Count(m, s) \in Nat
<1>1. DOMAIN s = 1..Len(s) /\ Len(s) \in Nat
  BY LenProperties
<1>2. IsFiniteSet(1..Len(s))
  BY <1>1, FS_Interval
<1>3. IsFiniteSet(Indices(m, s))
  BY <1>1, <1>2, FS_Subset DEF Indices
<1>4. QED
  BY <1>3, FS_CardinalityType, CountIs

LEMMA CountEmpty == \A m : Count(m, <<>>) = 0
<1> TAKE m
<1>1. Indices(m, <<>>) = {}
  BY DEF Indices
<1>2. QED
  BY <1>1, FS_EmptySet, CountIs

LEMMA CountAppend ==
  ASSUME NEW s \in Seq(Message), NEW x \in Message, NEW m
  PROVE  Count(m, Append(s, x)) = Count(m, s) + (IF x = m THEN 1 ELSE 0)
<1>1. /\ DOMAIN s = 1..Len(s) /\ Len(s) \in Nat
      /\ Append(s, x) \in Seq(Message) /\ Len(Append(s, x)) = Len(s) + 1
      /\ DOMAIN Append(s, x) = 1..(Len(s) + 1)
      /\ \A i \in 1..Len(s) : Append(s, x)[i] = s[i]
      /\ Append(s, x)[Len(s) + 1] = x
  BY AppendProperties, LenProperties
<1>2. Len(s) + 1 \notin Indices(m, s)
  BY <1>1 DEF Indices
<1>3. Cardinality(Indices(m, s) \cup {Len(s) + 1}) = Cardinality(Indices(m, s)) + 1
  BY <1>2, CountInNat, FS_AddElement
<1>4. CASE x = m
  <2>1. Indices(m, Append(s, x)) = Indices(m, s) \cup {Len(s) + 1}
    BY <1>1, <1>4 DEF Indices
  <2>2. QED
    BY <1>3, <1>4, <2>1, CountIs
<1>5. CASE x # m
  <2>1. Indices(m, Append(s, x)) = Indices(m, s)
    BY <1>1, <1>5 DEF Indices
  <2>2. QED
    BY <1>5, <2>1, CountIs, CountInNat
<1>6. QED
  BY <1>4, <1>5

LEMMA CountTail ==
  ASSUME NEW s \in Seq(Message), s # <<>>, NEW m
  PROVE  Count(m, s) = Count(m, Tail(s)) + (IF Head(s) = m THEN 1 ELSE 0)
<1> DEFINE rest == Indices(m, s) \ {1}
           shift == [i \in Indices(m, Tail(s)) |-> i + 1]
<1>1. /\ DOMAIN s = 1..Len(s) /\ Len(s) \in Nat \ {0} /\ Head(s) = s[1]
      /\ Tail(s) \in Seq(Message) /\ DOMAIN Tail(s) = 1..(Len(s) - 1)
      /\ \A i \in 1..(Len(s) - 1) : Tail(s)[i] = s[i + 1]
  BY HeadTailProperties, LenProperties, EmptySeq
<1>2. shift \in Bijection(Indices(m, Tail(s)), rest)
  <2>1. \A i \in Indices(m, Tail(s)) : i \in Nat /\ i + 1 \in rest
    BY <1>1 DEF Indices
  <2>2. \A k \in rest : k - 1 \in Indices(m, Tail(s)) /\ (k - 1) + 1 = k
    BY <1>1 DEF Indices
  <2> HIDE DEF rest
  <2>3. shift \in [Indices(m, Tail(s)) -> rest]
    BY <2>1
  <2>4. shift \in Injection(Indices(m, Tail(s)), rest)
    BY <2>1, <2>3 DEF Injection, IsInjective
  <2>5. shift \in Surjection(Indices(m, Tail(s)), rest)
    BY <2>2, <2>3 DEF Surjection
  <2>6. QED
    BY <2>4, <2>5 DEF Bijection
<1>3. IsFiniteSet(Indices(m, Tail(s))) /\ IsFiniteSet(Indices(m, s))
  BY <1>1, CountInNat
<1>4. Cardinality(rest) = Count(m, Tail(s))
  <2>1. ExistsBijection(Indices(m, Tail(s)), rest)
    BY <1>2 DEF ExistsBijection
  <2> HIDE DEF rest
  <2>2. QED
    BY <1>1, <1>3, <2>1, FS_Bijection, CountInNat DEF ExistsBijection
<1>5. 1 \in Indices(m, s) <=> Head(s) = m
  BY <1>1 DEF Indices
<1>6. /\ Cardinality(rest) = IF 1 \in Indices(m, s) THEN Cardinality(Indices(m, s)) - 1
                             ELSE Cardinality(Indices(m, s))
      /\ Cardinality(Indices(m, s)) \in Nat
  BY <1>3, FS_RemoveElement, FS_CardinalityType
<1>7. QED
  BY <1>4, <1>5, <1>6, CountInNat

LEMMA OfferFirstEmpty == OfferFirst(<<>>)
BY DEF OfferFirst

LEMMA OfferFirstAppend ==
  ASSUME NEW s \in Seq(Message), NEW x \in Message, OfferFirst(s),
         x = "ice" => Count("offer", s) # 0
  PROVE  OfferFirst(Append(s, x))
<1>1. /\ Len(s) \in Nat /\ Len(Append(s, x)) = Len(s) + 1
      /\ \A i \in 1..Len(s) : Append(s, x)[i] = s[i]
      /\ Append(s, x)[Len(s) + 1] = x
  BY AppendProperties, LenProperties
<1>2. x = "ice" => \E j \in 1..Len(s) : s[j] = "offer"
  <2>1. Indices("offer", s) = {} => Count("offer", s) = 0
    BY CountIs, FS_EmptySet
  <2>2. QED
    BY <2>1, LenProperties DEF Indices
<1>3. SUFFICES ASSUME NEW i \in 1..(Len(s) + 1), Append(s, x)[i] = "ice"
               PROVE  \E j \in 1..(i - 1) : Append(s, x)[j] = "offer"
  BY <1>1 DEF OfferFirst
<1>4. CASE i = Len(s) + 1
  BY <1>1, <1>2, <1>3, <1>4
<1>5. CASE i \in 1..Len(s)
  <2>1. PICK j \in 1..(i - 1) : s[j] = "offer"
    BY <1>1, <1>3, <1>5 DEF OfferFirst
  <2>2. QED
    BY <1>1, <1>5, <2>1
<1>6. QED
  BY <1>1, <1>4, <1>5

LEMMA OfferFirstTail ==
  ASSUME NEW s \in Seq(Message), s # <<>>, OfferFirst(s)
  PROVE  Head(s) # "ice" /\ (Head(s) # "offer" => OfferFirst(Tail(s)))
<1>1. /\ Len(s) \in Nat \ {0} /\ Head(s) = s[1] /\ Len(Tail(s)) = Len(s) - 1
      /\ \A i \in 1..(Len(s) - 1) : Tail(s)[i] = s[i + 1]
  BY HeadTailProperties, LenProperties, EmptySeq
<1>2. Head(s) # "ice"
  BY <1>1 DEF OfferFirst
<1>3. ASSUME Head(s) # "offer", NEW i \in 1..(Len(s) - 1), Tail(s)[i] = "ice"
      PROVE  \E j \in 1..(i - 1) : Tail(s)[j] = "offer"
  <2>1. PICK j \in 1..i : s[j] = "offer"
    BY <1>1, <1>3 DEF OfferFirst
  <2>2. j - 1 \in 1..(i - 1) /\ Tail(s)[j - 1] = "offer"
    BY <1>1, <1>3, <2>1
  <2>3. QED
    BY <2>2
<1>4. QED
  BY <1>1, <1>2, <1>3 DEF OfferFirst

CountsAre == <<nInvite, nOffer, nAnswer, nIceUp, nIceDown, nCancelUp, nCancelDown>>

LEMMA CountsInNat ==
  ASSUME FilesTyped
  PROVE  /\ nInvite \in Nat /\ nOffer \in Nat /\ nAnswer \in Nat
         /\ nIceUp \in Nat /\ nIceDown \in Nat
         /\ nCancelUp \in Nat /\ nCancelDown \in Nat
BY CountInNat DEF FilesTyped, Page, Waiting, nInvite, nOffer, nAnswer, nIceUp,
   nIceDown, nCancelUp, nCancelDown

LEMMA CountsStay == wire' = wire => UNCHANGED CountsAre
BY DEF CountsAre, Waiting, nInvite, nOffer, nAnswer, nIceUp, nIceDown, nCancelUp,
       nCancelDown

(* A message is put at the end of the peer's queue.                        *)
LEMMA PostCounts ==
  ASSUME FilesTyped, NEW p \in Page, NEW x \in Message, Post(p, x)
  PROVE  /\ wire' \in [Page -> Seq(Message)]
         /\ wire'[Other(p)] = Append(wire[Other(p)], x) /\ wire'[p] = wire[p]
         /\ \A m : /\ Waiting(m, p)' = Waiting(m, p)
                   /\ Waiting(m, Other(p))' =
                        Waiting(m, Other(p)) + (IF x = m THEN 1 ELSE 0)
         /\ OfferFirst(wire["up"]) /\ (p = "down" /\ x = "ice" => Waiting("offer", "up") # 0)
              => OfferFirst(wire'["up"])
<1>1. Other(p) \in Page /\ Other(p) # p /\ wire[Other(p)] \in Seq(Message)
  BY DEF Other, Page, FilesTyped
<1>2. wire' = [wire EXCEPT ![Other(p)] = Append(wire[Other(p)], x)]
  BY DEF Post
<1>3. /\ wire' \in [Page -> Seq(Message)]
      /\ wire'[Other(p)] = Append(wire[Other(p)], x) /\ wire'[p] = wire[p]
  BY <1>1, <1>2, AppendProperties DEF FilesTyped
<1>4. \A m : Count(m, wire'[Other(p)]) =
               Count(m, wire[Other(p)]) + (IF x = m THEN 1 ELSE 0)
  BY <1>1, <1>3, CountAppend
<1>5. OfferFirst(wire["up"]) /\ (p = "down" /\ x = "ice" => Waiting("offer", "up") # 0)
        => OfferFirst(wire'["up"])
  <2>1. CASE p = "up"
    BY <1>3, <2>1
  <2>2. CASE p = "down"
    BY <1>1, <1>3, <2>2, OfferFirstAppend DEF Other, Waiting
  <2>3. QED
    BY <2>1, <2>2 DEF Page
<1>6. QED
  BY <1>3, <1>4, <1>5 DEF Waiting

(* The first message is taken from the queue.                              *)
LEMMA ConsumeCounts ==
  ASSUME FilesTyped, NEW p \in Page, NEW x, Incoming(p, x), Consume(p)
  PROVE  /\ wire' \in [Page -> Seq(Message)]
         /\ online[p] /\ wire'[Other(p)] = wire[Other(p)]
         /\ \A m : /\ Waiting(m, Other(p))' = Waiting(m, Other(p))
                   /\ x = m => Waiting(m, p) # 0 /\ Waiting(m, p)' = Waiting(m, p) - 1
                   /\ x # m => Waiting(m, p)' = Waiting(m, p)
         /\ OfferFirst(wire["up"]) =>
              /\ p = "up" => x # "ice"
              /\ p # "up" \/ x # "offer" => OfferFirst(wire'["up"])
<1>1. /\ Other(p) \in Page /\ Other(p) # p /\ wire[p] \in Seq(Message)
      /\ wire[p] # <<>> /\ Head(wire[p]) = x /\ online[p]
  BY DEF Other, Page, FilesTyped, Incoming
<1>2. wire' = [wire EXCEPT ![p] = Tail(wire[p])] /\ Tail(wire[p]) \in Seq(Message)
  BY <1>1, HeadTailProperties DEF Consume
<1>3. /\ wire' \in [Page -> Seq(Message)]
      /\ wire'[p] = Tail(wire[p]) /\ wire'[Other(p)] = wire[Other(p)]
  BY <1>1, <1>2 DEF FilesTyped
<1>4. ASSUME NEW m
      PROVE  /\ x = m => Count(m, wire[p]) # 0
                          /\ Count(m, wire'[p]) = Count(m, wire[p]) - 1
             /\ x # m => Count(m, wire'[p]) = Count(m, wire[p])
  <2> DEFINE rest == Count(m, Tail(wire[p]))
  <2>1. rest \in Nat /\ Count(m, wire'[p]) = rest
    BY <1>2, <1>3, CountInNat
  <2>2. Count(m, wire[p]) = rest + (IF x = m THEN 1 ELSE 0)
    BY <1>1, CountTail
  <2> HIDE DEF rest
  <2>3. QED
    BY <2>1, <2>2
<1>5. OfferFirst(wire["up"]) =>
        /\ p = "up" => x # "ice"
        /\ p # "up" \/ x # "offer" => OfferFirst(wire'["up"])
  <2>1. CASE p = "down"
    BY <1>3, <2>1 DEF Other
  <2>2. CASE p = "up"
    BY <1>1, <1>3, <2>2, OfferFirstTail
  <2>3. QED
    BY <2>1, <2>2 DEF Page
<1>6. QED
  BY <1>1, <1>3, <1>4, <1>5 DEF Waiting

LEMMA Bounds ==
    /\ FilesTyped => MaxSize \in Nat /\ MaxIce \in Nat
    /\ FilesInv => MaxSize \in Nat /\ MaxIce \in Nat
BY DEF FilesInv, FilesTyped, FileTransferAssumption

(* The fields of a record.                                                 *)
Is(r, state, pcIs, dc, len, held, busy, shown) ==
    /\ r \in File
    /\ r.state = state /\ r.pc = pcIs /\ r.dc = dc /\ r.len = len
    /\ r.held = held /\ r.busy = busy /\ r.shown = shown
    /\ r.len \in 0..MaxSize /\ r.held \in 0..MaxIce

LEMMA RowsAre ==
  ASSUME FilesTyped, NEW p \in Page
  PROVE  /\ Is(f[p], f[p].state, f[p].pc, f[p].dc, f[p].len, f[p].held, f[p].busy, f[p].shown)
BY DEF FilesTyped, Is, File

(* A connection that becomes stable.                                       *)
StableRow(r) == [r EXCEPT !.pc = "stable", !.busy = "no", !.held = 0,
                          !.state = "connected", !.shown = "connected"]

LEMMA StableRowIs ==
  ASSUME FilesInv, NEW r \in File
  PROVE  Is(StableRow(r), "connected", "stable", r.dc, r.len, 0, "no", "connected")
<1>1. /\ StableRow(r).state = "connected" /\ StableRow(r).pc = "stable"
      /\ StableRow(r).dc = r.dc /\ StableRow(r).len = r.len /\ StableRow(r).held = 0
      /\ StableRow(r).busy = "no" /\ StableRow(r).shown = "connected"
  BY DEF StableRow, File
<1>2. StableRow(r) \in File
  <2> DEFINE q == [r EXCEPT !.pc = "stable", !.busy = "no", !.held = 0]
  <2>1. 0 \in 0..MaxIce
    BY Bounds
  <2>2. q \in File
    BY <2>1 DEF File
  <2>3. StableRow(r) = [q EXCEPT !.state = "connected", !.shown = "connected"]
    BY DEF StableRow, File
  <2> HIDE DEF q
  <2>4. QED
    BY <2>2, <2>3 DEF File
<1>3. QED
  BY <1>1, <1>2 DEF Is, File

LEMMA ChunksAre ==
  ASSUME FilesTyped
  PROVE  Len(chan.down) \in Nat /\ size \in Nat /\ size <= MaxSize
BY Bounds, LenProperties DEF FilesTyped

LEMMA IceAre ==
  ASSUME FilesTyped
  PROVE  /\ ice["up"].sent \in Nat /\ ice["up"].added \in Nat
         /\ ice["down"].sent \in Nat /\ ice["down"].added \in Nat
         /\ ice["up"].sent <= MaxIce /\ ice["down"].sent <= MaxIce
BY Bounds DEF FilesTyped, Page

LEMMA IceSent ==
  ASSUME FilesTyped, NEW p \in Page, ice[p].sent < MaxIce,
         ice' = [ice EXCEPT ![p].sent = @ + 1]
  PROVE  /\ ice' \in [Page -> [sent : 0..MaxIce, added : Nat]]
         /\ ice'[p].sent = ice[p].sent + 1 /\ ice'[p].added = ice[p].added
         /\ ice'[Other(p)] = ice[Other(p)]
<1> DEFINE r == [ice[p] EXCEPT !.sent = @ + 1]
<1>1. ice[p] \in [sent : 0..MaxIce, added : Nat]
  BY DEF FilesTyped
<1>2. ice[p].sent + 1 \in 0..MaxIce
  BY <1>1, Bounds
<1>3. /\ r \in [sent : 0..MaxIce, added : Nat]
      /\ r.sent = ice[p].sent + 1 /\ r.added = ice[p].added
  BY <1>1, <1>2
<1>4. ice' = [ice EXCEPT ![p] = r]
  BY DEF FilesTyped
<1> HIDE DEF r
<1>5. ice \in [Page -> [sent : 0..MaxIce, added : Nat]]
  BY DEF FilesTyped
<1>6. ice' \in [Page -> [sent : 0..MaxIce, added : Nat]] /\ ice'[p] = r
  BY <1>3, <1>4, <1>5
<1>7. ice'[Other(p)] = ice[Other(p)]
  BY <1>4, <1>5 DEF Other, Page
<1>8. QED
  BY <1>3, <1>6, <1>7

LEMMA IceAdded ==
  ASSUME FilesTyped, NEW p \in Page, NEW k \in Nat,
         ice' = [ice EXCEPT ![p].added = @ + k]
  PROVE  /\ ice' \in [Page -> [sent : 0..MaxIce, added : Nat]]
         /\ ice'[p].sent = ice[p].sent /\ ice'[p].added = ice[p].added + k
         /\ ice'[Other(p)] = ice[Other(p)]
<1> DEFINE r == [ice[p] EXCEPT !.added = @ + k]
<1>1. ice[p] \in [sent : 0..MaxIce, added : Nat]
  BY DEF FilesTyped
<1>2. ice[p].added + k \in Nat
  BY <1>1
<1>3. /\ r \in [sent : 0..MaxIce, added : Nat]
      /\ r.sent = ice[p].sent /\ r.added = ice[p].added + k
  BY <1>1, <1>2
<1>4. ice' = [ice EXCEPT ![p] = r]
  BY DEF FilesTyped
<1> HIDE DEF r
<1>5. ice \in [Page -> [sent : 0..MaxIce, added : Nat]]
  BY DEF FilesTyped
<1>6. ice' \in [Page -> [sent : 0..MaxIce, added : Nat]] /\ ice'[p] = r
  BY <1>3, <1>4, <1>5
<1>7. ice'[Other(p)] = ice[Other(p)]
  BY <1>4, <1>5 DEF Other, Page
<1>8. QED
  BY <1>3, <1>6, <1>7

LEMMA sendFileKeeps == FilesInv /\ sendFile => FilesInv'
<1> SUFFICES ASSUME FilesInv, sendFile PROVE FilesInv'
  OBVIOUS
<1> DEFINE Up == f["up"]
           Dn == f["down"]
<1>1. /\ Is(Up, Up.state, Up.pc, Up.dc, Up.len, Up.held, Up.busy, Up.shown)
      /\ Is(Dn, Dn.state, Dn.pc, Dn.dc, Dn.len, Dn.held, Dn.busy, Dn.shown)
  BY RowsAre DEF FilesInv, Page
<1>t2. wire' \in [Page -> Seq(Message)]
  BY PostCounts DEF FilesInv, sendFile, Page, Message
<1>2. /\ wire'["up"] = wire["up"]
      /\ UNCHANGED <<nOffer, nAnswer, nIceUp, nIceDown, nCancelUp, nCancelDown>>
      /\ nInvite' = nInvite + 1
  BY PostCounts, CountsInNat
     DEF FilesInv, sendFile, Page, Other, Message, Waiting, nInvite, nOffer, nAnswer,
          nIceUp, nIceDown, nCancelUp, nCancelDown
<1>3. /\ f' \in [Page -> File] /\ f'["down"] = f["down"]
      /\ Is(f'["up"], "inviting", Up.pc, Up.dc, Up.len, Up.held, Up.busy, "offer")
  BY <1>1, Bounds DEF FilesInv, FilesTyped, sendFile, Page, File, Is
<1>4. UNCHANGED <<chan, online, size, ice, saved>>
  BY DEF sendFile
<1>5. Up.state = "none"
  BY DEF sendFile
<1>21. FilesTyped'
  BY <1>t2, <1>3, <1>4
     DEF FilesInv, FilesTyped
<1>22. Rows'
  BY <1>1, <1>3, <1>5
     DEF FilesInv, Rows, UpRow, DownRow, Row, Fresh, Is, Closed
<1>23. Handshake'
  BY <1>1, <1>2, <1>3, <1>4, <1>5, CountsInNat
     DEF FilesInv, Handshake, Offered, CountsAre, Rows, UpRow, DownRow, Row, Fresh, Is, Closed
<1>24. Channel'
  BY <1>1, <1>3, <1>4, <1>5, ChunksAre, Bounds
     DEF FilesInv, Channel, Chunks, Rows, UpRow, DownRow, Row, Fresh, Is, Closed
<1>25. Kept'
  BY <1>1, <1>2, <1>3, <1>4, <1>5, CountsInNat, IceAre, Bounds
     DEF FilesInv, Kept, Handshake, CountsAre, Rows, UpRow, DownRow, Row, Fresh, Is, Closed
<1>26. OfferLeads'
  BY <1>1, <1>2, <1>3, <1>4, <1>5, CountsInNat
     DEF FilesInv, OfferLeads, Handshake, Offered, CountsAre, Rows, UpRow, DownRow, Row,
          Fresh, Is, Closed
<1>27. OneCancel'
  BY <1>1, <1>2, <1>3, <1>4, <1>5, CountsInNat
     DEF FilesInv, OneCancel, CountsAre, Rows, UpRow, DownRow, Row, Fresh, Is, Closed
<1>28. QED
  BY <1>21, <1>22, <1>23, <1>24, <1>25, <1>26, <1>27 DEF FilesInv

LEMMA GotInviteKeeps == FilesInv /\ GotInvite => FilesInv'
<1> SUFFICES ASSUME FilesInv, GotInvite PROVE FilesInv'
  OBVIOUS
<1> DEFINE Up == f["up"]
           Dn == f["down"]
<1>1. /\ Is(Up, Up.state, Up.pc, Up.dc, Up.len, Up.held, Up.busy, Up.shown)
      /\ Is(Dn, Dn.state, Dn.pc, Dn.dc, Dn.len, Dn.held, Dn.busy, Dn.shown)
  BY RowsAre DEF FilesInv, Page
<1>t2. wire' \in [Page -> Seq(Message)]
  BY ConsumeCounts DEF FilesInv, GotInvite, Page
<1>2. /\ online["down"] /\ wire'["up"] = wire["up"]
      /\ UNCHANGED <<nOffer, nAnswer, nIceUp, nIceDown, nCancelUp, nCancelDown>>
      /\ nInvite # 0 /\ nInvite' = nInvite - 1
  BY ConsumeCounts, CountsInNat
     DEF FilesInv, GotInvite, Page, Other, Waiting, nInvite, nOffer, nAnswer, nIceUp,
          nIceDown, nCancelUp, nCancelDown
<1>3. /\ f' \in [Page -> File] /\ f'["up"] = f["up"]
      /\ Is(f'["down"], "inviting", Dn.pc, Dn.dc, Dn.len, Dn.held, Dn.busy, "offer")
  BY <1>1, Bounds, ZenonT(40) DEF FilesInv, FilesTyped, GotInvite, Page, File, Is
<1>4. UNCHANGED <<chan, online, size, ice, saved>>
  BY DEF GotInvite
<1>5. Dn.state = "none" /\ Up.state # "none"
  BY <1>2, CountsInNat DEF FilesInv, Handshake
<1>21. FilesTyped'
  BY <1>t2, <1>3, <1>4
     DEF FilesInv, FilesTyped
<1>22. Rows'
  BY <1>1, <1>3, <1>5
     DEF FilesInv, Rows, UpRow, DownRow, Row, Fresh, Is, Closed
<1>23. Handshake'
  BY <1>1, <1>2, <1>3, <1>4, <1>5, CountsInNat
     DEF FilesInv, Handshake, Offered, CountsAre, Rows, UpRow, DownRow, Row, Fresh, Is, Closed
<1>24. Channel'
  BY <1>1, <1>3, <1>4, <1>5, ChunksAre, Bounds
     DEF FilesInv, Channel, Chunks, Rows, UpRow, DownRow, Row, Fresh, Is, Closed
<1>25. Kept'
  BY <1>1, <1>2, <1>3, <1>4, <1>5, CountsInNat, IceAre, Bounds
     DEF FilesInv, Kept, Handshake, CountsAre, Rows, UpRow, DownRow, Row, Fresh, Is, Closed
<1>26. OfferLeads'
  BY <1>1, <1>2, <1>3, <1>4, <1>5, CountsInNat
     DEF FilesInv, OfferLeads, Handshake, Offered, CountsAre, Rows, UpRow, DownRow, Row,
          Fresh, Is, Closed
<1>27. OneCancel'
  BY <1>1, <1>2, <1>3, <1>4, <1>5, CountsInNat
     DEF FilesInv, OneCancel, CountsAre, Rows, UpRow, DownRow, Row, Fresh, Is, Closed
<1>28. QED
  BY <1>21, <1>22, <1>23, <1>24, <1>25, <1>26, <1>27 DEF FilesInv

LEMMA receiveKeeps == FilesInv /\ receive => FilesInv'
<1> SUFFICES ASSUME FilesInv, receive PROVE FilesInv'
  OBVIOUS
<1> DEFINE Up == f["up"]
           Dn == f["down"]
<1>1. /\ Is(Up, Up.state, Up.pc, Up.dc, Up.len, Up.held, Up.busy, Up.shown)
      /\ Is(Dn, Dn.state, Dn.pc, Dn.dc, Dn.len, Dn.held, Dn.busy, Dn.shown)
  BY RowsAre DEF FilesInv, Page
<1>2. UNCHANGED <<wire, chan, online, size, ice, saved>> /\ UNCHANGED CountsAre
  BY CountsStay DEF receive
<1>3. /\ f' \in [Page -> File] /\ f'["up"] = f["up"]
      /\ Is(f'["down"], "connecting", "new", TRUE, Dn.len, Dn.held, "receive", "connecting")
  BY <1>1, Bounds, ZenonT(40) DEF FilesInv, FilesTyped, receive, Page, File, Is, Event
<1>4. Dn.pc = "null" /\ Dn.state = "inviting"
  BY <1>1 DEF receive, CanAccept, FilesInv, Rows, UpRow, DownRow, Row, Fresh, Is, Closed
<1>21. FilesTyped'
  BY <1>2, <1>3
     DEF FilesInv, FilesTyped
<1>22. Rows'
  BY <1>1, <1>3, <1>4
     DEF FilesInv, Rows, UpRow, DownRow, Row, Fresh, Is, Closed
<1>23. Handshake'
  BY <1>1, <1>2, <1>3, <1>4, CountsInNat
     DEF FilesInv, Handshake, Offered, CountsAre, Rows, UpRow, DownRow, Row, Fresh, Is, Closed
<1>24. Channel'
  BY <1>1, <1>3, <1>2, <1>4, ChunksAre, Bounds
     DEF FilesInv, Channel, Chunks, Rows, UpRow, DownRow, Row, Fresh, Is, Closed
<1>25. Kept'
  BY <1>1, <1>2, <1>3, <1>4, CountsInNat, IceAre, Bounds
     DEF FilesInv, Kept, Handshake, CountsAre, Rows, UpRow, DownRow, Row, Fresh, Is, Closed
<1>26. OfferLeads'
  BY <1>1, <1>2, <1>3, <1>4, CountsInNat
     DEF FilesInv, OfferLeads, Handshake, Offered, CountsAre, Rows, UpRow, DownRow, Row,
          Fresh, Is, Closed
<1>27. OneCancel'
  BY <1>1, <1>2, <1>3, <1>4, CountsInNat
     DEF FilesInv, OneCancel, CountsAre, Rows, UpRow, DownRow, Row, Fresh, Is, Closed
<1>28. QED
  BY <1>21, <1>22, <1>23, <1>24, <1>25, <1>26, <1>27 DEF FilesInv

LEMMA OfferReadyKeeps == FilesInv /\ OfferReady => FilesInv'
<1> SUFFICES ASSUME FilesInv, OfferReady PROVE FilesInv'
  OBVIOUS
<1> DEFINE Up == f["up"]
           Dn == f["down"]
<1>1. /\ Is(Up, Up.state, Up.pc, Up.dc, Up.len, Up.held, Up.busy, Up.shown)
      /\ Is(Dn, Dn.state, Dn.pc, Dn.dc, Dn.len, Dn.held, Dn.busy, Dn.shown)
  BY RowsAre DEF FilesInv, Page
<1>2. Dn.busy = "receive" /\ UNCHANGED <<chan, online, size, ice, saved>>
  BY DEF OfferReady
<1>3. /\ f' \in [Page -> File] /\ f'["up"] = f["up"]
      /\ Is(f'["down"], Dn.state, "have-local-offer", Dn.dc, Dn.len, Dn.held, "no", Dn.shown)
  BY <1>1, Bounds DEF FilesInv, FilesTyped, OfferReady, Page, File, Is
<1>4. CASE online["down"]
  <2>t1. wire' \in [Page -> Seq(Message)]
    BY <1>4, PostCounts DEF FilesInv, OfferReady, Page, Message
  <2>1. /\ wire'["down"] = wire["down"]
        /\ UNCHANGED <<nInvite, nAnswer, nIceUp, nIceDown, nCancelUp, nCancelDown>>
        /\ nOffer' = nOffer + 1
        /\ OfferFirst(wire["up"]) => OfferFirst(wire'["up"])
    BY <1>4, PostCounts, CountsInNat
       DEF FilesInv, OfferReady, Page, Other, Message, Waiting, nInvite, nOffer, nAnswer,
            nIceUp, nIceDown, nCancelUp, nCancelDown
  <2>21. FilesTyped'
    BY <2>t1, <1>3, <1>2
       DEF FilesInv, FilesTyped
  <2>22. Rows'
    BY <1>1, <1>3, <1>2, <1>4
       DEF FilesInv, Rows, UpRow, DownRow, Row, Fresh, Is, Closed
  <2>23. Handshake'
    BY <1>1, <2>1, <1>3, <1>2, <1>4, CountsInNat
       DEF FilesInv, Handshake, Offered, CountsAre, Rows, UpRow, DownRow, Row, Fresh, Is, Closed
  <2>24. Channel'
    BY <1>1, <1>3, <1>2, <1>4, ChunksAre, Bounds
       DEF FilesInv, Channel, Chunks, Rows, UpRow, DownRow, Row, Fresh, Is, Closed
  <2>25. Kept'
    BY <1>1, <2>1, <1>3, <1>2, <1>4, CountsInNat, IceAre, Bounds
       DEF FilesInv, Kept, Handshake, CountsAre, Rows, UpRow, DownRow, Row, Fresh, Is, Closed
  <2>26. OfferLeads'
    BY <1>1, <2>1, <1>3, <1>2, <1>4, CountsInNat
       DEF FilesInv, OfferLeads, Handshake, Offered, CountsAre, Rows, UpRow, DownRow, Row,
            Fresh, Is, Closed
  <2>27. OneCancel'
    BY <1>1, <2>1, <1>3, <1>2, <1>4, CountsInNat
       DEF FilesInv, OneCancel, CountsAre, Rows, UpRow, DownRow, Row, Fresh, Is, Closed
  <2>28. QED
    BY <2>21, <2>22, <2>23, <2>24, <2>25, <2>26, <2>27 DEF FilesInv
<1>5. CASE ~online["down"]
  <2>1. UNCHANGED <<wire>> /\ UNCHANGED CountsAre
    BY <1>5, CountsStay DEF OfferReady
  <2>21. FilesTyped'
    BY <2>1, <1>3, <1>2
       DEF FilesInv, FilesTyped
  <2>22. Rows'
    BY <1>1, <1>3, <1>2, <1>5
       DEF FilesInv, Rows, UpRow, DownRow, Row, Fresh, Is, Closed
  <2>23. Handshake'
    BY <1>1, <2>1, <1>3, <1>2, <1>5, CountsInNat
       DEF FilesInv, Handshake, Offered, CountsAre, Rows, UpRow, DownRow, Row, Fresh, Is, Closed
  <2>24. Channel'
    BY <1>1, <1>3, <1>2, <1>5, ChunksAre, Bounds
       DEF FilesInv, Channel, Chunks, Rows, UpRow, DownRow, Row, Fresh, Is, Closed
  <2>25. Kept'
    BY <1>1, <2>1, <1>3, <1>2, <1>5, CountsInNat, IceAre, Bounds
       DEF FilesInv, Kept, Handshake, CountsAre, Rows, UpRow, DownRow, Row, Fresh, Is, Closed
  <2>26. OfferLeads'
    BY <1>1, <2>1, <1>3, <1>2, <1>5, CountsInNat
       DEF FilesInv, OfferLeads, Handshake, Offered, CountsAre, Rows, UpRow, DownRow, Row,
            Fresh, Is, Closed
  <2>27. OneCancel'
    BY <1>1, <2>1, <1>3, <1>2, <1>5, CountsInNat
       DEF FilesInv, OneCancel, CountsAre, Rows, UpRow, DownRow, Row, Fresh, Is, Closed
  <2>28. QED
    BY <2>21, <2>22, <2>23, <2>24, <2>25, <2>26, <2>27 DEF FilesInv
<1>6. QED
  BY <1>4, <1>5

LEMMA GotOfferKeeps == FilesInv /\ GotOffer => FilesInv'
<1> SUFFICES ASSUME FilesInv, GotOffer PROVE FilesInv'
  OBVIOUS
<1> DEFINE Up == f["up"]
           Dn == f["down"]
<1>1. /\ Is(Up, Up.state, Up.pc, Up.dc, Up.len, Up.held, Up.busy, Up.shown)
      /\ Is(Dn, Dn.state, Dn.pc, Dn.dc, Dn.len, Dn.held, Dn.busy, Dn.shown)
  BY RowsAre DEF FilesInv, Page
<1>t2. wire' \in [Page -> Seq(Message)]
  BY ConsumeCounts DEF FilesInv, GotOffer, Page
<1>2. /\ online["up"] /\ wire'["down"] = wire["down"]
      /\ UNCHANGED <<nInvite, nAnswer, nIceUp, nIceDown, nCancelUp, nCancelDown>>
      /\ nOffer # 0 /\ nOffer' = nOffer - 1
  BY ConsumeCounts, CountsInNat
     DEF FilesInv, GotOffer, Page, Other, Waiting, nInvite, nOffer, nAnswer, nIceUp,
          nIceDown, nCancelUp, nCancelDown
<1>3. UNCHANGED <<chan, online, size, ice, saved>>
  BY DEF GotOffer
<1>4. Up.pc = "null" /\ Up.state # "none"
  BY <1>1, <1>2, CountsInNat DEF FilesInv, Handshake, Offered, Rows, UpRow, DownRow, Row,
       Fresh, Is, Closed
<1>5. CASE getTransferredFile("up")
  <2>1. /\ f' \in [Page -> File] /\ f'["down"] = f["down"]
        /\ Is(f'["up"], "connecting", "new", Up.dc, Up.len, Up.held, "answer", "connecting")
    BY <1>1, <1>5, Bounds, ZenonT(40) DEF FilesInv, FilesTyped, GotOffer, Page, File, Is, Event
  <2>21. FilesTyped'
    BY <1>t2, <2>1, <1>3
       DEF FilesInv, FilesTyped
  <2>22. Rows'
    BY <1>1, <2>1, <1>4, <1>5
       DEF FilesInv, Rows, UpRow, DownRow, Row, Fresh, Is, Closed, getTransferredFile
  <2>23. Handshake'
    BY <1>1, <1>2, <2>1, <1>3, <1>4, <1>5, CountsInNat
       DEF FilesInv, Handshake, Offered, CountsAre, Rows, UpRow, DownRow, Row, Fresh, Is,
            Closed, getTransferredFile
  <2>24. Channel'
    BY <1>1, <2>1, <1>3, <1>4, <1>5, ChunksAre, Bounds
       DEF FilesInv, Channel, Chunks, Rows, UpRow, DownRow, Row, Fresh, Is, Closed,
            getTransferredFile
  <2>25. Kept'
    BY <1>1, <1>2, <2>1, <1>3, <1>4, <1>5, CountsInNat, IceAre, Bounds
       DEF FilesInv, Kept, Handshake, CountsAre, Rows, UpRow, DownRow, Row, Fresh, Is,
            Closed, getTransferredFile
  <2>26. OfferLeads'
    BY <1>1, <1>2, <2>1, <1>3, <1>4, <1>5, CountsInNat
       DEF FilesInv, OfferLeads, Handshake, Offered, CountsAre, Rows, UpRow, DownRow, Row,
            Fresh, Is, Closed, getTransferredFile
  <2>27. OneCancel'
    BY <1>1, <1>2, <2>1, <1>3, <1>4, <1>5, CountsInNat
       DEF FilesInv, OneCancel, CountsAre, Rows, UpRow, DownRow, Row, Fresh, Is, Closed,
            getTransferredFile
  <2>28. QED
    BY <2>21, <2>22, <2>23, <2>24, <2>25, <2>26, <2>27 DEF FilesInv
<1>6. CASE ~getTransferredFile("up")
  <2>1. f' = f
    BY <1>6 DEF GotOffer
  <2>21. FilesTyped'
    BY <1>t2, <2>1, <1>3
       DEF FilesInv, FilesTyped
  <2>22. Rows'
    BY <1>1, <2>1, <1>4, <1>6
       DEF FilesInv, Rows, UpRow, DownRow, Row, Fresh, Is, Closed, getTransferredFile
  <2>23. Handshake'
    BY <1>1, <1>2, <2>1, <1>3, <1>4, <1>6, CountsInNat
       DEF FilesInv, Handshake, Offered, CountsAre, Rows, UpRow, DownRow, Row, Fresh, Is,
            Closed, getTransferredFile
  <2>24. Channel'
    BY <1>1, <2>1, <1>3, <1>4, <1>6, ChunksAre, Bounds
       DEF FilesInv, Channel, Chunks, Rows, UpRow, DownRow, Row, Fresh, Is, Closed,
            getTransferredFile
  <2>25. Kept'
    BY <1>1, <1>2, <2>1, <1>3, <1>4, <1>6, CountsInNat, IceAre, Bounds
       DEF FilesInv, Kept, Handshake, CountsAre, Rows, UpRow, DownRow, Row, Fresh, Is,
            Closed, getTransferredFile
  <2>26. OfferLeads'
    BY <1>1, <1>2, <2>1, <1>3, <1>4, <1>6, CountsInNat
       DEF FilesInv, OfferLeads, Handshake, Offered, CountsAre, Rows, UpRow, DownRow, Row,
            Fresh, Is, Closed, getTransferredFile
  <2>27. OneCancel'
    BY <1>1, <1>2, <2>1, <1>3, <1>4, <1>6, CountsInNat
       DEF FilesInv, OneCancel, CountsAre, Rows, UpRow, DownRow, Row, Fresh, Is, Closed,
            getTransferredFile
  <2>28. QED
    BY <2>21, <2>22, <2>23, <2>24, <2>25, <2>26, <2>27 DEF FilesInv
<1>7. QED
  BY <1>5, <1>6

LEMMA OfferAppliedKeeps == FilesInv /\ OfferApplied => FilesInv'
<1> SUFFICES ASSUME FilesInv, OfferApplied PROVE FilesInv'
  OBVIOUS
<1> DEFINE Up == f["up"]
           Dn == f["down"]
<1>1. /\ Is(Up, Up.state, Up.pc, Up.dc, Up.len, Up.held, Up.busy, Up.shown)
      /\ Is(Dn, Dn.state, Dn.pc, Dn.dc, Dn.len, Dn.held, Dn.busy, Dn.shown)
  BY RowsAre DEF FilesInv, Page
<1>2. UNCHANGED <<wire, chan, online, size, ice, saved>> /\ UNCHANGED CountsAre
  BY CountsStay DEF OfferApplied
<1>3. /\ f' \in [Page -> File] /\ f'["down"] = f["down"]
      /\ Is(f'["up"], Up.state, "have-remote-offer", Up.dc, Up.len, Up.held, Up.busy, Up.shown)
  BY <1>1, Bounds DEF FilesInv, FilesTyped, OfferApplied, Page, File, Is
<1>4. Up.busy = "answer" /\ Up.pc = "new"
  BY DEF OfferApplied
<1>21. FilesTyped'
  BY <1>2, <1>3
     DEF FilesInv, FilesTyped
<1>22. Rows'
  BY <1>1, <1>3, <1>4
     DEF FilesInv, Rows, UpRow, DownRow, Row, Fresh, Is, Closed
<1>23. Handshake'
  BY <1>1, <1>2, <1>3, <1>4, CountsInNat
     DEF FilesInv, Handshake, Offered, CountsAre, Rows, UpRow, DownRow, Row, Fresh, Is, Closed
<1>24. Channel'
  BY <1>1, <1>3, <1>2, <1>4, ChunksAre, Bounds
     DEF FilesInv, Channel, Chunks, Rows, UpRow, DownRow, Row, Fresh, Is, Closed
<1>25. Kept'
  BY <1>1, <1>2, <1>3, <1>4, CountsInNat, IceAre, Bounds
     DEF FilesInv, Kept, Handshake, CountsAre, Rows, UpRow, DownRow, Row, Fresh, Is, Closed
<1>26. OfferLeads'
  BY <1>1, <1>2, <1>3, <1>4, CountsInNat
     DEF FilesInv, OfferLeads, Handshake, Offered, CountsAre, Rows, UpRow, DownRow, Row,
          Fresh, Is, Closed
<1>27. OneCancel'
  BY <1>1, <1>2, <1>3, <1>4, CountsInNat
     DEF FilesInv, OneCancel, CountsAre, Rows, UpRow, DownRow, Row, Fresh, Is, Closed
<1>28. QED
  BY <1>21, <1>22, <1>23, <1>24, <1>25, <1>26, <1>27 DEF FilesInv

LEMMA AnswerReadyKeeps == FilesInv /\ AnswerReady => FilesInv'
<1> SUFFICES ASSUME FilesInv, AnswerReady PROVE FilesInv'
  OBVIOUS
<1> DEFINE Up == f["up"]
           Dn == f["down"]
<1>1. /\ Is(Up, Up.state, Up.pc, Up.dc, Up.len, Up.held, Up.busy, Up.shown)
      /\ Is(Dn, Dn.state, Dn.pc, Dn.dc, Dn.len, Dn.held, Dn.busy, Dn.shown)
  BY RowsAre DEF FilesInv, Page
<1>2. /\ Up.busy = "answer" /\ Up.pc = "have-remote-offer"
      /\ UNCHANGED <<chan, online, size, saved>>
  BY DEF AnswerReady
<1>3. ice' = [ice EXCEPT !["up"].added = @ + Up.held] /\ Up.held \in Nat
  BY <1>1, Bounds DEF AnswerReady, Stable, Is
<1>4. /\ ice' \in [Page -> [sent : 0..MaxIce, added : Nat]]
      /\ ice'["down"] = ice["down"] /\ ice'["up"].sent = ice["up"].sent
      /\ ice'["up"].added = ice["up"].added + Up.held
  BY <1>3, IceAdded DEF FilesInv, Page, Other
<1>5. CASE online["up"]
  <2>t1. wire' \in [Page -> Seq(Message)]
    BY <1>5, PostCounts DEF FilesInv, AnswerReady, Page, Message
  <2>1. /\ wire'["up"] = wire["up"]
        /\ UNCHANGED <<nInvite, nOffer, nIceUp, nIceDown, nCancelUp, nCancelDown>>
        /\ nAnswer' = nAnswer + 1
    BY <1>5, PostCounts, CountsInNat
       DEF FilesInv, AnswerReady, Page, Other, Message, Waiting, nInvite, nOffer, nAnswer,
            nIceUp, nIceDown, nCancelUp, nCancelDown
  <2>2. f' = [f EXCEPT !["up"] = StableRow(Up)]
    BY <1>5 DEF AnswerReady, Stable, StableRow
  <2>3. /\ f' \in [Page -> File] /\ f'["down"] = f["down"]
        /\ Is(f'["up"], "connected", "stable", Up.dc, Up.len, 0, "no", "connected")
    BY <1>1, <2>2, StableRowIs, Bounds DEF FilesInv, FilesTyped, Page, File, Is
  <2>21. FilesTyped'
    BY <2>t1, <2>3, <1>2, <1>4
       DEF FilesInv, FilesTyped
  <2>22. Rows'
    BY <1>1, <2>3, <1>2, <1>5
       DEF FilesInv, Rows, UpRow, DownRow, Row, Fresh, Is, Closed
  <2>23. Handshake'
    BY <1>1, <2>1, <2>3, <1>2, <1>4, <1>5, CountsInNat
       DEF FilesInv, Handshake, Offered, CountsAre, Rows, UpRow, DownRow, Row, Fresh, Is, Closed
  <2>24. Channel'
    BY <1>1, <2>3, <1>2, <1>4, <1>5, ChunksAre, Bounds
       DEF FilesInv, Channel, Chunks, Rows, UpRow, DownRow, Row, Fresh, Is, Closed
  <2>25. Kept'
    BY <1>1, <2>1, <2>3, <1>2, <1>4, <1>5, CountsInNat, IceAre, Bounds
       DEF FilesInv, Kept, Handshake, CountsAre, Rows, UpRow, DownRow, Row, Fresh, Is, Closed
  <2>26. OfferLeads'
    BY <1>1, <2>1, <2>3, <1>2, <1>4, <1>5, CountsInNat
       DEF FilesInv, OfferLeads, Handshake, Offered, CountsAre, Rows, UpRow, DownRow, Row,
            Fresh, Is, Closed
  <2>27. OneCancel'
    BY <1>1, <2>1, <2>3, <1>2, <1>4, <1>5, CountsInNat
       DEF FilesInv, OneCancel, CountsAre, Rows, UpRow, DownRow, Row, Fresh, Is, Closed
  <2>28. QED
    BY <2>21, <2>22, <2>23, <2>24, <2>25, <2>26, <2>27 DEF FilesInv
<1>6. CASE ~online["up"]
  <2>1. UNCHANGED <<wire>> /\ UNCHANGED CountsAre
    BY <1>6, CountsStay DEF AnswerReady
  <2>2. /\ f' \in [Page -> File] /\ f'["down"] = f["down"]
        /\ Is(f'["up"], Up.state, "stable", Up.dc, Up.len, 0, "no", Up.shown)
    BY <1>1, <1>6, Bounds, SMTT(40) DEF FilesInv, FilesTyped, AnswerReady, Page, File, Is
  <2>21. FilesTyped'
    BY <2>1, <2>2, <1>2, <1>4
       DEF FilesInv, FilesTyped
  <2>22. Rows'
    BY <1>1, <2>2, <1>2, <1>6
       DEF FilesInv, Rows, UpRow, DownRow, Row, Fresh, Is, Closed
  <2>23. Handshake'
    BY <1>1, <2>1, <2>2, <1>2, <1>4, <1>6, CountsInNat
       DEF FilesInv, Handshake, Offered, CountsAre, Rows, UpRow, DownRow, Row, Fresh, Is, Closed
  <2>24. Channel'
    BY <1>1, <2>2, <1>2, <1>4, <1>6, ChunksAre, Bounds
       DEF FilesInv, Channel, Chunks, Rows, UpRow, DownRow, Row, Fresh, Is, Closed
  <2>25. Kept'
    BY <1>1, <2>1, <2>2, <1>2, <1>4, <1>6, CountsInNat, IceAre, Bounds
       DEF FilesInv, Kept, Handshake, CountsAre, Rows, UpRow, DownRow, Row, Fresh, Is, Closed
  <2>26. OfferLeads'
    BY <1>1, <2>1, <2>2, <1>2, <1>4, <1>6, CountsInNat
       DEF FilesInv, OfferLeads, Handshake, Offered, CountsAre, Rows, UpRow, DownRow, Row,
            Fresh, Is, Closed
  <2>27. OneCancel'
    BY <1>1, <2>1, <2>2, <1>2, <1>4, <1>6, CountsInNat
       DEF FilesInv, OneCancel, CountsAre, Rows, UpRow, DownRow, Row, Fresh, Is, Closed
  <2>28. QED
    BY <2>21, <2>22, <2>23, <2>24, <2>25, <2>26, <2>27 DEF FilesInv
<1>7. QED
  BY <1>5, <1>6

LEMMA GotAnswerKeeps == FilesInv /\ GotAnswer => FilesInv'
<1> SUFFICES ASSUME FilesInv, GotAnswer PROVE FilesInv'
  OBVIOUS
<1> DEFINE Up == f["up"]
           Dn == f["down"]
<1>1. /\ Is(Up, Up.state, Up.pc, Up.dc, Up.len, Up.held, Up.busy, Up.shown)
      /\ Is(Dn, Dn.state, Dn.pc, Dn.dc, Dn.len, Dn.held, Dn.busy, Dn.shown)
  BY RowsAre DEF FilesInv, Page
<1>t2. wire' \in [Page -> Seq(Message)]
  BY ConsumeCounts DEF FilesInv, GotAnswer, Page
<1>2. /\ online["down"] /\ wire'["up"] = wire["up"]
      /\ UNCHANGED <<nInvite, nOffer, nIceUp, nIceDown, nCancelUp, nCancelDown>>
      /\ nAnswer # 0 /\ nAnswer' = nAnswer - 1
  BY ConsumeCounts, CountsInNat
     DEF FilesInv, GotAnswer, Page, Other, Waiting, nInvite, nOffer, nAnswer, nIceUp,
          nIceDown, nCancelUp, nCancelDown
<1>3. UNCHANGED <<chan, online, size, ice, saved>>
  BY DEF GotAnswer
<1>4. /\ Up.pc = "stable" \/ Closed(Up)
      /\ Offered \/ Closed(Dn)
  BY <1>1, <1>2, CountsInNat DEF FilesInv, Handshake
<1>5. CASE getTransferredFile("down")
  <2>1. /\ f' \in [Page -> File] /\ f'["up"] = f["up"]
        /\ Is(f'["down"], Dn.state, Dn.pc, Dn.dc, Dn.len, Dn.held, "receiveFile", Dn.shown)
    BY <1>1, <1>5, Bounds DEF FilesInv, FilesTyped, GotAnswer, Page, File, Is
  <2>21. FilesTyped'
    BY <1>t2, <2>1, <1>3
       DEF FilesInv, FilesTyped
  <2>22. Rows'
    BY <1>1, <2>1, <1>4, <1>5
       DEF FilesInv, Rows, UpRow, DownRow, Row, Fresh, Is, Closed, getTransferredFile, Offered
  <2>23. Handshake'
    BY <1>1, <1>2, <2>1, <1>3, <1>4, <1>5, CountsInNat
       DEF FilesInv, Handshake, Offered, CountsAre, Rows, UpRow, DownRow, Row, Fresh, Is,
            Closed, getTransferredFile, Offered
  <2>24. Channel'
    BY <1>1, <2>1, <1>3, <1>4, <1>5, ChunksAre, Bounds
       DEF FilesInv, Channel, Chunks, Rows, UpRow, DownRow, Row, Fresh, Is, Closed,
            getTransferredFile, Offered
  <2>25. Kept'
    BY <1>1, <1>2, <2>1, <1>3, <1>4, <1>5, CountsInNat, IceAre, Bounds
       DEF FilesInv, Kept, Handshake, CountsAre, Rows, UpRow, DownRow, Row, Fresh, Is,
            Closed, getTransferredFile, Offered
  <2>26. OfferLeads'
    BY <1>1, <1>2, <2>1, <1>3, <1>4, <1>5, CountsInNat
       DEF FilesInv, OfferLeads, Handshake, Offered, CountsAre, Rows, UpRow, DownRow, Row,
            Fresh, Is, Closed, getTransferredFile, Offered
  <2>27. OneCancel'
    BY <1>1, <1>2, <2>1, <1>3, <1>4, <1>5, CountsInNat
       DEF FilesInv, OneCancel, CountsAre, Rows, UpRow, DownRow, Row, Fresh, Is, Closed,
            getTransferredFile, Offered
  <2>28. QED
    BY <2>21, <2>22, <2>23, <2>24, <2>25, <2>26, <2>27 DEF FilesInv
<1>6. CASE ~getTransferredFile("down")
  <2>1. f' = f
    BY <1>6 DEF GotAnswer
  <2>21. FilesTyped'
    BY <1>t2, <2>1, <1>3
       DEF FilesInv, FilesTyped
  <2>22. Rows'
    BY <1>1, <2>1
       DEF FilesInv, Rows, UpRow, DownRow, Row, Fresh, Is, Closed
  <2>23. Handshake'
    BY <1>1, <1>2, <2>1, <1>3, CountsInNat
       DEF FilesInv, Handshake, Offered, CountsAre, Rows, UpRow, DownRow, Row, Fresh, Is, Closed
  <2>24. Channel'
    BY <1>1, <2>1, <1>3, ChunksAre, Bounds
       DEF FilesInv, Channel, Chunks, Rows, UpRow, DownRow, Row, Fresh, Is, Closed
  <2>25. Kept'
    BY <1>1, <1>2, <2>1, <1>3, CountsInNat, IceAre, Bounds
       DEF FilesInv, Kept, Handshake, CountsAre, Rows, UpRow, DownRow, Row, Fresh, Is, Closed
  <2>26. OfferLeads'
    BY <1>1, <1>2, <2>1, <1>3, CountsInNat
       DEF FilesInv, OfferLeads, Handshake, Offered, CountsAre, Rows, UpRow, DownRow, Row,
            Fresh, Is, Closed
  <2>27. OneCancel'
    BY <1>1, <1>2, <2>1, <1>3, CountsInNat
       DEF FilesInv, OneCancel, CountsAre, Rows, UpRow, DownRow, Row, Fresh, Is, Closed
  <2>28. QED
    BY <2>21, <2>22, <2>23, <2>24, <2>25, <2>26, <2>27 DEF FilesInv
<1>7. QED
  BY <1>5, <1>6

LEMMA receiveFileKeeps == FilesInv /\ receiveFile => FilesInv'
<1> SUFFICES ASSUME FilesInv, receiveFile PROVE FilesInv'
  OBVIOUS
<1> DEFINE Up == f["up"]
           Dn == f["down"]
<1>1. /\ Is(Up, Up.state, Up.pc, Up.dc, Up.len, Up.held, Up.busy, Up.shown)
      /\ Is(Dn, Dn.state, Dn.pc, Dn.dc, Dn.len, Dn.held, Dn.busy, Dn.shown)
  BY RowsAre DEF FilesInv, Page
<1>2. UNCHANGED <<wire, chan, online, size, saved>> /\ UNCHANGED CountsAre
  BY CountsStay DEF receiveFile
<1>3. f' = [f EXCEPT !["down"] = StableRow(Dn)]
  BY DEF receiveFile, Stable, StableRow
<1>4. /\ f' \in [Page -> File] /\ f'["up"] = f["up"]
      /\ Is(f'["down"], "connected", "stable", Dn.dc, Dn.len, 0, "no", "connected")
  BY <1>1, <1>3, StableRowIs, Bounds DEF FilesInv, FilesTyped, Page, File, Is
<1>5. /\ ice' = [ice EXCEPT !["down"].added = @ + Dn.held] /\ Dn.held \in Nat
      /\ Dn.busy = "receiveFile"
  BY <1>1, Bounds DEF receiveFile, Stable, Is
<1>6. /\ ice' \in [Page -> [sent : 0..MaxIce, added : Nat]]
      /\ ice'["up"] = ice["up"] /\ ice'["down"].sent = ice["down"].sent
      /\ ice'["down"].added = ice["down"].added + Dn.held
  BY <1>5, IceAdded DEF FilesInv, Page, Other
<1>21. FilesTyped'
  BY <1>2, <1>4, <1>6
     DEF FilesInv, FilesTyped
<1>22. Rows'
  BY <1>1, <1>4, <1>5
     DEF FilesInv, Rows, UpRow, DownRow, Row, Fresh, Is, Closed
<1>23. Handshake'
  BY <1>1, <1>2, <1>4, <1>6, <1>5, CountsInNat
     DEF FilesInv, Handshake, Offered, CountsAre, Rows, UpRow, DownRow, Row, Fresh, Is, Closed
<1>24. Channel'
  BY <1>1, <1>4, <1>2, <1>6, <1>5, ChunksAre, Bounds
     DEF FilesInv, Channel, Chunks, Rows, UpRow, DownRow, Row, Fresh, Is, Closed
<1>25. Kept'
  BY <1>1, <1>2, <1>4, <1>6, <1>5, CountsInNat, IceAre, Bounds
     DEF FilesInv, Kept, Handshake, CountsAre, Rows, UpRow, DownRow, Row, Fresh, Is, Closed
<1>26. OfferLeads'
  BY <1>1, <1>2, <1>4, <1>6, <1>5, CountsInNat
     DEF FilesInv, OfferLeads, Handshake, Offered, CountsAre, Rows, UpRow, DownRow, Row,
          Fresh, Is, Closed
<1>27. OneCancel'
  BY <1>1, <1>2, <1>4, <1>6, <1>5, CountsInNat
     DEF FilesInv, OneCancel, CountsAre, Rows, UpRow, DownRow, Row, Fresh, Is, Closed
<1>28. QED
  BY <1>21, <1>22, <1>23, <1>24, <1>25, <1>26, <1>27 DEF FilesInv

LEMMA LocalIceUpKeeps == FilesInv /\ LocalIce("up") => FilesInv'
<1> SUFFICES ASSUME FilesInv, LocalIce("up") PROVE FilesInv'
  OBVIOUS
<1> DEFINE Up == f["up"]
           Dn == f["down"]
<1>1. /\ Is(Up, Up.state, Up.pc, Up.dc, Up.len, Up.held, Up.busy, Up.shown)
      /\ Is(Dn, Dn.state, Dn.pc, Dn.dc, Dn.len, Dn.held, Dn.busy, Dn.shown)
  BY RowsAre DEF FilesInv, Page
<1>t2. wire' \in [Page -> Seq(Message)]
  BY PostCounts DEF FilesInv, LocalIce, Page, Message
<1>2. /\ wire'["up"] = wire["up"]
      /\ UNCHANGED <<nInvite, nOffer, nAnswer, nIceUp, nCancelUp, nCancelDown>>
      /\ nIceDown' = nIceDown + 1
  BY PostCounts, CountsInNat
     DEF FilesInv, LocalIce, Page, Other, Message, Waiting, nInvite, nOffer, nAnswer,
          nIceUp, nIceDown, nCancelUp, nCancelDown
<1>3. UNCHANGED <<f, chan, online, size, saved>>
  BY DEF LocalIce
<1>4. /\ ice' \in [Page -> [sent : 0..MaxIce, added : Nat]]
      /\ ice'["down"] = ice["down"] /\ ice'["up"].sent = ice["up"].sent + 1
      /\ ice'["up"].added = ice["up"].added
  BY IceSent DEF FilesInv, LocalIce, Page, Other
<1>5. Up.pc \in {"have-local-offer", "stable"} /\ online["up"]
  BY DEF LocalIce
<1>21. FilesTyped'
  BY <1>t2, <1>3, <1>4
     DEF FilesInv, FilesTyped
<1>22. Rows'
  BY <1>1, <1>3, <1>5
     DEF FilesInv, Rows, UpRow, DownRow, Row, Fresh, Is, Closed
<1>23. Handshake'
  BY <1>1, <1>2, <1>3, <1>4, <1>5, CountsInNat
     DEF FilesInv, Handshake, Offered, CountsAre, Rows, UpRow, DownRow, Row, Fresh, Is, Closed
<1>24. Channel'
  BY <1>1, <1>3, <1>4, <1>5, ChunksAre, Bounds
     DEF FilesInv, Channel, Chunks, Rows, UpRow, DownRow, Row, Fresh, Is, Closed
<1>25. Kept'
  BY <1>1, <1>2, <1>3, <1>4, <1>5, CountsInNat, IceAre, Bounds
     DEF FilesInv, Kept, Handshake, CountsAre, Rows, UpRow, DownRow, Row, Fresh, Is, Closed
<1>26. OfferLeads'
  BY <1>1, <1>2, <1>3, <1>4, <1>5, CountsInNat
     DEF FilesInv, OfferLeads, Handshake, Offered, CountsAre, Rows, UpRow, DownRow, Row,
          Fresh, Is, Closed
<1>27. OneCancel'
  BY <1>1, <1>2, <1>3, <1>4, <1>5, CountsInNat
     DEF FilesInv, OneCancel, CountsAre, Rows, UpRow, DownRow, Row, Fresh, Is, Closed
<1>28. QED
  BY <1>21, <1>22, <1>23, <1>24, <1>25, <1>26, <1>27 DEF FilesInv

LEMMA LocalIceDownKeeps == FilesInv /\ LocalIce("down") => FilesInv'
<1> SUFFICES ASSUME FilesInv, LocalIce("down") PROVE FilesInv'
  OBVIOUS
<1> DEFINE Up == f["up"]
           Dn == f["down"]
<1>1. /\ Is(Up, Up.state, Up.pc, Up.dc, Up.len, Up.held, Up.busy, Up.shown)
      /\ Is(Dn, Dn.state, Dn.pc, Dn.dc, Dn.len, Dn.held, Dn.busy, Dn.shown)
  BY RowsAre DEF FilesInv, Page
<1>t2. wire' \in [Page -> Seq(Message)]
  BY PostCounts DEF FilesInv, LocalIce, Page, Message
<1>2. /\ wire'["down"] = wire["down"]
      /\ UNCHANGED <<nInvite, nOffer, nAnswer, nIceDown, nCancelUp, nCancelDown>>
      /\ nIceUp' = nIceUp + 1
      /\ OfferFirst(wire["up"]) /\ nOffer # 0 => OfferFirst(wire'["up"])
  BY PostCounts, CountsInNat
     DEF FilesInv, LocalIce, Page, Other, Message, Waiting, nInvite, nOffer, nAnswer,
          nIceUp, nIceDown, nCancelUp, nCancelDown
<1>3. UNCHANGED <<f, chan, online, size, saved>>
  BY DEF LocalIce
<1>4. /\ ice' \in [Page -> [sent : 0..MaxIce, added : Nat]]
      /\ ice'["up"] = ice["up"] /\ ice'["down"].sent = ice["down"].sent + 1
      /\ ice'["down"].added = ice["down"].added
  BY IceSent DEF FilesInv, LocalIce, Page, Other
<1>5. Dn.pc \in {"have-local-offer", "stable"} /\ online["down"]
  BY DEF LocalIce
<1>21. FilesTyped'
  BY <1>t2, <1>3, <1>4
     DEF FilesInv, FilesTyped
<1>22. Rows'
  BY <1>1, <1>3, <1>5
     DEF FilesInv, Rows, UpRow, DownRow, Row, Fresh, Is, Closed
<1>23. Handshake'
  BY <1>1, <1>2, <1>3, <1>4, <1>5, CountsInNat
     DEF FilesInv, Handshake, Offered, CountsAre, Rows, UpRow, DownRow, Row, Fresh, Is, Closed
<1>24. Channel'
  BY <1>1, <1>3, <1>4, <1>5, ChunksAre, Bounds
     DEF FilesInv, Channel, Chunks, Rows, UpRow, DownRow, Row, Fresh, Is, Closed
<1>25. Kept'
  BY <1>1, <1>2, <1>3, <1>4, <1>5, CountsInNat, IceAre, Bounds
     DEF FilesInv, Kept, Handshake, CountsAre, Rows, UpRow, DownRow, Row, Fresh, Is, Closed
<1>26. OfferLeads'
  BY <1>1, <1>2, <1>3, <1>4, <1>5, CountsInNat
     DEF FilesInv, OfferLeads, Handshake, Offered, CountsAre, Rows, UpRow, DownRow, Row,
          Fresh, Is, Closed
<1>27. OneCancel'
  BY <1>1, <1>2, <1>3, <1>4, <1>5, CountsInNat
     DEF FilesInv, OneCancel, CountsAre, Rows, UpRow, DownRow, Row, Fresh, Is, Closed
<1>28. QED
  BY <1>21, <1>22, <1>23, <1>24, <1>25, <1>26, <1>27 DEF FilesInv

LEMMA GotIceUpKeeps == FilesInv /\ GotIce("up") => FilesInv'
<1> SUFFICES ASSUME FilesInv, GotIce("up") PROVE FilesInv'
  OBVIOUS
<1> DEFINE Up == f["up"]
           Dn == f["down"]
<1>1. /\ Is(Up, Up.state, Up.pc, Up.dc, Up.len, Up.held, Up.busy, Up.shown)
      /\ Is(Dn, Dn.state, Dn.pc, Dn.dc, Dn.len, Dn.held, Dn.busy, Dn.shown)
  BY RowsAre DEF FilesInv, Page
<1>t2. wire' \in [Page -> Seq(Message)]
  BY ConsumeCounts DEF FilesInv, GotIce, Page
<1>2. /\ online["up"] /\ wire'["down"] = wire["down"]
      /\ UNCHANGED <<nInvite, nOffer, nAnswer, nIceDown, nCancelUp, nCancelDown>>
      /\ nIceUp # 0 /\ nIceUp' = nIceUp - 1
      /\ OfferFirst(wire["up"]) => FALSE
  BY ConsumeCounts, CountsInNat
     DEF FilesInv, GotIce, Page, Other, Waiting, nInvite, nOffer, nAnswer, nIceUp, nIceDown,
          nCancelUp, nCancelDown
<1>3. UNCHANGED <<chan, online, size, saved>>
  BY DEF GotIce
<1>4. getTransferredFile("up") => Up.pc # "null" /\ Up.held + 1 \in 0..MaxIce
  BY <1>1, <1>2, CountsInNat, IceAre, Bounds
     DEF FilesInv, getTransferredFile, Kept, OfferLeads, Rows, UpRow, DownRow, Row, Fresh,
          Is, Closed
<1>5. CASE ~getTransferredFile("up")
  <2>1. UNCHANGED <<f, ice>>
    BY <1>5 DEF GotIce
  <2>2. Up.state = "none" => Up.held = 0 /\ ice["down"].sent = 0
    BY <1>1 DEF FilesInv, Handshake, Rows, UpRow, DownRow, Row, Fresh, Is, Closed
  <2>21. FilesTyped'
    BY <1>t2, <2>1, <1>3
       DEF FilesInv, FilesTyped
  <2>22. Rows'
    BY <1>1, <2>1, <1>5, <2>2
       DEF FilesInv, Rows, UpRow, DownRow, Row, Fresh, Is, Closed, getTransferredFile
  <2>23. Handshake'
    BY <1>1, <1>2, <2>1, <1>3, <1>5, <2>2, CountsInNat
       DEF FilesInv, Handshake, Offered, CountsAre, Rows, UpRow, DownRow, Row, Fresh, Is,
            Closed, getTransferredFile
  <2>24. Channel'
    BY <1>1, <2>1, <1>3, <1>5, <2>2, ChunksAre, Bounds
       DEF FilesInv, Channel, Chunks, Rows, UpRow, DownRow, Row, Fresh, Is, Closed,
            getTransferredFile
  <2>25. Kept'
    BY <1>1, <1>2, <2>1, <1>3, <1>5, <2>2, CountsInNat, IceAre, Bounds
       DEF FilesInv, Kept, Handshake, CountsAre, Rows, UpRow, DownRow, Row, Fresh, Is,
            Closed, getTransferredFile
  <2>26. OfferLeads'
    BY <1>1, <1>2, <2>1, <1>3, <1>5, <2>2, CountsInNat
       DEF FilesInv, OfferLeads, Handshake, Offered, CountsAre, Rows, UpRow, DownRow, Row,
            Fresh, Is, Closed, getTransferredFile
  <2>27. OneCancel'
    BY <1>1, <1>2, <2>1, <1>3, <1>5, <2>2, CountsInNat
       DEF FilesInv, OneCancel, CountsAre, Rows, UpRow, DownRow, Row, Fresh, Is, Closed,
            getTransferredFile
  <2>28. QED
    BY <2>21, <2>22, <2>23, <2>24, <2>25, <2>26, <2>27 DEF FilesInv
<1>6. CASE getTransferredFile("up") /\ Up.pc \in {"new", "stable"}
  <2>1. f' = f /\ ice' = [ice EXCEPT !["up"].added = @ + 1]
    BY <1>4, <1>6 DEF GotIce
  <2>2. /\ ice' \in [Page -> [sent : 0..MaxIce, added : Nat]]
        /\ ice'["down"] = ice["down"] /\ ice'["up"].sent = ice["up"].sent
        /\ ice'["up"].added = ice["up"].added + 1
    BY <2>1, IceAdded DEF FilesInv, Page, Other
  <2>21. FilesTyped'
    BY <1>t2, <2>1, <1>3, <2>2
       DEF FilesInv, FilesTyped
  <2>22. Rows'
    BY <1>1, <2>1, <1>6
       DEF FilesInv, Rows, UpRow, DownRow, Row, Fresh, Is, Closed, getTransferredFile
  <2>23. Handshake'
    BY <1>1, <1>2, <2>1, <1>3, <2>2, <1>6, CountsInNat
       DEF FilesInv, Handshake, Offered, CountsAre, Rows, UpRow, DownRow, Row, Fresh, Is,
            Closed, getTransferredFile
  <2>24. Channel'
    BY <1>1, <2>1, <1>3, <2>2, <1>6, ChunksAre, Bounds
       DEF FilesInv, Channel, Chunks, Rows, UpRow, DownRow, Row, Fresh, Is, Closed,
            getTransferredFile
  <2>25. Kept'
    BY <1>1, <1>2, <2>1, <1>3, <2>2, <1>6, CountsInNat, IceAre, Bounds
       DEF FilesInv, Kept, Handshake, CountsAre, Rows, UpRow, DownRow, Row, Fresh, Is,
            Closed, getTransferredFile
  <2>26. OfferLeads'
    BY <1>1, <1>2, <2>1, <1>3, <2>2, <1>6, CountsInNat
       DEF FilesInv, OfferLeads, Handshake, Offered, CountsAre, Rows, UpRow, DownRow, Row,
            Fresh, Is, Closed, getTransferredFile
  <2>27. OneCancel'
    BY <1>1, <1>2, <2>1, <1>3, <2>2, <1>6, CountsInNat
       DEF FilesInv, OneCancel, CountsAre, Rows, UpRow, DownRow, Row, Fresh, Is, Closed,
            getTransferredFile
  <2>28. QED
    BY <2>21, <2>22, <2>23, <2>24, <2>25, <2>26, <2>27 DEF FilesInv
<1>7. CASE getTransferredFile("up") /\ Up.pc \notin {"new", "stable"}
  <2>1. ice' = ice /\ f' = [f EXCEPT !["up"] = [Up EXCEPT !.held = Up.held + 1]]
    BY <1>4, <1>7 DEF GotIce, Hold
  <2>2. /\ f' \in [Page -> File] /\ f'["down"] = f["down"]
        /\ Is(f'["up"], Up.state, Up.pc, Up.dc, Up.len, Up.held + 1, Up.busy, Up.shown)
    BY <1>1, <1>4, <1>7, <2>1, Bounds DEF FilesInv, FilesTyped, Page, File, Is
  <2>21. FilesTyped'
    BY <1>t2, <2>2, <1>3, <2>1
       DEF FilesInv, FilesTyped
  <2>22. Rows'
    BY <1>1, <2>2, <1>7
       DEF FilesInv, Rows, UpRow, DownRow, Row, Fresh, Is, Closed, getTransferredFile
  <2>23. Handshake'
    BY <1>1, <1>2, <2>2, <1>3, <2>1, <1>7, CountsInNat
       DEF FilesInv, Handshake, Offered, CountsAre, Rows, UpRow, DownRow, Row, Fresh, Is,
            Closed, getTransferredFile
  <2>24. Channel'
    BY <1>1, <2>2, <1>3, <2>1, <1>7, ChunksAre, Bounds
       DEF FilesInv, Channel, Chunks, Rows, UpRow, DownRow, Row, Fresh, Is, Closed,
            getTransferredFile
  <2>25. Kept'
    BY <1>1, <1>2, <2>2, <1>3, <2>1, <1>7, CountsInNat, IceAre, Bounds
       DEF FilesInv, Kept, Handshake, CountsAre, Rows, UpRow, DownRow, Row, Fresh, Is,
            Closed, getTransferredFile
  <2>26. OfferLeads'
    BY <1>1, <1>2, <2>2, <1>3, <2>1, <1>7, CountsInNat
       DEF FilesInv, OfferLeads, Handshake, Offered, CountsAre, Rows, UpRow, DownRow, Row,
            Fresh, Is, Closed, getTransferredFile
  <2>27. OneCancel'
    BY <1>1, <1>2, <2>2, <1>3, <2>1, <1>7, CountsInNat
       DEF FilesInv, OneCancel, CountsAre, Rows, UpRow, DownRow, Row, Fresh, Is, Closed,
            getTransferredFile
  <2>28. QED
    BY <2>21, <2>22, <2>23, <2>24, <2>25, <2>26, <2>27 DEF FilesInv
<1>8. QED
  BY <1>5, <1>6, <1>7

LEMMA GotIceDownKeeps == FilesInv /\ GotIce("down") => FilesInv'
<1> SUFFICES ASSUME FilesInv, GotIce("down") PROVE FilesInv'
  OBVIOUS
<1> DEFINE Up == f["up"]
           Dn == f["down"]
<1>1. /\ Is(Up, Up.state, Up.pc, Up.dc, Up.len, Up.held, Up.busy, Up.shown)
      /\ Is(Dn, Dn.state, Dn.pc, Dn.dc, Dn.len, Dn.held, Dn.busy, Dn.shown)
  BY RowsAre DEF FilesInv, Page
<1>t2. wire' \in [Page -> Seq(Message)]
  BY ConsumeCounts DEF FilesInv, GotIce, Page
<1>2. /\ online["down"] /\ wire'["up"] = wire["up"]
      /\ UNCHANGED <<nInvite, nOffer, nAnswer, nIceUp, nCancelUp, nCancelDown>>
      /\ nIceDown # 0 /\ nIceDown' = nIceDown - 1
  BY ConsumeCounts, CountsInNat
     DEF FilesInv, GotIce, Page, Other, Waiting, nInvite, nOffer, nAnswer, nIceUp, nIceDown,
          nCancelUp, nCancelDown
<1>3. UNCHANGED <<chan, online, size, saved>>
  BY DEF GotIce
<1>4. getTransferredFile("down") => Dn.pc # "null" /\ Dn.held + 1 \in 0..MaxIce
  BY <1>1, <1>2, CountsInNat, IceAre, Bounds
     DEF FilesInv, getTransferredFile, Kept, Handshake, Rows, UpRow, DownRow, Row, Fresh,
          Is, Closed
<1>5. CASE ~getTransferredFile("down")
  <2>1. UNCHANGED <<f, ice>>
    BY <1>5 DEF GotIce
  <2>2. Dn.state = "none" => Dn.held = 0 /\ ice["up"].sent = 0
    BY <1>1 DEF FilesInv, Handshake, Rows, UpRow, DownRow, Row, Fresh, Is, Closed
  <2>21. FilesTyped'
    BY <1>t2, <2>1, <1>3
       DEF FilesInv, FilesTyped
  <2>22. Rows'
    BY <1>1, <2>1, <1>5, <2>2
       DEF FilesInv, Rows, UpRow, DownRow, Row, Fresh, Is, Closed, getTransferredFile
  <2>23. Handshake'
    BY <1>1, <1>2, <2>1, <1>3, <1>5, <2>2, CountsInNat
       DEF FilesInv, Handshake, Offered, CountsAre, Rows, UpRow, DownRow, Row, Fresh, Is,
            Closed, getTransferredFile
  <2>24. Channel'
    BY <1>1, <2>1, <1>3, <1>5, <2>2, ChunksAre, Bounds
       DEF FilesInv, Channel, Chunks, Rows, UpRow, DownRow, Row, Fresh, Is, Closed,
            getTransferredFile
  <2>25. Kept'
    BY <1>1, <1>2, <2>1, <1>3, <1>5, <2>2, CountsInNat, IceAre, Bounds
       DEF FilesInv, Kept, Handshake, CountsAre, Rows, UpRow, DownRow, Row, Fresh, Is,
            Closed, getTransferredFile
  <2>26. OfferLeads'
    BY <1>1, <1>2, <2>1, <1>3, <1>5, <2>2, CountsInNat
       DEF FilesInv, OfferLeads, Handshake, Offered, CountsAre, Rows, UpRow, DownRow, Row,
            Fresh, Is, Closed, getTransferredFile
  <2>27. OneCancel'
    BY <1>1, <1>2, <2>1, <1>3, <1>5, <2>2, CountsInNat
       DEF FilesInv, OneCancel, CountsAre, Rows, UpRow, DownRow, Row, Fresh, Is, Closed,
            getTransferredFile
  <2>28. QED
    BY <2>21, <2>22, <2>23, <2>24, <2>25, <2>26, <2>27 DEF FilesInv
<1>6. CASE getTransferredFile("down") /\ Dn.pc \in {"new", "stable"}
  <2>1. f' = f /\ ice' = [ice EXCEPT !["down"].added = @ + 1]
    BY <1>4, <1>6 DEF GotIce
  <2>2. /\ ice' \in [Page -> [sent : 0..MaxIce, added : Nat]]
        /\ ice'["up"] = ice["up"] /\ ice'["down"].sent = ice["down"].sent
        /\ ice'["down"].added = ice["down"].added + 1
    BY <2>1, IceAdded DEF FilesInv, Page, Other
  <2>21. FilesTyped'
    BY <1>t2, <2>1, <1>3, <2>2
       DEF FilesInv, FilesTyped
  <2>22. Rows'
    BY <1>1, <2>1, <1>6
       DEF FilesInv, Rows, UpRow, DownRow, Row, Fresh, Is, Closed, getTransferredFile
  <2>23. Handshake'
    BY <1>1, <1>2, <2>1, <1>3, <2>2, <1>6, CountsInNat
       DEF FilesInv, Handshake, Offered, CountsAre, Rows, UpRow, DownRow, Row, Fresh, Is,
            Closed, getTransferredFile
  <2>24. Channel'
    BY <1>1, <2>1, <1>3, <2>2, <1>6, ChunksAre, Bounds
       DEF FilesInv, Channel, Chunks, Rows, UpRow, DownRow, Row, Fresh, Is, Closed,
            getTransferredFile
  <2>25. Kept'
    BY <1>1, <1>2, <2>1, <1>3, <2>2, <1>6, CountsInNat, IceAre, Bounds
       DEF FilesInv, Kept, Handshake, CountsAre, Rows, UpRow, DownRow, Row, Fresh, Is,
            Closed, getTransferredFile
  <2>26. OfferLeads'
    BY <1>1, <1>2, <2>1, <1>3, <2>2, <1>6, CountsInNat
       DEF FilesInv, OfferLeads, Handshake, Offered, CountsAre, Rows, UpRow, DownRow, Row,
            Fresh, Is, Closed, getTransferredFile
  <2>27. OneCancel'
    BY <1>1, <1>2, <2>1, <1>3, <2>2, <1>6, CountsInNat
       DEF FilesInv, OneCancel, CountsAre, Rows, UpRow, DownRow, Row, Fresh, Is, Closed,
            getTransferredFile
  <2>28. QED
    BY <2>21, <2>22, <2>23, <2>24, <2>25, <2>26, <2>27 DEF FilesInv
<1>7. CASE getTransferredFile("down") /\ Dn.pc \notin {"new", "stable"}
  <2>1. ice' = ice /\ f' = [f EXCEPT !["down"] = [Dn EXCEPT !.held = Dn.held + 1]]
    BY <1>4, <1>7 DEF GotIce, Hold
  <2>2. /\ f' \in [Page -> File] /\ f'["up"] = f["up"]
        /\ Is(f'["down"], Dn.state, Dn.pc, Dn.dc, Dn.len, Dn.held + 1, Dn.busy, Dn.shown)
    BY <1>1, <1>4, <1>7, <2>1, Bounds DEF FilesInv, FilesTyped, Page, File, Is
  <2>21. FilesTyped'
    BY <1>t2, <2>2, <1>3, <2>1
       DEF FilesInv, FilesTyped
  <2>22. Rows'
    BY <1>1, <2>2, <1>7
       DEF FilesInv, Rows, UpRow, DownRow, Row, Fresh, Is, Closed, getTransferredFile
  <2>23. Handshake'
    BY <1>1, <1>2, <2>2, <1>3, <2>1, <1>7, CountsInNat
       DEF FilesInv, Handshake, Offered, CountsAre, Rows, UpRow, DownRow, Row, Fresh, Is,
            Closed, getTransferredFile
  <2>24. Channel'
    BY <1>1, <2>2, <1>3, <2>1, <1>7, ChunksAre, Bounds
       DEF FilesInv, Channel, Chunks, Rows, UpRow, DownRow, Row, Fresh, Is, Closed,
            getTransferredFile
  <2>25. Kept'
    BY <1>1, <1>2, <2>2, <1>3, <2>1, <1>7, CountsInNat, IceAre, Bounds
       DEF FilesInv, Kept, Handshake, CountsAre, Rows, UpRow, DownRow, Row, Fresh, Is,
            Closed, getTransferredFile
  <2>26. OfferLeads'
    BY <1>1, <1>2, <2>2, <1>3, <2>1, <1>7, CountsInNat
       DEF FilesInv, OfferLeads, Handshake, Offered, CountsAre, Rows, UpRow, DownRow, Row,
            Fresh, Is, Closed, getTransferredFile
  <2>27. OneCancel'
    BY <1>1, <1>2, <2>2, <1>3, <2>1, <1>7, CountsInNat
       DEF FilesInv, OneCancel, CountsAre, Rows, UpRow, DownRow, Row, Fresh, Is, Closed,
            getTransferredFile
  <2>28. QED
    BY <2>21, <2>22, <2>23, <2>24, <2>25, <2>26, <2>27 DEF FilesInv
<1>8. QED
  BY <1>5, <1>6, <1>7

LEMMA DataChannelKeeps == FilesInv /\ DataChannel => FilesInv'
<1> SUFFICES ASSUME FilesInv, DataChannel PROVE FilesInv'
  OBVIOUS
<1> DEFINE Up == f["up"]
           Dn == f["down"]
<1>1. /\ Is(Up, Up.state, Up.pc, Up.dc, Up.len, Up.held, Up.busy, Up.shown)
      /\ Is(Dn, Dn.state, Dn.pc, Dn.dc, Dn.len, Dn.held, Dn.busy, Dn.shown)
  BY RowsAre DEF FilesInv, Page
<1>2. UNCHANGED <<wire, online, size, ice, saved>> /\ UNCHANGED CountsAre
  BY CountsStay DEF DataChannel
<1>3. f' = [f EXCEPT !["up"] = [Up EXCEPT !.dc = TRUE]] /\ Up.pc = "stable" /\ Dn.pc = "stable"
  BY DEF DataChannel, Page
<1>4. /\ f' \in [Page -> File] /\ f'["down"] = f["down"]
      /\ Is(f'["up"], Up.state, Up.pc, TRUE, Up.len, Up.held, Up.busy, Up.shown)
  BY <1>1, <1>3, Bounds DEF FilesInv, FilesTyped, Page, File, Is
<1>5. /\ chan' \in [state : {"none", "open", "closed"}, down : Seq(Nat), up : Seq({"done"})]
      /\ chan.state = "none" /\ chan'.state = "open"
      /\ chan'.down = chan.down /\ chan'.up = chan.up
  BY DEF FilesInv, FilesTyped, DataChannel
<1>6. Len(chan'.down) = 0
  BY <1>5, EmptySeq DEF FilesInv, Channel
<1>21. FilesTyped'
  BY <1>2, <1>4, <1>5
     DEF FilesInv, FilesTyped
<1>22. Rows'
  BY <1>1, <1>4, <1>3, <1>6
     DEF FilesInv, Rows, UpRow, DownRow, Row, Fresh, Is, Closed
<1>23. Handshake'
  BY <1>1, <1>2, <1>4, <1>5, <1>3, <1>6, CountsInNat
     DEF FilesInv, Handshake, Offered, CountsAre, Rows, UpRow, DownRow, Row, Fresh, Is, Closed
<1>24. Channel'
  BY <1>1, <1>4, <1>2, <1>5, <1>3, <1>6, ChunksAre, Bounds
     DEF FilesInv, Channel, Chunks, Rows, UpRow, DownRow, Row, Fresh, Is, Closed
<1>25. Kept'
  BY <1>1, <1>2, <1>4, <1>5, <1>3, <1>6, CountsInNat, IceAre, Bounds
     DEF FilesInv, Kept, Handshake, CountsAre, Rows, UpRow, DownRow, Row, Fresh, Is, Closed
<1>26. OfferLeads'
  BY <1>1, <1>2, <1>4, <1>5, <1>3, <1>6, CountsInNat
     DEF FilesInv, OfferLeads, Handshake, Offered, CountsAre, Rows, UpRow, DownRow, Row,
          Fresh, Is, Closed
<1>27. OneCancel'
  BY <1>1, <1>2, <1>4, <1>5, <1>3, <1>6, CountsInNat
     DEF FilesInv, OneCancel, CountsAre, Rows, UpRow, DownRow, Row, Fresh, Is, Closed
<1>28. QED
  BY <1>21, <1>22, <1>23, <1>24, <1>25, <1>26, <1>27 DEF FilesInv

LEMMA ChannelBreaksKeeps == FilesInv /\ ChannelBreaks => FilesInv'
<1> SUFFICES ASSUME FilesInv, ChannelBreaks PROVE FilesInv'
  OBVIOUS
<1> DEFINE Up == f["up"]
           Dn == f["down"]
<1>1. /\ Is(Up, Up.state, Up.pc, Up.dc, Up.len, Up.held, Up.busy, Up.shown)
      /\ Is(Dn, Dn.state, Dn.pc, Dn.dc, Dn.len, Dn.held, Dn.busy, Dn.shown)
  BY RowsAre DEF FilesInv, Page
<1>2. UNCHANGED <<f, wire, online, size, ice, saved>> /\ UNCHANGED CountsAre
  BY CountsStay DEF ChannelBreaks
<1>3. /\ chan' \in [state : {"none", "open", "closed"}, down : Seq(Nat), up : Seq({"done"})]
      /\ chan.state = "open" /\ chan'.state = "closed"
      /\ chan'.down = chan.down /\ chan'.up = chan.up
  BY DEF FilesInv, FilesTyped, ChannelBreaks, Hangup
<1>21. FilesTyped'
  BY <1>2, <1>3
     DEF FilesInv, FilesTyped
<1>22. Rows'
  BY <1>1, <1>2
     DEF FilesInv, Rows, UpRow, DownRow, Row, Fresh, Is, Closed
<1>23. Handshake'
  BY <1>1, <1>2, <1>3, CountsInNat
     DEF FilesInv, Handshake, Offered, CountsAre, Rows, UpRow, DownRow, Row, Fresh, Is, Closed
<1>24. Channel'
  BY <1>1, <1>2, <1>3, ChunksAre, Bounds
     DEF FilesInv, Channel, Chunks, Rows, UpRow, DownRow, Row, Fresh, Is, Closed
<1>25. Kept'
  BY <1>1, <1>2, <1>3, CountsInNat, IceAre, Bounds
     DEF FilesInv, Kept, Handshake, CountsAre, Rows, UpRow, DownRow, Row, Fresh, Is, Closed
<1>26. OfferLeads'
  BY <1>1, <1>2, <1>3, CountsInNat
     DEF FilesInv, OfferLeads, Handshake, Offered, CountsAre, Rows, UpRow, DownRow, Row,
          Fresh, Is, Closed
<1>27. OneCancel'
  BY <1>1, <1>2, <1>3, CountsInNat
     DEF FilesInv, OneCancel, CountsAre, Rows, UpRow, DownRow, Row, Fresh, Is, Closed
<1>28. QED
  BY <1>21, <1>22, <1>23, <1>24, <1>25, <1>26, <1>27 DEF FilesInv

LEMMA ClosedIs ==
  ASSUME FilesInv, NEW r \in File
  PROVE  /\ Is(Close(r), "closed", "null", FALSE, 0, 0, "no", r.shown)
         /\ Is(Cancelled(r), "closed", "null", FALSE, 0, 0, "no", "cancelled")
         /\ Is(Close(Event(r, "done")), "closed", "null", FALSE, 0, 0, "no", "done")
<1>1. 0 \in 0..MaxIce /\ 0 \in 0..MaxSize
  BY Bounds
<1>2. ASSUME NEW q \in File
      PROVE  Is(Close(q), "closed", "null", FALSE, 0, 0, "no", q.shown)
  <2> DEFINE s == [q EXCEPT !.state = "closed", !.pc = "null", !.dc = FALSE]
  <2>1. s \in File
    BY ZenonT(40) DEF File
  <2>2. Close(q) = [s EXCEPT !.len = 0, !.held = 0, !.busy = "no"]
    BY DEF Close, File
  <2>3. /\ Close(q).state = "closed" /\ Close(q).pc = "null" /\ Close(q).dc = FALSE
        /\ Close(q).len = 0 /\ Close(q).held = 0 /\ Close(q).busy = "no"
        /\ Close(q).shown = q.shown
    BY DEF Close, File
  <2> HIDE DEF s
  <2>4. Close(q) \in File
    BY <1>1, <2>1, <2>2 DEF File
  <2>5. QED
    BY <1>1, <2>3, <2>4 DEF Is
<1>3. Event(r, "done") \in File /\ Event(r, "done").shown = "done"
  BY DEF Event, File
<1>4. Is(Cancelled(r), "closed", "null", FALSE, 0, 0, "no", "cancelled")
  BY <1>1, <1>2, ZenonT(40) DEF Cancelled, File, Is
<1>5. QED
  BY <1>2, <1>3, <1>4

HangupIs ==
    /\ chan' \in [state : {"none", "open", "closed"}, down : Seq(Nat), up : Seq({"done"})]
    /\ chan'.down = chan.down /\ chan'.up = chan.up
    /\ chan.state = "none" => chan'.state = "none"
    /\ chan.state # "none" => chan'.state = "closed"

LEMMA HangupKeeps == FilesTyped /\ Hangup => HangupIs
BY DEF HangupIs, FilesTyped, Hangup

(* What happens to the messages when the sender closes.              *)
EndWireUp ==
    /\ wire' \in [Page -> Seq(Message)]
    /\ UNCHANGED <<nInvite, nOffer, nAnswer, nIceUp, nIceDown>>
    /\ OfferFirst(wire["up"]) => OfferFirst(wire'["up"])
    /\ Closed(f["up"]) => nCancelDown' = nCancelDown
    /\ nCancelDown' \in nCancelDown..(nCancelDown + 1) /\ nCancelUp' \in 0..nCancelUp

LEMMA EndWireUpStays == FilesTyped /\ wire' = wire => EndWireUp
BY CountsStay, CountsInNat DEF CountsAre, EndWireUp, FilesTyped

LEMMA EndWireUpTells ==
  ASSUME FilesTyped, Post("up", "cancel"), ~Closed(f["up"]) PROVE EndWireUp
<1>1. wire' \in [Page -> Seq(Message)]
  BY PostCounts DEF Page, Message
<1>2. /\ UNCHANGED <<nInvite, nOffer, nAnswer, nIceUp, nIceDown, nCancelUp>>
      /\ nCancelDown' = nCancelDown + 1
      /\ OfferFirst(wire["up"]) => OfferFirst(wire'["up"])
  BY PostCounts, CountsInNat DEF Page, Other, Message, Waiting, nInvite, nOffer, nAnswer,
       nIceUp, nIceDown, nCancelUp, nCancelDown
<1>3. QED
  BY <1>1, <1>2, CountsInNat DEF EndWireUp

LEMMA EndWireUpTold ==
  ASSUME FilesTyped, NEW x \in {"cancel", "gone"}, Incoming("up", x), Consume("up")
  PROVE  EndWireUp
<1>1. wire' \in [Page -> Seq(Message)]
  BY ConsumeCounts DEF Page
<1>2. /\ UNCHANGED <<nInvite, nOffer, nAnswer, nIceUp, nIceDown, nCancelDown>>
      /\ OfferFirst(wire["up"]) => OfferFirst(wire'["up"])
  BY ConsumeCounts, CountsInNat DEF Page, Other, Waiting, nInvite, nOffer, nAnswer, nIceUp,
       nIceDown, nCancelUp, nCancelDown
<1>3. nCancelUp' = nCancelUp \/ (nCancelUp # 0 /\ nCancelUp' = nCancelUp - 1)
  BY ConsumeCounts, CountsInNat DEF Page, Other, Waiting, nInvite, nOffer, nAnswer, nIceUp,
       nIceDown, nCancelUp, nCancelDown
<1>4. nCancelUp' \in 0..nCancelUp
  BY <1>3, CountsInNat
<1>5. QED
  BY <1>1, <1>2, <1>4, CountsInNat DEF EndWireUp

(* The sender closes: it tells its peer so, or has just been told, or neither.    *)
LEMMA EndUpKeeps ==
  ASSUME FilesInv, NEW s \in {"cancelled", "done"}, NEW r,
         f' = [f EXCEPT !["up"] = r], Is(r, "closed", "null", FALSE, 0, 0, "no", s),
         f["up"].state # "none", s = "done" => saved = 1, HangupIs,
         UNCHANGED <<online, size, ice, saved>>,
         EndWireUp
  PROVE  FilesInv'
<1> DEFINE Up == f["up"]
           Dn == f["down"]
<1>1. /\ Is(Up, Up.state, Up.pc, Up.dc, Up.len, Up.held, Up.busy, Up.shown)
      /\ Is(Dn, Dn.state, Dn.pc, Dn.dc, Dn.len, Dn.held, Dn.busy, Dn.shown)
  BY RowsAre DEF FilesInv, Page
<1>2. /\ f' \in [Page -> File] /\ f'["down"] = f["down"]
      /\ Is(f'["up"], "closed", "null", FALSE, 0, 0, "no", s)
  BY DEF FilesInv, FilesTyped, Page, Is
<1>3. EndWireUp
  OBVIOUS
<1>4. UNCHANGED <<online, size, ice, saved>> /\ HangupIs
  OBVIOUS
<1>5. Chunks \in Nat /\ Chunks' \in Nat /\ Chunks' <= Chunks
  BY <1>1, <1>2, <1>4, ChunksAre, Bounds DEF FilesInv, HangupIs, Chunks, Is
<1>6. chan'.up = chan.up /\ (chan'.state = "none" <=> chan.state = "none")
      /\ chan'.down = chan.down
  BY <1>4 DEF HangupIs
<1>a. Channel'
  <2>1. chan'.state = "none" => chan'.down = <<>> /\ chan'.up = <<>>
                               /\ ~f'["up"].dc /\ f'["down"].len = 0
    BY <1>1, <1>2, <1>6 DEF FilesInv, Channel, Is
  <2>2. chan'.state # "none" =>
          /\ f'["up"].pc = "stable" \/ Closed(f'["up"])
          /\ f'["down"].pc = "stable" \/ Closed(f'["down"])
    BY <1>1, <1>2, <1>6 DEF FilesInv, Channel, Is, Closed
  <2>3. Chunks' <= size' /\ f'["up"].len <= size' /\ (f'["up"].dc => Chunks' <= f'["up"].len)
    BY <1>1, <1>2, <1>4, <1>5, ChunksAre DEF FilesInv, Channel, Is
  <2>4. saved' = 1 => f'["down"].busy = "handshake" \/ Closed(f'["down"])
    BY <1>1, <1>2, <1>4 DEF FilesInv, Channel, Is, Closed
  <2>5. chan'.up # <<>> \/ f'["down"].busy = "handshake" \/ f'["up"].shown = "done"
          => saved' = 1
    BY <1>1, <1>2, <1>4, <1>6 DEF FilesInv, Channel, Is
  <2>6. QED
    BY <2>1, <2>2, <2>3, <2>4, <2>5 DEF Channel, Closed
<1>21. FilesTyped'
  BY <1>3, <1>2, <1>4
     DEF FilesInv, FilesTyped, HangupIs, EndWireUp
<1>22. Rows'
  BY <1>1, <1>2
     DEF FilesInv, Rows, UpRow, DownRow, Row, Fresh, Is, Closed, HangupIs, EndWireUp
<1>23. Handshake'
  BY <1>1, <1>3, <1>2, <1>4, CountsInNat
     DEF FilesInv, Handshake, Offered, CountsAre, Rows, UpRow, DownRow, Row, Fresh, Is,
          Closed, HangupIs, EndWireUp
<1>24. Channel'
  BY <1>a
<1>25. Kept'
  BY <1>1, <1>3, <1>2, <1>4, CountsInNat, IceAre, Bounds
     DEF FilesInv, Kept, Handshake, CountsAre, Rows, UpRow, DownRow, Row, Fresh, Is, Closed,
          HangupIs, EndWireUp
<1>26. OfferLeads'
  BY <1>1, <1>3, <1>2, <1>4, CountsInNat
     DEF FilesInv, OfferLeads, Handshake, Offered, CountsAre, Rows, UpRow, DownRow, Row,
          Fresh, Is, Closed, HangupIs, EndWireUp
<1>27. OneCancel'
  BY <1>1, <1>3, <1>2, <1>4, CountsInNat, SMTT(40)
     DEF FilesInv, OneCancel, CountsAre, Rows, UpRow, DownRow, Row, Fresh, Is, Closed,
          HangupIs, EndWireUp
<1>28. QED
  BY <1>21, <1>22, <1>23, <1>24, <1>25, <1>26, <1>27 DEF FilesInv

(* What happens to the messages when the receiver closes.              *)
EndWireDown ==
    /\ wire' \in [Page -> Seq(Message)]
    /\ UNCHANGED <<nInvite, nOffer, nAnswer, nIceUp, nIceDown>>
    /\ OfferFirst(wire["up"]) => OfferFirst(wire'["up"])
    /\ Closed(f["down"]) => nCancelUp' = nCancelUp
    /\ nCancelUp' \in nCancelUp..(nCancelUp + 1) /\ nCancelDown' \in 0..nCancelDown

LEMMA EndWireDownStays == FilesTyped /\ wire' = wire => EndWireDown
BY CountsStay, CountsInNat DEF CountsAre, EndWireDown, FilesTyped

LEMMA EndWireDownTells ==
  ASSUME FilesTyped, Post("down", "cancel"), ~Closed(f["down"]) PROVE EndWireDown
<1>1. wire' \in [Page -> Seq(Message)]
  BY PostCounts DEF Page, Message
<1>2. /\ UNCHANGED <<nInvite, nOffer, nAnswer, nIceUp, nIceDown, nCancelDown>>
      /\ nCancelUp' = nCancelUp + 1
      /\ OfferFirst(wire["up"]) => OfferFirst(wire'["up"])
  BY PostCounts, CountsInNat DEF Page, Other, Message, Waiting, nInvite, nOffer, nAnswer,
       nIceUp, nIceDown, nCancelUp, nCancelDown
<1>3. QED
  BY <1>1, <1>2, CountsInNat DEF EndWireDown

LEMMA EndWireDownTold ==
  ASSUME FilesTyped, NEW x \in {"cancel", "gone"}, Incoming("down", x), Consume("down")
  PROVE  EndWireDown
<1>1. wire' \in [Page -> Seq(Message)]
  BY ConsumeCounts DEF Page
<1>2. /\ UNCHANGED <<nInvite, nOffer, nAnswer, nIceUp, nIceDown, nCancelUp>>
      /\ OfferFirst(wire["up"]) => OfferFirst(wire'["up"])
  BY ConsumeCounts, CountsInNat DEF Page, Other, Waiting, nInvite, nOffer, nAnswer, nIceUp,
       nIceDown, nCancelUp, nCancelDown
<1>3. nCancelDown' = nCancelDown \/ (nCancelDown # 0 /\ nCancelDown' = nCancelDown - 1)
  BY ConsumeCounts, CountsInNat DEF Page, Other, Waiting, nInvite, nOffer, nAnswer, nIceUp,
       nIceDown, nCancelUp, nCancelDown
<1>4. nCancelDown' \in 0..nCancelDown
  BY <1>3, CountsInNat
<1>5. QED
  BY <1>1, <1>2, <1>4, CountsInNat DEF EndWireDown

(* The receiver closes: it tells its peer so, or has just been told, or neither.    *)
LEMMA EndDownKeeps ==
  ASSUME FilesInv, NEW s \in {"cancelled", "done"}, NEW r,
         f' = [f EXCEPT !["down"] = r], Is(r, "closed", "null", FALSE, 0, 0, "no", s),
         f["down"].state # "none", HangupIs,
         UNCHANGED <<online, size, ice, saved>>,
         EndWireDown
  PROVE  FilesInv'
<1> DEFINE Up == f["up"]
           Dn == f["down"]
<1>1. /\ Is(Up, Up.state, Up.pc, Up.dc, Up.len, Up.held, Up.busy, Up.shown)
      /\ Is(Dn, Dn.state, Dn.pc, Dn.dc, Dn.len, Dn.held, Dn.busy, Dn.shown)
  BY RowsAre DEF FilesInv, Page
<1>2. /\ f' \in [Page -> File] /\ f'["up"] = f["up"]
      /\ Is(f'["down"], "closed", "null", FALSE, 0, 0, "no", s)
  BY DEF FilesInv, FilesTyped, Page, Is
<1>3. EndWireDown
  OBVIOUS
<1>4. UNCHANGED <<online, size, ice, saved>> /\ HangupIs
  OBVIOUS
<1>5. Chunks \in Nat /\ Chunks' \in Nat /\ Chunks' <= Chunks
  <2>1. f["down"].len \in Nat /\ f'["down"].len = 0 /\ Len(chan.down) \in Nat
    BY <1>1, <1>2, ChunksAre, Bounds DEF FilesInv, Is
  <2>2. Len(chan'.down) = Len(chan.down)
    BY <1>4 DEF HangupIs
  <2>3. QED
    BY <2>1, <2>2 DEF Chunks
<1>6. chan'.up = chan.up /\ (chan'.state = "none" <=> chan.state = "none")
      /\ chan'.down = chan.down
  BY <1>4 DEF HangupIs
<1>a. Channel'
  <2>1. chan'.state = "none" => chan'.down = <<>> /\ chan'.up = <<>>
                               /\ ~f'["up"].dc /\ f'["down"].len = 0
    BY <1>1, <1>2, <1>6 DEF FilesInv, Channel, Is
  <2>2. chan'.state # "none" =>
          /\ f'["up"].pc = "stable" \/ Closed(f'["up"])
          /\ f'["down"].pc = "stable" \/ Closed(f'["down"])
    BY <1>1, <1>2, <1>6 DEF FilesInv, Channel, Is, Closed
  <2>3. Chunks' <= size' /\ f'["up"].len <= size' /\ (f'["up"].dc => Chunks' <= f'["up"].len)
    BY <1>1, <1>2, <1>4, <1>5, ChunksAre DEF FilesInv, Channel, Is
  <2>4. saved' = 1 => f'["down"].busy = "handshake" \/ Closed(f'["down"])
    BY <1>1, <1>2, <1>4 DEF FilesInv, Channel, Is, Closed
  <2>5. chan'.up # <<>> \/ f'["down"].busy = "handshake" \/ f'["up"].shown = "done"
          => saved' = 1
    BY <1>1, <1>2, <1>4, <1>6 DEF FilesInv, Channel, Is
  <2>6. QED
    BY <2>1, <2>2, <2>3, <2>4, <2>5 DEF Channel, Closed
<1>21. FilesTyped'
  BY <1>3, <1>2, <1>4
     DEF FilesInv, FilesTyped, HangupIs, EndWireDown
<1>22. Rows'
  BY <1>1, <1>2, SMTT(40)
     DEF FilesInv, Rows, UpRow, DownRow, Row, Fresh, Is, Closed, HangupIs, EndWireDown
<1>23. Handshake'
  BY <1>1, <1>3, <1>2, <1>4, CountsInNat
     DEF FilesInv, Handshake, Offered, CountsAre, Rows, UpRow, DownRow, Row, Fresh, Is,
          Closed, HangupIs, EndWireDown
<1>24. Channel'
  BY <1>a
<1>25. Kept'
  BY <1>1, <1>3, <1>2, <1>4, CountsInNat, IceAre, Bounds
     DEF FilesInv, Kept, Handshake, CountsAre, Rows, UpRow, DownRow, Row, Fresh, Is, Closed,
          HangupIs, EndWireDown
<1>26. OfferLeads'
  BY <1>1, <1>3, <1>2, <1>4, CountsInNat
     DEF FilesInv, OfferLeads, Handshake, Offered, CountsAre, Rows, UpRow, DownRow, Row,
          Fresh, Is, Closed, HangupIs, EndWireDown
<1>27. OneCancel'
  BY <1>1, <1>3, <1>2, <1>4, CountsInNat
     DEF FilesInv, OneCancel, CountsAre, Rows, UpRow, DownRow, Row, Fresh, Is, Closed,
          HangupIs, EndWireDown
<1>28. QED
  BY <1>21, <1>22, <1>23, <1>24, <1>25, <1>26, <1>27 DEF FilesInv

LEMMA StandsStill == FilesInv /\ UNCHANGED vars => FilesInv'
<1> SUFFICES ASSUME FilesInv, UNCHANGED vars PROVE FilesInv'
  OBVIOUS
<1>1. UNCHANGED vars /\ UNCHANGED CountsAre
  BY CountsStay DEF vars
<1>2. QED
  BY <1>1 DEF FilesInv, vars, CountsAre, FilesTyped, Rows, Handshake, Offered, Channel,
              Chunks, Kept, OfferLeads, OneCancel

(* cancel(), whoever calls it, of a transfer that has begun.               *)

LEMMA CancelUpKeeps ==
  ASSUME FilesInv, Cancel("up"), f["up"].state # "none",
         UNCHANGED <<online, size, ice, saved>>
  PROVE  FilesInv'
<1>1. f["up"] \in File /\ FilesTyped /\ f \in [Page -> File]
  BY DEF FilesInv, FilesTyped, Page
<1>2. CASE UNCHANGED <<f, chan, wire>>
  BY <1>2, StandsStill DEF vars
<1>3. CASE /\ f["up"].state = "done"
           /\ f' = [f EXCEPT !["up"] = Close(f["up"])] /\ Hangup /\ wire' = wire
  <2>1. f["up"].shown = "done" /\ "up" = "down"
    BY <1>3 DEF FilesInv, Rows, UpRow, DownRow
  <2>2. Is(Close(f["up"]), "closed", "null", FALSE, 0, 0, "no", "done")
    BY <1>1, <2>1, ClosedIs
  <2>3. HangupIs /\ EndWireUp
    BY <1>1, <1>3, HangupKeeps, EndWireUpStays
  <2>4. QED
    BY <2>1
<1>4. CASE /\ f["up"].state \notin {"closed", "done"}
           /\ f' = [f EXCEPT !["up"] = Cancelled(f["up"])]
           /\ Hangup /\ Post("up", "cancel")
  <2>1. Is(Cancelled(f["up"]), "closed", "null", FALSE, 0, 0, "no", "cancelled")
    BY <1>1, ClosedIs
  <2>2. HangupIs /\ EndWireUp
    BY <1>1, <1>4, HangupKeeps, EndWireUpTells DEF Closed
  <2>3. QED
    BY <1>4, <2>1, <2>2, EndUpKeeps
<1>5. QED
  BY <1>2, <1>3, <1>4 DEF Cancel

LEMMA UserCancelUpKeeps == FilesInv /\ UserCancel("up") => FilesInv'
<1> SUFFICES ASSUME FilesInv, UserCancel("up") PROVE FilesInv'
  OBVIOUS
<1>1. f["up"].state # "none"
  BY DEF FilesInv, Rows, UpRow, DownRow, Row, UserCancel, CanCancel
<1>2. QED
  BY <1>1, CancelUpKeeps DEF UserCancel

LEMMA ChannelClosedUpKeeps == FilesInv /\ ChannelClosed("up") => FilesInv'
<1> SUFFICES ASSUME FilesInv, ChannelClosed("up") PROVE FilesInv'
  OBVIOUS
<1>1. f["up"].state # "none"
  BY DEF FilesInv, Rows, UpRow, DownRow, Row, Fresh, ChannelClosed
<1>2. QED
  BY <1>1, CancelUpKeeps DEF ChannelClosed

(* A message that changes nothing else than the queue.                     *)
LEMMA DropUpKeeps ==
  ASSUME FilesInv, NEW x \in {"cancel", "gone"}, Incoming("up", x), Consume("up"),
         UNCHANGED <<f, chan, online, size, ice, saved>>
  PROVE  FilesInv'
<1> DEFINE Up == f["up"]
           Dn == f["down"]
<1>1. /\ Is(Up, Up.state, Up.pc, Up.dc, Up.len, Up.held, Up.busy, Up.shown)
      /\ Is(Dn, Dn.state, Dn.pc, Dn.dc, Dn.len, Dn.held, Dn.busy, Dn.shown)
  BY RowsAre DEF FilesInv, Page
<1>2. UNCHANGED <<f, chan, online, size, ice, saved>>
  OBVIOUS
<1>t3. wire' \in [Page -> Seq(Message)]
  BY ConsumeCounts DEF FilesInv, Page
<1>3. /\ UNCHANGED <<nInvite, nOffer, nAnswer, nIceUp, nIceDown>>
      /\ OfferFirst(wire["up"]) => OfferFirst(wire'["up"])
      /\ nCancelUp' \in 0..nCancelUp /\ nCancelDown' \in 0..nCancelDown
  <2>1. EndWireUp /\ nCancelDown' = nCancelDown
    BY EndWireUpTold, ConsumeCounts, CountsInNat
       DEF FilesInv, Page, Other, Waiting, nCancelDown
  <2>2. QED
    BY <2>1, CountsInNat DEF EndWireUp, FilesInv
<1>21. FilesTyped'
  BY <1>t3, <1>2
     DEF FilesInv, FilesTyped
<1>22. Rows'
  BY <1>1, <1>2
     DEF FilesInv, Rows, UpRow, DownRow, Row, Fresh, Is, Closed
<1>23. Handshake'
  BY <1>1, <1>3, <1>2, CountsInNat
     DEF FilesInv, Handshake, Offered, CountsAre, Rows, UpRow, DownRow, Row, Fresh, Is, Closed
<1>24. Channel'
  BY <1>1, <1>2, ChunksAre, Bounds
     DEF FilesInv, Channel, Chunks, Rows, UpRow, DownRow, Row, Fresh, Is, Closed
<1>25. Kept'
  BY <1>1, <1>3, <1>2, CountsInNat, IceAre, Bounds
     DEF FilesInv, Kept, Handshake, CountsAre, Rows, UpRow, DownRow, Row, Fresh, Is, Closed
<1>26. OfferLeads'
  BY <1>1, <1>3, <1>2, CountsInNat
     DEF FilesInv, OfferLeads, Handshake, Offered, CountsAre, Rows, UpRow, DownRow, Row,
          Fresh, Is, Closed
<1>27. OneCancel'
  BY <1>1, <1>3, <1>2, CountsInNat
     DEF FilesInv, OneCancel, CountsAre, Rows, UpRow, DownRow, Row, Fresh, Is, Closed
<1>28. QED
  BY <1>21, <1>22, <1>23, <1>24, <1>25, <1>26, <1>27 DEF FilesInv

LEMMA GotCancelUpKeeps == FilesInv /\ GotCancel("up") => FilesInv'
<1> SUFFICES ASSUME FilesInv, GotCancel("up") PROVE FilesInv'
  OBVIOUS
<1>1. f["up"] \in File /\ FilesTyped
  BY DEF FilesInv, FilesTyped, Page
<1>2. CASE getTransferredFile("up")
  <2>1. f' = [f EXCEPT !["up"] = Cancelled(f["up"])] /\ HangupIs /\ f["up"].state # "none"
    BY <1>1, <1>2, HangupKeeps DEF GotCancel, CancelledByPeer, getTransferredFile
  <2>2. Is(Cancelled(f["up"]), "closed", "null", FALSE, 0, 0, "no", "cancelled")
    BY <1>1, ClosedIs
  <2>3. EndWireUp
    BY <1>1, EndWireUpTold DEF GotCancel
  <2>4. QED
    BY <2>1, <2>2, <2>3, EndUpKeeps DEF GotCancel
<1>3. CASE ~getTransferredFile("up")
  BY <1>3, DropUpKeeps DEF GotCancel
<1>4. QED
  BY <1>2, <1>3

LEMMA failUpKeeps == FilesInv /\ fail("up") => FilesInv'
<1> SUFFICES ASSUME FilesInv, fail("up") PROVE FilesInv'
  OBVIOUS
<1>1. f["up"] \in File /\ FilesTyped
  BY DEF FilesInv, FilesTyped, Page
<1>2. CASE getTransferredFile("up") /\ f["up"].state # "done"
  <2>1. f' = [f EXCEPT !["up"] = Cancelled(f["up"])] /\ HangupIs /\ f["up"].state # "none"
    BY <1>1, <1>2, HangupKeeps DEF fail, getTransferredFile
  <2>2. Is(Cancelled(f["up"]), "closed", "null", FALSE, 0, 0, "no", "cancelled")
    BY <1>1, ClosedIs
  <2>3. EndWireUp
    BY <1>1, EndWireUpTold DEF fail
  <2>4. QED
    BY <2>1, <2>2, <2>3, EndUpKeeps DEF fail
<1>3. CASE ~(getTransferredFile("up") /\ f["up"].state # "done")
  BY <1>3, DropUpKeeps DEF fail
<1>4. QED
  BY <1>2, <1>3

LEMMA CancelDownKeeps ==
  ASSUME FilesInv, Cancel("down"), f["down"].state # "none",
         UNCHANGED <<online, size, ice, saved>>
  PROVE  FilesInv'
<1>1. f["down"] \in File /\ FilesTyped /\ f \in [Page -> File]
  BY DEF FilesInv, FilesTyped, Page
<1>2. CASE UNCHANGED <<f, chan, wire>>
  BY <1>2, StandsStill DEF vars
<1>3. CASE /\ f["down"].state = "done"
           /\ f' = [f EXCEPT !["down"] = Close(f["down"])] /\ Hangup /\ wire' = wire
  <2>1. f["down"].shown = "done" /\ "down" = "down"
    BY <1>3 DEF FilesInv, Rows, UpRow, DownRow
  <2>2. Is(Close(f["down"]), "closed", "null", FALSE, 0, 0, "no", "done")
    BY <1>1, <2>1, ClosedIs
  <2>3. HangupIs /\ EndWireDown
    BY <1>1, <1>3, HangupKeeps, EndWireDownStays
  <2>4. QED
    BY <1>3, <2>1, <2>2, <2>3, EndDownKeeps
<1>4. CASE /\ f["down"].state \notin {"closed", "done"}
           /\ f' = [f EXCEPT !["down"] = Cancelled(f["down"])]
           /\ Hangup /\ Post("down", "cancel")
  <2>1. Is(Cancelled(f["down"]), "closed", "null", FALSE, 0, 0, "no", "cancelled")
    BY <1>1, ClosedIs
  <2>2. HangupIs /\ EndWireDown
    BY <1>1, <1>4, HangupKeeps, EndWireDownTells DEF Closed
  <2>3. QED
    BY <1>4, <2>1, <2>2, EndDownKeeps
<1>5. QED
  BY <1>2, <1>3, <1>4 DEF Cancel

LEMMA UserCancelDownKeeps == FilesInv /\ UserCancel("down") => FilesInv'
<1> SUFFICES ASSUME FilesInv, UserCancel("down") PROVE FilesInv'
  OBVIOUS
<1>1. f["down"].state # "none"
  BY DEF FilesInv, Rows, UpRow, DownRow, Row, UserCancel, CanCancel
<1>2. QED
  BY <1>1, CancelDownKeeps DEF UserCancel

LEMMA ChannelClosedDownKeeps == FilesInv /\ ChannelClosed("down") => FilesInv'
<1> SUFFICES ASSUME FilesInv, ChannelClosed("down") PROVE FilesInv'
  OBVIOUS
<1>1. f["down"].state # "none"
  BY DEF FilesInv, Rows, UpRow, DownRow, Row, Fresh, ChannelClosed
<1>2. QED
  BY <1>1, CancelDownKeeps DEF ChannelClosed

(* A message that changes nothing else than the queue.                     *)
LEMMA DropDownKeeps ==
  ASSUME FilesInv, NEW x \in {"cancel", "gone"}, Incoming("down", x), Consume("down"),
         UNCHANGED <<f, chan, online, size, ice, saved>>
  PROVE  FilesInv'
<1> DEFINE Up == f["up"]
           Dn == f["down"]
<1>1. /\ Is(Up, Up.state, Up.pc, Up.dc, Up.len, Up.held, Up.busy, Up.shown)
      /\ Is(Dn, Dn.state, Dn.pc, Dn.dc, Dn.len, Dn.held, Dn.busy, Dn.shown)
  BY RowsAre DEF FilesInv, Page
<1>2. UNCHANGED <<f, chan, online, size, ice, saved>>
  OBVIOUS
<1>t3. wire' \in [Page -> Seq(Message)]
  BY ConsumeCounts DEF FilesInv, Page
<1>3. /\ UNCHANGED <<nInvite, nOffer, nAnswer, nIceUp, nIceDown>>
      /\ OfferFirst(wire["up"]) => OfferFirst(wire'["up"])
      /\ nCancelUp' \in 0..nCancelUp /\ nCancelDown' \in 0..nCancelDown
  <2>1. EndWireDown /\ nCancelUp' = nCancelUp
    BY EndWireDownTold, ConsumeCounts, CountsInNat
       DEF FilesInv, Page, Other, Waiting, nCancelUp
  <2>2. QED
    BY <2>1, CountsInNat DEF EndWireDown, FilesInv
<1>21. FilesTyped'
  BY <1>t3, <1>2
     DEF FilesInv, FilesTyped
<1>22. Rows'
  BY <1>1, <1>2
     DEF FilesInv, Rows, UpRow, DownRow, Row, Fresh, Is, Closed
<1>23. Handshake'
  BY <1>1, <1>3, <1>2, CountsInNat
     DEF FilesInv, Handshake, Offered, CountsAre, Rows, UpRow, DownRow, Row, Fresh, Is, Closed
<1>24. Channel'
  BY <1>1, <1>2, ChunksAre, Bounds
     DEF FilesInv, Channel, Chunks, Rows, UpRow, DownRow, Row, Fresh, Is, Closed
<1>25. Kept'
  BY <1>1, <1>3, <1>2, CountsInNat, IceAre, Bounds
     DEF FilesInv, Kept, Handshake, CountsAre, Rows, UpRow, DownRow, Row, Fresh, Is, Closed
<1>26. OfferLeads'
  BY <1>1, <1>3, <1>2, CountsInNat
     DEF FilesInv, OfferLeads, Handshake, Offered, CountsAre, Rows, UpRow, DownRow, Row,
          Fresh, Is, Closed
<1>27. OneCancel'
  BY <1>1, <1>3, <1>2, CountsInNat
     DEF FilesInv, OneCancel, CountsAre, Rows, UpRow, DownRow, Row, Fresh, Is, Closed
<1>28. QED
  BY <1>21, <1>22, <1>23, <1>24, <1>25, <1>26, <1>27 DEF FilesInv

LEMMA GotCancelDownKeeps == FilesInv /\ GotCancel("down") => FilesInv'
<1> SUFFICES ASSUME FilesInv, GotCancel("down") PROVE FilesInv'
  OBVIOUS
<1>1. f["down"] \in File /\ FilesTyped
  BY DEF FilesInv, FilesTyped, Page
<1>2. CASE getTransferredFile("down")
  <2>1. f' = [f EXCEPT !["down"] = Cancelled(f["down"])] /\ HangupIs /\ f["down"].state # "none"
    BY <1>1, <1>2, HangupKeeps DEF GotCancel, CancelledByPeer, getTransferredFile
  <2>2. Is(Cancelled(f["down"]), "closed", "null", FALSE, 0, 0, "no", "cancelled")
    BY <1>1, ClosedIs
  <2>3. EndWireDown
    BY <1>1, EndWireDownTold DEF GotCancel
  <2>4. QED
    BY <2>1, <2>2, <2>3, EndDownKeeps DEF GotCancel
<1>3. CASE ~getTransferredFile("down")
  BY <1>3, DropDownKeeps DEF GotCancel
<1>4. QED
  BY <1>2, <1>3

LEMMA failDownKeeps == FilesInv /\ fail("down") => FilesInv'
<1> SUFFICES ASSUME FilesInv, fail("down") PROVE FilesInv'
  OBVIOUS
<1>1. f["down"] \in File /\ FilesTyped
  BY DEF FilesInv, FilesTyped, Page
<1>2. CASE getTransferredFile("down") /\ f["down"].state # "done"
  <2>1. f' = [f EXCEPT !["down"] = Cancelled(f["down"])] /\ HangupIs /\ f["down"].state # "none"
    BY <1>1, <1>2, HangupKeeps DEF fail, getTransferredFile
  <2>2. Is(Cancelled(f["down"]), "closed", "null", FALSE, 0, 0, "no", "cancelled")
    BY <1>1, ClosedIs
  <2>3. EndWireDown
    BY <1>1, EndWireDownTold DEF fail
  <2>4. QED
    BY <2>1, <2>2, <2>3, EndDownKeeps DEF fail
<1>3. CASE ~(getTransferredFile("down") /\ f["down"].state # "done")
  BY <1>3, DropDownKeeps DEF fail
<1>4. QED
  BY <1>2, <1>3

LEMMA SocketCloseUpKeeps == FilesInv /\ SocketClose("up") => FilesInv'
<1> SUFFICES ASSUME FilesInv, SocketClose("up") PROVE FilesInv'
  OBVIOUS
<1> DEFINE Up == f["up"]
           Dn == f["down"]
<1>1. /\ Is(Up, Up.state, Up.pc, Up.dc, Up.len, Up.held, Up.busy, Up.shown)
      /\ Is(Dn, Dn.state, Dn.pc, Dn.dc, Dn.len, Dn.held, Dn.busy, Dn.shown)
  BY RowsAre DEF FilesInv, Page
<1>2. UNCHANGED <<f, chan, size, ice, saved>>
  BY DEF SocketClose
<1>3. online' \in [Page -> BOOLEAN] /\ ~online'["up"] /\ online'["down"] = online["down"]
  BY DEF SocketClose, Page, FilesInv, FilesTyped
<1>4. /\ wire["down"] \in Seq(Message) /\ "gone" \in Message
      /\ wire' = [wire EXCEPT !["up"] = <<>>, !["down"] = Append(wire["down"], "gone")]
      /\ wire \in [Page -> Seq(Message)]
  BY DEF FilesInv, FilesTyped, SocketClose, Other, Page, Message
<1>5. wire'["up"] = <<>> /\ wire'["down"] = Append(wire["down"], "gone")
  BY <1>4 DEF Page
<1>t6. wire' \in [Page -> Seq(Message)]
  BY <1>4, AppendProperties, EmptySeq DEF Page
<1>7. nOffer' = 0 /\ nIceUp' = 0 /\ nCancelUp' = 0
  BY <1>5, CountEmpty DEF Waiting, nOffer, nIceUp, nCancelUp
<1>8. nInvite' = nInvite /\ nAnswer' = nAnswer /\ nIceDown' = nIceDown /\ nCancelDown' = nCancelDown
  <2>1. ASSUME NEW m
        PROVE  Count(m, wire'["down"]) = Count(m, wire["down"]) + (IF "gone" = m THEN 1 ELSE 0)
    <3>1. Count(m, Append(wire["down"], "gone"))
            = Count(m, wire["down"]) + (IF "gone" = m THEN 1 ELSE 0)
      BY <1>4, CountAppend
    <3>2. QED
      BY <1>5, <3>1
  <2>2. \A m : Count(m, wire["down"]) \in Nat
    BY <1>4, CountInNat
  <2>3. QED
    BY <2>1, <2>2 DEF Waiting, nInvite, nAnswer, nIceDown, nCancelDown
<1>9. OfferFirst(wire["up"]) => OfferFirst(wire'["up"])
  BY <1>4, <1>5, OfferFirstEmpty, OfferFirstAppend
<1>6. /\ nOffer' = 0 /\ nIceUp' = 0 /\ nCancelUp' = 0
      /\ nInvite' = nInvite /\ nAnswer' = nAnswer /\ nIceDown' = nIceDown /\ nCancelDown' = nCancelDown
      /\ OfferFirst(wire["up"]) => OfferFirst(wire'["up"])
  BY <1>7, <1>8, <1>9
<1>21. FilesTyped'
  BY <1>t6, <1>2, <1>3
     DEF FilesInv, FilesTyped
<1>22. Rows'
  BY <1>1, <1>2
     DEF FilesInv, Rows, UpRow, DownRow, Row, Fresh, Is, Closed
<1>23. Handshake'
  BY <1>1, <1>6, <1>2, <1>3, CountsInNat
     DEF FilesInv, Handshake, Offered, CountsAre, Rows, UpRow, DownRow, Row, Fresh, Is, Closed
<1>24. Channel'
  BY <1>1, <1>2, <1>3, ChunksAre, Bounds
     DEF FilesInv, Channel, Chunks, Rows, UpRow, DownRow, Row, Fresh, Is, Closed
<1>25. Kept'
  BY <1>1, <1>6, <1>2, <1>3, CountsInNat, IceAre, Bounds
     DEF FilesInv, Kept, Handshake, CountsAre, Rows, UpRow, DownRow, Row, Fresh, Is, Closed
<1>26. OfferLeads'
  BY <1>1, <1>6, <1>2, <1>3, CountsInNat
     DEF FilesInv, OfferLeads, Handshake, Offered, CountsAre, Rows, UpRow, DownRow, Row,
          Fresh, Is, Closed
<1>27. OneCancel'
  BY <1>1, <1>6, <1>2, <1>3, CountsInNat
     DEF FilesInv, OneCancel, CountsAre, Rows, UpRow, DownRow, Row, Fresh, Is, Closed
<1>28. QED
  BY <1>21, <1>22, <1>23, <1>24, <1>25, <1>26, <1>27 DEF FilesInv

LEMMA SocketCloseDownKeeps == FilesInv /\ SocketClose("down") => FilesInv'
<1> SUFFICES ASSUME FilesInv, SocketClose("down") PROVE FilesInv'
  OBVIOUS
<1> DEFINE Up == f["up"]
           Dn == f["down"]
<1>1. /\ Is(Up, Up.state, Up.pc, Up.dc, Up.len, Up.held, Up.busy, Up.shown)
      /\ Is(Dn, Dn.state, Dn.pc, Dn.dc, Dn.len, Dn.held, Dn.busy, Dn.shown)
  BY RowsAre DEF FilesInv, Page
<1>2. UNCHANGED <<f, chan, size, ice, saved>>
  BY DEF SocketClose
<1>3. online' \in [Page -> BOOLEAN] /\ ~online'["down"] /\ online'["up"] = online["up"]
  BY DEF SocketClose, Page, FilesInv, FilesTyped
<1>4. /\ wire["up"] \in Seq(Message) /\ "gone" \in Message
      /\ wire' = [wire EXCEPT !["down"] = <<>>, !["up"] = Append(wire["up"], "gone")]
      /\ wire \in [Page -> Seq(Message)]
  BY DEF FilesInv, FilesTyped, SocketClose, Other, Page, Message
<1>5. wire'["down"] = <<>> /\ wire'["up"] = Append(wire["up"], "gone")
  BY <1>4 DEF Page
<1>t6. wire' \in [Page -> Seq(Message)]
  BY <1>4, AppendProperties, EmptySeq DEF Page
<1>7. nInvite' = 0 /\ nAnswer' = 0 /\ nIceDown' = 0 /\ nCancelDown' = 0
  BY <1>5, CountEmpty DEF Waiting, nInvite, nAnswer, nIceDown, nCancelDown
<1>8. nOffer' = nOffer /\ nIceUp' = nIceUp /\ nCancelUp' = nCancelUp
  <2>1. ASSUME NEW m
        PROVE  Count(m, wire'["up"]) = Count(m, wire["up"]) + (IF "gone" = m THEN 1 ELSE 0)
    <3>1. Count(m, Append(wire["up"], "gone"))
            = Count(m, wire["up"]) + (IF "gone" = m THEN 1 ELSE 0)
      BY <1>4, CountAppend
    <3>2. QED
      BY <1>5, <3>1
  <2>2. \A m : Count(m, wire["up"]) \in Nat
    BY <1>4, CountInNat
  <2>3. QED
    BY <2>1, <2>2 DEF Waiting, nOffer, nIceUp, nCancelUp
<1>9. OfferFirst(wire["up"]) => OfferFirst(wire'["up"])
  BY <1>4, <1>5, OfferFirstEmpty, OfferFirstAppend
<1>6. /\ nInvite' = 0 /\ nAnswer' = 0 /\ nIceDown' = 0 /\ nCancelDown' = 0
      /\ nOffer' = nOffer /\ nIceUp' = nIceUp /\ nCancelUp' = nCancelUp
      /\ OfferFirst(wire["up"]) => OfferFirst(wire'["up"])
  BY <1>7, <1>8, <1>9
<1>21. FilesTyped'
  BY <1>t6, <1>2, <1>3
     DEF FilesInv, FilesTyped
<1>22. Rows'
  BY <1>1, <1>2
     DEF FilesInv, Rows, UpRow, DownRow, Row, Fresh, Is, Closed
<1>23. Handshake'
  BY <1>1, <1>6, <1>2, <1>3, CountsInNat
     DEF FilesInv, Handshake, Offered, CountsAre, Rows, UpRow, DownRow, Row, Fresh, Is, Closed
<1>24. Channel'
  BY <1>1, <1>2, <1>3, ChunksAre, Bounds
     DEF FilesInv, Channel, Chunks, Rows, UpRow, DownRow, Row, Fresh, Is, Closed
<1>25. Kept'
  BY <1>1, <1>6, <1>2, <1>3, CountsInNat, IceAre, Bounds
     DEF FilesInv, Kept, Handshake, CountsAre, Rows, UpRow, DownRow, Row, Fresh, Is, Closed
<1>26. OfferLeads'
  BY <1>1, <1>6, <1>2, <1>3, CountsInNat
     DEF FilesInv, OfferLeads, Handshake, Offered, CountsAre, Rows, UpRow, DownRow, Row,
          Fresh, Is, Closed
<1>27. OneCancel'
  BY <1>1, <1>6, <1>2, <1>3, CountsInNat
     DEF FilesInv, OneCancel, CountsAre, Rows, UpRow, DownRow, Row, Fresh, Is, Closed
<1>28. QED
  BY <1>21, <1>22, <1>23, <1>24, <1>25, <1>26, <1>27 DEF FilesInv

LEMMA writeKeeps == FilesInv /\ write => FilesInv'
<1> SUFFICES ASSUME FilesInv, write PROVE FilesInv'
  OBVIOUS
<1> DEFINE Up == f["up"]
           Dn == f["down"]
<1>1. /\ Is(Up, Up.state, Up.pc, Up.dc, Up.len, Up.held, Up.busy, Up.shown)
      /\ Is(Dn, Dn.state, Dn.pc, Dn.dc, Dn.len, Dn.held, Dn.busy, Dn.shown)
  BY RowsAre DEF FilesInv, Page
<1>2. CASE chan.state = "closed"
  <2>1. Up.state # "none"
    BY DEF FilesInv, Rows, UpRow, Row, Fresh, write
  <2>2. QED
    BY <1>2, <2>1, CancelUpKeeps DEF write
<1>3. CASE chan.state # "closed"
  <2>1. /\ f' = [f EXCEPT !["up"] = [Written(Up) EXCEPT !.len = Up.len + 1]]
        /\ Up.dc = TRUE /\ Up.len < size
        /\ chan' = [chan EXCEPT !.down = Append(chan.down, Up.len + 1)]
    <3>1. Up \in File /\ Written(Up) \in File /\ Written(Up).len = Up.len
      BY <1>1, ZenonT(40) DEF Written, Event, File, Is
    <3>2. Up.dc = TRUE /\ Up.len < size
      BY <3>1 DEF write, More, File
    <3>3. f' = [f EXCEPT !["up"] = [Written(Up) EXCEPT !.len = Up.len + 1]]
      BY <1>3 DEF write
    <3>4. chan' = [chan EXCEPT !.down = Append(chan.down, Up.len + 1)]
      BY <1>3 DEF write
    <3>5. QED
      BY <3>1, <3>2, <3>3, <3>4
  <2>2. UNCHANGED <<wire, online, size, ice, saved>> /\ UNCHANGED CountsAre
    BY <1>3, CountsStay DEF write
  <2>3. Up.len + 1 \in 0..MaxSize
    BY <1>1, <2>1, ChunksAre, Bounds DEF FilesInv, Is
  <2>4. /\ f' \in [Page -> File] /\ f'["down"] = f["down"]
        /\ Is(f'["up"], "connected", Up.pc, Up.dc, Up.len + 1, Up.held, Up.busy, "connected")
    BY <1>1, <2>1, <2>3, Bounds DEF FilesInv, FilesTyped, Page, File, Written, Event, Is
  <2>5. /\ chan' \in [state : {"none", "open", "closed"}, down : Seq(Nat), up : Seq({"done"})]
        /\ chan'.state = chan.state /\ chan'.up = chan.up
        /\ Len(chan'.down) = Len(chan.down) + 1
    <3>1. chan.down \in Seq(Nat) /\ Up.len + 1 \in Nat
      BY <2>3, Bounds DEF FilesInv, FilesTyped
    <3>2. /\ Append(chan.down, Up.len + 1) \in Seq(Nat)
          /\ Len(Append(chan.down, Up.len + 1)) = Len(chan.down) + 1
      BY <3>1, AppendProperties
    <3>3. QED
      BY <2>1, <3>2 DEF FilesInv, FilesTyped
  <2>6. Up.pc = "stable" /\ Up.state # "closed" /\ chan.state # "none"
    BY <1>1, <2>1 DEF FilesInv, Channel, Rows, UpRow, DownRow, Row, Fresh, Is, Closed
  <2>7. /\ Chunks \in Nat /\ Chunks' = Chunks + 1 /\ Up.len \in Nat /\ size \in Nat
        /\ Up.len + 1 <= size
    <3>1. f'["down"].len = Dn.len /\ Dn.len \in Nat /\ Up.len \in Nat
      BY <1>1, <2>4, Bounds DEF Is
    <3>2. Len(chan.down) \in Nat /\ size \in Nat
      BY ChunksAre DEF FilesInv
    <3>3. Len(chan'.down) = Len(chan.down) + 1 /\ Up.len < size
      BY <2>1, <2>5
    <3>4. QED
      BY <3>1, <3>2, <3>3 DEF Chunks
  <2>21. FilesTyped'
    BY <2>2, <2>4, <2>5
       DEF FilesInv, FilesTyped
  <2>22. Rows'
    BY <1>1, <2>4, <2>1, <2>6
       DEF FilesInv, Rows, UpRow, DownRow, Row, Fresh, Is, Closed
  <2>23. Handshake'
    BY <1>1, <2>2, <2>4, <2>5, <2>1, <2>6, CountsInNat
       DEF FilesInv, Handshake, Offered, CountsAre, Rows, UpRow, DownRow, Row, Fresh, Is, Closed
  <2>24. Channel'
    BY <1>1, <2>4, <2>2, <2>5, <2>1, <2>6, <2>7
       DEF FilesInv, Channel, Rows, UpRow, DownRow, Row, Fresh, Is, Closed
  <2>25. Kept'
    BY <1>1, <2>2, <2>4, <2>5, <2>1, <2>6, CountsInNat, IceAre, Bounds
       DEF FilesInv, Kept, Handshake, CountsAre, Rows, UpRow, DownRow, Row, Fresh, Is, Closed
  <2>26. OfferLeads'
    BY <1>1, <2>2, <2>4, <2>5, <2>1, <2>6, CountsInNat
       DEF FilesInv, OfferLeads, Handshake, Offered, CountsAre, Rows, UpRow, DownRow, Row,
            Fresh, Is, Closed
  <2>27. OneCancel'
    BY <1>1, <2>2, <2>4, <2>5, <2>1, <2>6, CountsInNat
       DEF FilesInv, OneCancel, CountsAre, Rows, UpRow, DownRow, Row, Fresh, Is, Closed
  <2>28. QED
    BY <2>21, <2>22, <2>23, <2>24, <2>25, <2>26, <2>27 DEF FilesInv
<1>4. QED
  BY <1>2, <1>3

LEMMA GotDoneKeeps == FilesInv /\ GotDone => FilesInv'
<1> SUFFICES ASSUME FilesInv, GotDone PROVE FilesInv'
  OBVIOUS
<1> DEFINE Up == f["up"]
           Dn == f["down"]
<1>1. /\ Is(Up, Up.state, Up.pc, Up.dc, Up.len, Up.held, Up.busy, Up.shown)
      /\ Is(Dn, Dn.state, Dn.pc, Dn.dc, Dn.len, Dn.held, Dn.busy, Dn.shown)
  BY RowsAre DEF FilesInv, Page
<1>2. Up.dc /\ chan.up # <<>> /\ UNCHANGED <<online, size, ice, saved>> /\ Up \in File
  BY <1>1 DEF GotDone, Is
<1>3. Up.state # "none" /\ saved = 1
  BY <1>2 DEF FilesInv, Rows, UpRow, Row, Fresh, Channel
<1>4. CASE Up.len = size
  <2>1. f' = [f EXCEPT !["up"] = Close(Event(Up, "done"))] /\ Hangup /\ wire' = wire
    BY <1>4 DEF GotDone, FilesInv, FilesTyped
  <2>2. HangupIs /\ EndWireUp
    BY <2>1, HangupKeeps, EndWireUpStays DEF FilesInv
  <2>3. QED
    BY <1>2, <1>3, <2>1, <2>2, ClosedIs, EndUpKeeps
<1>5. CASE Up.len # size
  BY <1>2, <1>3, <1>5, CancelUpKeeps DEF GotDone
<1>6. QED
  BY <1>4, <1>5

LEMMA HandshakenKeeps == FilesInv /\ Handshaken => FilesInv'
<1> SUFFICES ASSUME FilesInv, Handshaken PROVE FilesInv'
  OBVIOUS
<1> DEFINE Up == f["up"]
           Dn == f["down"]
<1>1. /\ Is(Up, Up.state, Up.pc, Up.dc, Up.len, Up.held, Up.busy, Up.shown)
      /\ Is(Dn, Dn.state, Dn.pc, Dn.dc, Dn.len, Dn.held, Dn.busy, Dn.shown)
  BY RowsAre DEF FilesInv, Page
<1>2. /\ Dn \in File /\ Dn.shown = "done" /\ Dn.state # "none"
      /\ UNCHANGED <<wire, online, size, ice, saved>>
      /\ f' = [f EXCEPT !["down"] = Close(Dn)] /\ Hangup
  BY <1>1 DEF Handshaken, FilesInv, FilesTyped, Rows, DownRow, Row, Fresh, Is
<1>3. Is(Close(Dn), "closed", "null", FALSE, 0, 0, "no", "done")
  BY <1>2, ClosedIs
<1>4. HangupIs /\ EndWireDown
  BY <1>2, HangupKeeps, EndWireDownStays DEF FilesInv
<1>5. QED
  BY <1>2, <1>3, <1>4, EndDownKeeps

LEMMA TailIs ==
  ASSUME FilesTyped, chan.down # <<>>
  PROVE  /\ Tail(chan.down) \in Seq(Nat) /\ Len(Tail(chan.down)) = Len(chan.down) - 1
         /\ Len(chan.down) # 0
BY HeadTailProperties, EmptySeq DEF FilesTyped

LEMMA EventIs ==
  ASSUME FilesInv, NEW r \in File
  PROVE  /\ Is(Event(r, "connected"), "connected", r.pc, r.dc, r.len, r.held, r.busy, "connected")
         /\ Is([Event(r, "done") EXCEPT !.len = 0, !.busy = "handshake"],
               "done", r.pc, r.dc, 0, r.held, "handshake", "done")
<1>1. 0 \in 0..MaxSize
  BY Bounds
<1>2. /\ Event(r, "connected") \in File /\ Event(r, "done") \in File
      /\ \A e \in {"connected", "done"} :
            /\ Event(r, e).state = e /\ Event(r, e).shown = e
            /\ Event(r, e).pc = r.pc /\ Event(r, e).dc = r.dc /\ Event(r, e).len = r.len
            /\ Event(r, e).held = r.held /\ Event(r, e).busy = r.busy
  BY DEF Event, File
<1> DEFINE e == Event(r, "done")
<1>3. e \in File
  BY <1>2
<1> HIDE DEF e
<1>4. [e EXCEPT !.len = 0, !.busy = "handshake"] \in File
  BY <1>1, <1>3 DEF File
<1>5. /\ [e EXCEPT !.len = 0, !.busy = "handshake"].len = 0
      /\ [e EXCEPT !.len = 0, !.busy = "handshake"].busy = "handshake"
      /\ [e EXCEPT !.len = 0, !.busy = "handshake"].state = e.state
      /\ [e EXCEPT !.len = 0, !.busy = "handshake"].pc = e.pc
      /\ [e EXCEPT !.len = 0, !.busy = "handshake"].dc = e.dc
      /\ [e EXCEPT !.len = 0, !.busy = "handshake"].held = e.held
      /\ [e EXCEPT !.len = 0, !.busy = "handshake"].shown = e.shown
  BY <1>3 DEF File
<1>6. Is([e EXCEPT !.len = 0, !.busy = "handshake"],
         "done", r.pc, r.dc, 0, r.held, "handshake", "done")
  BY <1>2, <1>4, <1>5 DEF Is, e, File
<1>7. QED
  BY <1>2, <1>6 DEF Is, e, File

LEMMA receiveDataKeeps == FilesInv /\ receiveData => FilesInv'
<1> SUFFICES ASSUME FilesInv, receiveData PROVE FilesInv'
  OBVIOUS
<1> DEFINE Up == f["up"]
           Dn == f["down"]
<1>1. /\ Is(Up, Up.state, Up.pc, Up.dc, Up.len, Up.held, Up.busy, Up.shown)
      /\ Is(Dn, Dn.state, Dn.pc, Dn.dc, Dn.len, Dn.held, Dn.busy, Dn.shown)
  BY RowsAre DEF FilesInv, Page
<1> DEFINE r == [Dn EXCEPT !.len = Dn.len + 1]
<1>2. UNCHANGED <<wire, online, size, ice>> /\ UNCHANGED CountsAre
  BY CountsStay DEF receiveData
<1>3. /\ Dn.dc = TRUE /\ Dn.busy # "handshake" /\ chan.down # <<>>
      /\ Dn \in File /\ f \in [Page -> File] /\ FilesTyped
  BY <1>1 DEF receiveData, FilesInv, FilesTyped, Is, File
<1>4. /\ Tail(chan.down) \in Seq(Nat) /\ Len(Tail(chan.down)) = Len(chan.down) - 1
      /\ Len(chan.down) # 0 /\ Len(chan.down) \in Nat /\ size \in Nat /\ size <= MaxSize
  BY <1>3, TailIs, ChunksAre
<1>5. /\ chan.state # "none" /\ Dn.pc = "stable" /\ Dn.state # "closed" /\ saved = 0
      /\ Dn.busy = "no" /\ Dn.state # "done"
  BY <1>1, <1>3, SMTT(40) DEF FilesInv, FilesTyped, Channel, File, Rows, UpRow, DownRow, Row, Fresh,
       Is, Closed
<1>6. /\ Dn.len + Len(chan.down) <= size /\ Dn.len \in Nat /\ Dn.len + 1 \in 0..MaxSize
  <2>1. Dn.len \in Nat /\ MaxSize \in Nat
    BY <1>1, <1>3, Bounds DEF Is
  <2>2. Dn.len + Len(chan.down) <= size
    BY DEF FilesInv, Channel, Chunks
  <2>3. QED
    BY <1>4, <2>1, <2>2
<1>7. Is(r, Dn.state, Dn.pc, Dn.dc, Dn.len + 1, Dn.held, Dn.busy, Dn.shown)
  BY <1>1, <1>3, <1>6 DEF File, Is
<1>8. r \in File /\ r.len = Dn.len + 1
  BY <1>7 DEF Is
<1> HIDE DEF r
<1>9. CASE r.len # size
  <2>1. /\ f' = [f EXCEPT !["down"] = Event(r, "connected")] /\ saved' = saved
        /\ chan' = [chan EXCEPT !.down = Tail(chan.down)]
    BY <1>9 DEF receiveData, Complete, r
  <2>2. /\ f' \in [Page -> File] /\ f'["up"] = f["up"]
        /\ Is(f'["down"], "connected", Dn.pc, Dn.dc, Dn.len + 1, Dn.held, Dn.busy, "connected")
    BY <1>3, <1>7, <1>8, <2>1, EventIs DEF Page, Is
  <2>3. /\ chan' \in [state : {"none", "open", "closed"}, down : Seq(Nat), up : Seq({"done"})]
        /\ chan'.state = chan.state /\ chan'.up = chan.up
        /\ Len(chan'.down) = Len(chan.down) - 1
    BY <1>4, <2>1 DEF FilesInv, FilesTyped
  <2>4. Chunks \in Nat /\ Chunks' = Chunks
    <3>1. f'["down"].len = Dn.len + 1
      BY <2>2 DEF Is
    <3>2. Len(chan'.down) = Len(chan.down) - 1
      BY <2>3
    <3>3. QED
      BY <1>4, <1>6, <3>1, <3>2 DEF Chunks
  <2>5. saved' = saved
    BY <2>1
  <2>21. FilesTyped'
    BY <1>2, <2>2, <2>3, <2>5
       DEF FilesInv, FilesTyped
  <2>22. Rows'
    BY <1>1, <2>2, <1>5
       DEF FilesInv, Rows, UpRow, DownRow, Row, Fresh, Is, Closed
  <2>23. Handshake'
    BY <1>1, <1>2, <2>2, <2>3, <2>5, <1>5, CountsInNat
       DEF FilesInv, Handshake, Offered, CountsAre, Rows, UpRow, DownRow, Row, Fresh, Is, Closed
  <2>24. Channel'
    BY <1>1, <2>2, <1>2, <2>3, <2>5, <1>5, <2>4
       DEF FilesInv, Channel, Rows, UpRow, DownRow, Row, Fresh, Is, Closed
  <2>25. Kept'
    BY <1>1, <1>2, <2>2, <2>3, <2>5, <1>5, CountsInNat, IceAre, Bounds
       DEF FilesInv, Kept, Handshake, CountsAre, Rows, UpRow, DownRow, Row, Fresh, Is, Closed
  <2>26. OfferLeads'
    BY <1>1, <1>2, <2>2, <2>3, <2>5, <1>5, CountsInNat
       DEF FilesInv, OfferLeads, Handshake, Offered, CountsAre, Rows, UpRow, DownRow, Row,
            Fresh, Is, Closed
  <2>27. OneCancel'
    BY <1>1, <1>2, <2>2, <2>3, <2>5, <1>5, CountsInNat
       DEF FilesInv, OneCancel, CountsAre, Rows, UpRow, DownRow, Row, Fresh, Is, Closed
  <2>28. QED
    BY <2>21, <2>22, <2>23, <2>24, <2>25, <2>26, <2>27 DEF FilesInv
<1>10. CASE r.len = size /\ chan.state = "open"
  <2>1. /\ f' = [f EXCEPT !["down"] = [Event(r, "done") EXCEPT !.len = 0, !.busy = "handshake"]]
        /\ saved' = saved + 1
        /\ chan' = [chan EXCEPT !.down = Tail(chan.down), !.up = Append(chan.up, "done")]
    BY <1>10 DEF receiveData, Complete, r
  <2>2. /\ f' \in [Page -> File] /\ f'["up"] = f["up"]
        /\ Is(f'["down"], "done", Dn.pc, Dn.dc, 0, Dn.held, "handshake", "done")
    BY <1>3, <1>7, <1>8, <2>1, EventIs DEF Page, Is
  <2>3. /\ chan' \in [state : {"none", "open", "closed"}, down : Seq(Nat), up : Seq({"done"})]
        /\ chan'.state = chan.state /\ Len(chan'.down) = Len(chan.down) - 1 /\ saved' = 1
    <3>1. Append(chan.up, "done") \in Seq({"done"})
      BY AppendProperties DEF FilesInv, FilesTyped
    <3>2. saved' = 1
      BY <1>5, <2>1
    <3>3. chan.state \in {"none", "open", "closed"} /\ chan \in [state : {"none", "open", "closed"}, down : Seq(Nat), up : Seq({"done"})]
      BY DEF FilesInv, FilesTyped
    <3>4. /\ chan' \in [state : {"none", "open", "closed"}, down : Seq(Nat), up : Seq({"done"})]
          /\ chan'.state = chan.state /\ chan'.down = Tail(chan.down)
      BY <1>4, <2>1, <3>1, <3>3
    <3>5. QED
      BY <1>4, <3>2, <3>4
  <2>4. /\ Chunks \in Nat /\ Chunks' \in Nat /\ Chunks' <= Chunks
        /\ Up.len \in Nat /\ size \in Nat
    <3>1. f'["down"].len = 0 /\ Up.len \in Nat
      BY <1>1, <2>2, Bounds DEF Is
    <3>2. Len(chan'.down) = Len(chan.down) - 1
      BY <2>3
    <3>3. QED
      BY <1>4, <1>6, <3>1, <3>2 DEF Chunks
  <2>21. FilesTyped'
    BY <1>2, <2>2, <2>3
       DEF FilesInv, FilesTyped
  <2>22. Rows'
    BY <1>1, <2>2, <1>5
       DEF FilesInv, Rows, UpRow, DownRow, Row, Fresh, Is, Closed
  <2>23. Handshake'
    BY <1>1, <1>2, <2>2, <2>3, <1>5, CountsInNat
       DEF FilesInv, Handshake, Offered, CountsAre, Rows, UpRow, DownRow, Row, Fresh, Is, Closed
  <2>24. Channel'
    BY <1>1, <2>2, <1>2, <2>3, <1>5, <2>4
       DEF FilesInv, Channel, Rows, UpRow, DownRow, Row, Fresh, Is, Closed
  <2>25. Kept'
    BY <1>1, <1>2, <2>2, <2>3, <1>5, CountsInNat, IceAre, Bounds
       DEF FilesInv, Kept, Handshake, CountsAre, Rows, UpRow, DownRow, Row, Fresh, Is, Closed
  <2>26. OfferLeads'
    BY <1>1, <1>2, <2>2, <2>3, <1>5, CountsInNat
       DEF FilesInv, OfferLeads, Handshake, Offered, CountsAre, Rows, UpRow, DownRow, Row,
            Fresh, Is, Closed
  <2>27. OneCancel'
    BY <1>1, <1>2, <2>2, <2>3, <1>5, CountsInNat
       DEF FilesInv, OneCancel, CountsAre, Rows, UpRow, DownRow, Row, Fresh, Is, Closed
  <2>28. QED
    BY <2>21, <2>22, <2>23, <2>24, <2>25, <2>26, <2>27 DEF FilesInv
<1>11. CASE r.len = size /\ chan.state # "open"
  <2>1. /\ f' = [f EXCEPT !["down"] = Close(Event(r, "done"))] /\ saved' = saved + 1
        /\ chan' = [chan EXCEPT !.down = Tail(chan.down), !.up = chan.up]
    BY <1>11 DEF receiveData, Complete, r
  <2>2. /\ f' \in [Page -> File] /\ f'["up"] = f["up"]
        /\ Is(f'["down"], "closed", "null", FALSE, 0, 0, "no", "done")
    BY <1>3, <1>8, <2>1, ClosedIs, ZenonT(40) DEF Page, Is
  <2>3. /\ chan' \in [state : {"none", "open", "closed"}, down : Seq(Nat), up : Seq({"done"})]
        /\ chan'.state = chan.state /\ chan'.up = chan.up
        /\ Len(chan'.down) = Len(chan.down) - 1 /\ saved' = 1
    <3>1. saved' = 1
      BY <1>5, <2>1
    <3>2. QED
      BY <1>4, <2>1, <3>1 DEF FilesInv, FilesTyped
  <2>4. /\ Chunks \in Nat /\ Chunks' \in Nat /\ Chunks' <= Chunks
        /\ Up.len \in Nat /\ size \in Nat
    <3>1. f'["down"].len = 0 /\ Up.len \in Nat
      BY <1>1, <2>2, Bounds DEF Is
    <3>2. Len(chan'.down) = Len(chan.down) - 1
      BY <2>3
    <3>3. QED
      BY <1>4, <1>6, <3>1, <3>2 DEF Chunks
  <2>21. FilesTyped'
    BY <1>2, <2>2, <2>3
       DEF FilesInv, FilesTyped
  <2>22. Rows'
    BY <1>1, <2>2, <1>5
       DEF FilesInv, Rows, UpRow, DownRow, Row, Fresh, Is, Closed
  <2>23. Handshake'
    BY <1>1, <1>2, <2>2, <2>3, <1>5, CountsInNat
       DEF FilesInv, Handshake, Offered, CountsAre, Rows, UpRow, DownRow, Row, Fresh, Is, Closed
  <2>24. Channel'
    BY <1>1, <2>2, <1>2, <2>3, <1>5, <2>4
       DEF FilesInv, Channel, Rows, UpRow, DownRow, Row, Fresh, Is, Closed
  <2>25. Kept'
    BY <1>1, <1>2, <2>2, <2>3, <1>5, CountsInNat, IceAre, Bounds
       DEF FilesInv, Kept, Handshake, CountsAre, Rows, UpRow, DownRow, Row, Fresh, Is, Closed
  <2>26. OfferLeads'
    BY <1>1, <1>2, <2>2, <2>3, <1>5, CountsInNat
       DEF FilesInv, OfferLeads, Handshake, Offered, CountsAre, Rows, UpRow, DownRow, Row,
            Fresh, Is, Closed
  <2>27. OneCancel'
    BY <1>1, <1>2, <2>2, <2>3, <1>5, CountsInNat
       DEF FilesInv, OneCancel, CountsAre, Rows, UpRow, DownRow, Row, Fresh, Is, Closed
  <2>28. QED
    BY <2>21, <2>22, <2>23, <2>24, <2>25, <2>26, <2>27 DEF FilesInv
<1>12. QED
  BY <1>9, <1>10, <1>11

LEMMA FilesStart == FileTransferAssumption /\ Init => FilesInv
<1> SUFFICES ASSUME FileTransferAssumption, Init PROVE FilesInv
  OBVIOUS
<1>1. /\ f = [p \in Page |-> TransferredFile] /\ wire = [p \in Page |-> <<>>]
      /\ chan = [state |-> "none", down |-> <<>>, up |-> <<>>]
      /\ online = [p \in Page |-> TRUE] /\ size \in 0..MaxSize
      /\ ice = [p \in Page |-> [sent |-> 0, added |-> 0]] /\ saved = 0
  BY DEF Init
<1>2. TransferredFile \in File /\ 0 \in 0..MaxIce
  BY DEF FileTransferAssumption, TransferredFile, File
<1>3. FilesTyped
  BY <1>1, <1>2, EmptySeq DEF FilesTyped
<1>4. f["up"] = TransferredFile /\ f["down"] = TransferredFile
  BY <1>1 DEF Page
<1>5. Rows
  BY <1>4 DEF Rows, UpRow, DownRow, Row, Fresh, Closed, TransferredFile
<1>6. wire["up"] = <<>> /\ wire["down"] = <<>>
  BY <1>1 DEF Page
<1>7. /\ nInvite = 0 /\ nOffer = 0 /\ nAnswer = 0 /\ nIceUp = 0 /\ nIceDown = 0
      /\ nCancelUp = 0 /\ nCancelDown = 0
  BY <1>6, CountEmpty DEF Waiting, nInvite, nOffer, nAnswer, nIceUp, nIceDown,
                          nCancelUp, nCancelDown
<1>8. /\ ice["up"].sent = 0 /\ ice["down"].sent = 0
      /\ ice["up"].added = 0 /\ ice["down"].added = 0
  BY <1>1 DEF Page
<1>9. Handshake
  BY <1>4, <1>7, <1>8 DEF Handshake, Offered, Closed, TransferredFile
<1>10. Channel
  <2>1. Len(<<>>) = 0 /\ size \in Nat
    BY <1>1, Bounds, EmptySeq
  <2>2. QED
    BY <1>1, <1>4, <2>1 DEF Channel, Chunks, TransferredFile
<1>11. Kept
  BY <1>4, <1>7, <1>8 DEF Kept, TransferredFile
<1>12. OfferLeads
  BY <1>4, <1>6, OfferFirstEmpty DEF OfferLeads, TransferredFile
<1>13. OneCancel
  BY <1>7 DEF OneCancel
<1>14. QED
  BY <1>3, <1>5, <1>9, <1>10, <1>11, <1>12, <1>13 DEF FilesInv

LEMMA FilesStep == FilesInv /\ [Next]_vars => FilesInv'
<1> SUFFICES ASSUME FilesInv, [Next]_vars PROVE FilesInv'
  OBVIOUS
<1>1. CASE UNCHANGED vars
  BY <1>1, StandsStill DEF vars
<1>2. CASE FALSE
  BY <1>2
<1>3. CASE Next
  <2>1. Next
    BY <1>3
  <2>2. CASE sendFile \/ receive \/ ChannelBreaks
    BY <2>2, sendFileKeeps, receiveKeeps, ChannelBreaksKeeps
  <2>3. CASE \E p \in Page : LocalIce(p) \/ UserCancel(p) \/ SocketClose(p)
    BY <2>3, LocalIceUpKeeps, LocalIceDownKeeps, UserCancelUpKeeps, UserCancelDownKeeps,
       SocketCloseUpKeeps, SocketCloseDownKeeps DEF Page
  <2>4. CASE GotInvite \/ OfferReady \/ GotOffer \/ OfferApplied \/ AnswerReady
    BY <2>4, GotInviteKeeps, OfferReadyKeeps, GotOfferKeeps, OfferAppliedKeeps,
       AnswerReadyKeeps
  <2>5. CASE GotAnswer \/ receiveFile \/ DataChannel \/ write \/ receiveData
    BY <2>5, GotAnswerKeeps, receiveFileKeeps, DataChannelKeeps, writeKeeps,
       receiveDataKeeps
  <2>6. CASE GotDone \/ Handshaken
    BY <2>6, GotDoneKeeps, HandshakenKeeps
  <2>7. CASE \E p \in Page : Handler(p)
    BY <2>7, GotIceUpKeeps, GotIceDownKeeps, GotCancelUpKeeps, GotCancelDownKeeps,
       failUpKeeps, failDownKeeps, ChannelClosedUpKeeps, ChannelClosedDownKeeps
       DEF Page, Handler
  <2>8. QED
    BY <2>1, <2>2, <2>3, <2>4, <2>5, <2>6, <2>7 DEF Next, Progress
<1>4. QED
  BY <1>1, <1>2, <1>3

LEMMA FilesHold == FileTransferAssumption => (Spec => []FilesInv)
BY FilesStart, FilesStep, PTL DEF Spec

LEMMA FilesAreTyped == FilesInv => TypeOK
BY DEF FilesInv, FilesTyped, TypeOK

LEMMA FilesAreDone == FilesInv => DoneMeansSaved
BY DEF FilesInv, Channel, DoneMeansSaved

LEMMA NoCandidateLost == FilesInv => CandidatesKept
<1> SUFFICES ASSUME FilesInv, NEW p \in Page, online[p], f[p].state # "closed"
             PROVE  /\ ice[Other(p)].sent = ice[p].added + f[p].held + Count("ice", wire[p])
                    /\ f[p].pc = "stable" => f[p].held = 0
  BY DEF CandidatesKept, getTransferredFile
<1>1. f[p].pc = "stable" => f[p].held = 0
  BY DEF FilesInv, Rows, UpRow, DownRow, Row, Page
<1>2. QED
  BY <1>1 DEF FilesInv, Kept, Closed, nIceUp, nIceDown, Waiting, Page, Other

LEMMA ToldOnce == FilesInv => CancelledOnce
<1> SUFFICES ASSUME FilesInv, NEW p \in Page PROVE Count("cancel", wire[p]) <= 1
  BY DEF CancelledOnce
<1>1. nCancelUp <= 1 /\ nCancelDown <= 1
  BY DEF FilesInv, OneCancel
<1>2. QED
  BY <1>1 DEF nCancelUp, nCancelDown, Waiting, Page

-----------------------------------------------------------------------------
(* A row that is closed is not touched.                                    *)

Untouched == \A p \in Page : Closed(f[p]) => f'[p] = f[p]

LEMMA CancelLeaves ==
  ASSUME FilesTyped, NEW p \in Page, Cancel(p)
  PROVE  Untouched
BY DEF Cancel, FilesTyped, Untouched, Closed

LEMMA ClosedStay == FilesInv /\ Next => Untouched
<1> SUFFICES ASSUME FilesInv, Next PROVE Untouched
  OBVIOUS
<1>1. FilesTyped /\ f \in [Page -> File]
  BY DEF FilesInv, FilesTyped
<1>2. CASE sendFile \/ receive \/ ChannelBreaks
  <2>1. CASE sendFile
    BY <1>1, <2>1 DEF sendFile, Untouched, Closed, Page
  <2>2. CASE receive
    <3>1. f["down"].state # "closed"
      BY <2>2 DEF receive, CanAccept, FilesInv, Rows, DownRow
    <3>2. f'["up"] = f["up"]
      BY <1>1, <2>2 DEF receive, Page
    <3>3. QED
      BY <3>1, <3>2 DEF Untouched, Closed, Page
  <2>3. CASE ChannelBreaks
    BY <2>3 DEF ChannelBreaks, Untouched
  <2>4. QED
    BY <1>2, <2>1, <2>2, <2>3
<1>3. ASSUME NEW p \in Page, LocalIce(p) \/ UserCancel(p) \/ SocketClose(p)
      PROVE  Untouched
  BY <1>1, <1>3, CancelLeaves DEF LocalIce, UserCancel, SocketClose, Untouched
<1>4. CASE GotInvite
  <2>1. nInvite # 0
    BY <1>1, <1>4, ConsumeCounts DEF GotInvite, Page, nInvite
  <2>2. ~Closed(f["down"])
    BY <2>1 DEF FilesInv, Handshake, Closed
  <2>3. QED
    BY <1>1, <1>4, <2>2 DEF GotInvite, Untouched
<1>5. CASE OfferReady \/ OfferApplied \/ AnswerReady \/ receiveFile
  <2>1. Closed(f["up"]) => f["up"].busy = "no"
    BY DEF FilesInv, Rows, UpRow, Row, Fresh
  <2>2. Closed(f["down"]) => f["down"].busy = "no"
    BY DEF FilesInv, Rows, DownRow, Row, Fresh
  <2>3. CASE OfferReady \/ OfferApplied
    BY <1>1, <2>1, <2>2, <2>3 DEF OfferReady, OfferApplied, Untouched, Page
  <2>4. CASE AnswerReady
    BY <1>1, <2>1, <2>4 DEF AnswerReady, Stable, Untouched, Page
  <2>5. CASE receiveFile
    BY <1>1, <2>2, <2>5 DEF receiveFile, Stable, Untouched, Page
  <2>6. QED
    BY <1>5, <2>3, <2>4, <2>5
<1>6. CASE GotOffer \/ GotAnswer
  <2>1. CASE GotOffer
    BY <1>1, <2>1 DEF GotOffer, getTransferredFile, Untouched, Page, Closed
  <2>2. CASE GotAnswer
    BY <1>1, <2>2 DEF GotAnswer, getTransferredFile, Untouched, Page, Closed
  <2>3. QED
    BY <1>6, <2>1, <2>2
<1>7. CASE DataChannel \/ write \/ receiveData \/ GotDone \/ Handshaken
  <2>1. /\ Closed(f["up"]) => f["up"].pc # "stable" /\ ~f["up"].dc
        /\ Closed(f["down"]) => ~f["down"].dc /\ f["down"].busy = "no"
    BY DEF FilesInv, Rows, UpRow, DownRow, Row, Fresh
  <2>2. CASE DataChannel
    BY <1>1, <2>1, <2>2 DEF DataChannel, Untouched, Page
  <2>3. CASE write
    BY <1>1, <2>1, <2>3, CancelLeaves DEF write, Untouched, Page
  <2>4. CASE receiveData
    BY <1>1, <2>1, <2>4 DEF receiveData, Untouched, Page
  <2>5. CASE GotDone
    BY <1>1, <2>1, <2>5, CancelLeaves DEF GotDone, Untouched, Page
  <2>6. CASE Handshaken
    BY <1>1, <2>1, <2>6 DEF Handshaken, Untouched, Page
  <2>7. QED
    BY <1>7, <2>2, <2>3, <2>4, <2>5, <2>6
<1>8. ASSUME NEW p \in Page, Handler(p)
      PROVE  Untouched
  <2>1. CASE GotIce(p)
    BY <1>1, <2>1 DEF GotIce, getTransferredFile, Untouched, Closed
  <2>2. CASE GotCancel(p) \/ fail(p)
    BY <1>1, <2>2 DEF GotCancel, fail, getTransferredFile, Untouched, Closed
  <2>3. CASE ChannelClosed(p)
    BY <1>1, <2>3, CancelLeaves DEF ChannelClosed
  <2>4. QED
    BY <1>8, <2>1, <2>2, <2>3 DEF Handler
<1>9. QED
  BY <1>2, <1>3, <1>4, <1>5, <1>6, <1>7, <1>8 DEF Next, Progress

(* The step of Settled.                                                    *)
Settles ==
    \A p \in Page :
       /\ (f[p].shown = "cancelled") => (f'[p].shown = "cancelled")
       /\ (f[p].state = "closed") => (f'[p].state = "closed")
       /\ (f["up"].shown = "done") => (f'["up"].shown = "done")

LEMMA EndedStay == FilesInv /\ [Next]_vars => Settles
<1>1. FilesInv /\ UNCHANGED vars => Settles
  BY DEF vars, Settles
<1>2. SUFFICES ASSUME FilesInv, Next PROVE Settles
  BY <1>1
<1>3. Untouched
  BY <1>2, ClosedStay
<1>4. /\ \A p \in Page : f[p].shown = "cancelled" => Closed(f[p])
      /\ f["up"].shown = "done" => Closed(f["up"])
  BY <1>2 DEF FilesInv, Rows, UpRow, DownRow, Row, Page
<1>5. QED
  BY <1>3, <1>4 DEF Settles, Untouched, Closed, Page

=============================================================================
