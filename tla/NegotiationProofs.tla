-------------------------- MODULE NegotiationProofs --------------------------
(***************************************************************************)
(* What Negotiation keeps, for any number of messages, of changes of the   *)
(* tracks, of restarts and of candidates: one token, that is the offer on  *)
(* its way, the promise it waits for, or its answer on its way; what both  *)
(* sides have agreed on at each place of the token; and where each         *)
(* candidate is.  The theorem is in PartsProofs.                           *)
(***************************************************************************)
EXTENDS Negotiation, SequenceTheorems, FiniteSetTheorems, TLAPS

(* What is agreed on, and the messages of the side that offers and of the  *)
(* side that answers.                                                      *)
Pair == [tracks : Nat, ice : Nat]
Forth == [type : {"offer"}, terms : Pair]
           \cup [type : {"ice"}, candidate : Candidates] \cup [type : {"close"}]
Back == [type : {"answer"}, terms : Pair]
          \cup [type : {"ice"}, candidate : Candidates]
          \cup [type : {"renegotiate", "abort"}]

ServerEnd ==
    [open : BOOLEAN, offered : BOOLEAN, needed : 0..2, remote : BOOLEAN,
     terms : Pair, found : SUBSET Candidates, held : SUBSET Candidates,
     got : SUBSET Candidates]
PageEnd ==
    [open : BOOLEAN, await : {"none", "remote", "create", "local"},
     offered : BOOLEAN, fired : BOOLEAN, remote : BOOLEAN,
     localDescriptionSent : BOOLEAN, described : BOOLEAN,
     terms : Pair, proposed : Pair, found : SUBSET Candidates,
     localIceCandidates : SUBSET Candidates,
     remoteIceCandidates : SUBSET Candidates, got : SUBSET Candidates]

Ends ==
    /\ direction \in {"down", "up"}
    /\ peer \in ServerEnd /\ jsEnd \in PageEnd /\ owed \in BOOLEAN

Once(w, type) == \A i, j \in Under(w, type) : i = j
Some(w, type) == \E i \in Under(w, type) : TRUE

(* One offer is under way from fw over busy to bk, if it was made.      *)
Token(fw, busy, bk, offered) ==
    /\ Once(fw, "offer") /\ Once(bk, "answer")
    /\ Some(fw, "offer") => ~Some(bk, "answer") /\ ~busy
    /\ Some(bk, "answer") => ~busy
    /\ Some(fw, "offer") \/ Some(bk, "answer") \/ busy => offered

(* What is offered, answered, and what is agreed on.                       *)
DownTerms(p, e, fw, bk) ==
    /\ p.needed = 0 =>
         /\ \A i \in Under(fw, "offer") : fw[i].terms = p.terms
         /\ e.await # "none" => e.proposed = p.terms
         /\ Some(bk, "answer") => e.terms = p.terms
    /\ ~p.offered => e.terms = p.terms

(* A restart that is owed is remembered.                                   *)
Remembered(p, o) == (o => p.offered /\ p.needed = 2) /\ (p.needed # 0 => p.offered)

(* No offer follows the close.                                             *)
CloseLast(p, fw) ==
    /\ Some(fw, "close") => ~p.open
    /\ \A i \in Under(fw, "close"), j \in Under(fw, "offer") : j < i

Untouched(e) == e.remoteIceCandidates = {} /\ e.got = {}

(* The offer comes first to a page that has no stream yet.                 *)
DownFirst(p, e, fw) ==
    ~e.open =>
      /\ e.await = "none"
      /\ \A i \in Under(fw, "offer") : i = 1 /\ Untouched(e) /\ p.found = Sent(fw)
      /\ p.open =>
           /\ Untouched(e) /\ p.found = Sent(fw)
           /\ p.offered => Some(fw, "offer")
           /\ ~p.offered => fw = <<>> /\ p.terms.tracks = 0

(* Where the candidates of the server and of the page are.                 *)
ServersAre(p, e, w) ==
    p.found = Sent(w) \cup e.remoteIceCandidates \cup e.got
PagesAre(p, e, w) ==
    e.found = e.localIceCandidates \cup Sent(w) \cup p.held \cup p.got

DownOk(p, e, fw, bk, o) ==
    /\ fw \in Seq(Forth) /\ bk \in Seq(Back)
    /\ Token(fw, e.await # "none", bk, p.offered)
    /\ DownTerms(p, e, fw, bk)
    /\ Remembered(p, o)
    /\ CloseLast(p, fw)
    /\ DownFirst(p, e, fw)
    /\ e.open => ServersAre(p, e, fw)
    /\ p.open => PagesAre(p, e, bk)

UpTerms(p, e, fw, bk) ==
    /\ \A i \in Under(fw, "offer") : fw[i].terms = e.proposed
    /\ \A i \in Under(bk, "answer") :
         bk[i].terms = e.proposed /\ p.terms = e.proposed
    /\ e.await = "remote" => p.terms = e.proposed
    /\ e.open /\ ~e.offered /\ e.await # "local" => p.terms = e.proposed

(* The offer comes first to a server that has no connection yet.           *)
UpFirst(p, e, fw) ==
    e.open /\ ~p.open =>
      IF e.localDescriptionSent THEN fw # <<>> /\ fw[1].type = "offer"
      ELSE fw = <<>>

UpOk(p, e, fw, bk) ==
    /\ fw \in Seq(Forth) /\ bk \in Seq(Back)
    /\ Token(fw, e.await = "remote", bk, e.offered)
    /\ e.offered => e.await \in {"none", "remote"}
    /\ ~e.open => e.await = "none"
    /\ UpTerms(p, e, fw, bk)
    /\ Some(fw, "close") => ~e.open
    /\ UpFirst(p, e, fw)
    /\ e.open => ServersAre(p, e, bk) /\ PagesAre(p, e, fw)

-----------------------------------------------------------------------------
(* What sending and receiving do to the messages under way.                *)

Adds(v, w, m) == v = Append(w, m)
Takes(v, w) == v = Tail(w)
Joins(v, w, s) == v = w \o s

LEMMA UnderIs ==
  ASSUME NEW S, NEW w \in Seq(S), NEW t, NEW i
  PROVE  i \in Under(w, t) <=> i \in 1..Len(w) /\ w[i].type = t
BY LenProperties DEF Under

LEMMA SentIs ==
  ASSUME NEW w, NEW k
  PROVE  k \in Sent(w) <=> \E i \in Under(w, "ice") : w[i].candidate = k
BY DEF Sent

LEMMA AppendUnder ==
  ASSUME NEW S, NEW w \in Seq(S), NEW m \in S, NEW v, Adds(v, w, m), NEW t, NEW i
  PROVE  /\ i \in Under(v, t)
              <=> i \in Under(w, t) \/ (i = Len(w) + 1 /\ m.type = t)
         /\ i \in Under(w, t) => i \in 1..Len(w) /\ v[i] = w[i]
         /\ v[Len(w) + 1] = m /\ Len(w) \in Nat
<1>1. /\ v \in Seq(S)
      /\ Len(v) = Len(w) + 1
      /\ \A j \in 1..Len(w) : v[j] = w[j]
      /\ v[Len(w) + 1] = m /\ Len(w) \in Nat
  BY AppendProperties, LenProperties DEF Adds
<1>2. i \in Under(w, t) <=> i \in 1..Len(w) /\ w[i].type = t
  BY UnderIs
<1>3. i \in Under(v, t)
        <=> i \in 1..Len(v) /\ v[i].type = t
  BY <1>1, UnderIs
<1>4. QED
  BY <1>1, <1>2, <1>3

LEMMA AppendSent ==
  ASSUME NEW S, NEW w \in Seq(S), NEW m \in S, NEW v, Adds(v, w, m)
  PROVE  Sent(v)
           = IF m.type = "ice" THEN Sent(w) \cup {m.candidate} ELSE Sent(w)
<1>1. ASSUME NEW k
      PROVE  k \in Sent(v)
               <=> k \in Sent(w) \/ (m.type = "ice" /\ k = m.candidate)
  <2>1. k \in Sent(w) <=> \E i \in Under(w, "ice") : w[i].candidate = k
    BY SentIs
  <2>2. k \in Sent(v)
          <=> \E i \in Under(v, "ice") : v[i].candidate = k
    BY SentIs
  <2>3. \A i : /\ i \in Under(v, "ice")
                    <=> i \in Under(w, "ice") \/ (i = Len(w) + 1 /\ m.type = "ice")
               /\ i \in Under(w, "ice") => v[i] = w[i]
               /\ v[Len(w) + 1] = m
    BY AppendUnder
  <2>4. QED
    BY <2>1, <2>2, <2>3
<1>2. QED
  BY <1>1

LEMMA TailUnder ==
  ASSUME NEW S, NEW w \in Seq(S), w # <<>>, NEW v, Takes(v, w), NEW t, NEW i
  PROVE  /\ i \in Under(v, t)
              <=> i \in Nat /\ i # 0 /\ i + 1 \in Under(w, t)
         /\ i \in Under(v, t) => v[i] = w[i + 1]
         /\ i \in Under(w, t) => i \in Nat /\ i # 0
<1>1. /\ v \in Seq(S)
      /\ Len(v) = Len(w) - 1
      /\ \A j \in 1..Len(v) : v[j] = w[j + 1]
      /\ Len(w) \in Nat
  BY HeadTailProperties, LenProperties DEF Takes
<1>2. i \in Under(w, t) <=> i \in 1..Len(w) /\ w[i].type = t
  BY UnderIs
<1>3. i + 1 \in Under(w, t) <=> i + 1 \in 1..Len(w) /\ w[i + 1].type = t
  BY UnderIs
<1>4. i \in Under(v, t) <=> i \in 1..Len(v) /\ v[i].type = t
  BY <1>1, UnderIs
<1>5. QED
  BY <1>1, <1>2, <1>3, <1>4

LEMMA HeadUnder ==
  ASSUME NEW S, NEW w \in Seq(S), w # <<>>
  PROVE  1 \in Under(w, Head(w).type) /\ w[1] = Head(w) /\ Head(w) \in S
<1>1. Len(w) \in Nat /\ Len(w) # 0 /\ Head(w) = w[1] /\ Head(w) \in S
  BY HeadTailProperties, EmptySeq
<1>2. 1 \in Under(w, Head(w).type) <=> 1 \in 1..Len(w) /\ w[1].type = Head(w).type
  BY UnderIs
<1>3. QED
  BY <1>1, <1>2

LEMMA TailSent ==
  ASSUME NEW S, NEW w \in Seq(S), w # <<>>, NEW v, Takes(v, w)
  PROVE  Sent(w) = IF Head(w).type = "ice" THEN Sent(v) \cup {Head(w).candidate}
                   ELSE Sent(v)
<1>0. 1 \in Under(w, Head(w).type) /\ w[1] = Head(w)
  BY HeadUnder
<1>00. 1 \in Under(w, "ice") => w[1].type = "ice"
  BY UnderIs
<1>1. ASSUME NEW k
      PROVE  k \in Sent(w)
               <=> k \in Sent(v) \/ (Head(w).type = "ice" /\ k = Head(w).candidate)
  <2>1. k \in Sent(w) <=> \E i \in Under(w, "ice") : w[i].candidate = k
    BY SentIs
  <2>2. k \in Sent(v)
          <=> \E i \in Under(v, "ice") : v[i].candidate = k
    BY SentIs
  <2>3. \A i : /\ i \in Under(v, "ice")
                    <=> i \in Nat /\ i # 0 /\ i + 1 \in Under(w, "ice")
               /\ i \in Under(v, "ice") => v[i] = w[i + 1]
               /\ i \in Under(w, "ice") => i \in Nat /\ i # 0
    BY TailUnder
  <2>4. ASSUME k \in Sent(v) PROVE k \in Sent(w)
    <3>1. PICK i \in Under(v, "ice") : v[i].candidate = k
      BY <2>2, <2>4
    <3>2. i + 1 \in Under(w, "ice") /\ w[i + 1].candidate = k
      BY <2>3, <3>1
    <3>3. QED
      BY <2>1, <3>2
  <2>5. ASSUME k \in Sent(w), ~(Head(w).type = "ice" /\ k = Head(w).candidate)
        PROVE  k \in Sent(v)
    <3>1. PICK i \in Under(w, "ice") : w[i].candidate = k
      BY <2>1, <2>5
    <3>2. i \in Nat /\ i # 0 /\ i # 1
      BY <2>3, <2>5, <3>1, <1>0, <1>00
    <3>3. (i - 1) \in Nat /\ (i - 1) # 0 /\ (i - 1) + 1 = i
      BY <3>2
    <3>4. (i - 1) \in Under(v, "ice") /\ v[i - 1] = w[i]
      BY <2>3, <3>3, <3>1
    <3>5. QED
      BY <2>2, <3>1, <3>4
  <2>6. Head(w).type = "ice" /\ k = Head(w).candidate => k \in Sent(w)
    BY <2>1, <1>0
  <2>7. QED
    BY <2>4, <2>5, <2>6
<1>2. QED
  BY <1>1

Ices == [type : {"ice"}, candidate : Candidates]

(* The flushed candidates are those that were held back, in some order.    *)
LEMMA FlushedAre ==
  ASSUME NegotiationAssumption, NEW held \in SUBSET Candidates,
         NEW s \in Sends(held)
  PROVE  /\ s \in Seq(Ices)
         /\ \A i \in 1..Len(s) : s[i].type = "ice"
         /\ Sent(s) = held
<1> DEFINE I == {Ice(k) : k \in held}
           n == Cardinality(held)
<1>1. IsFiniteSet(held) /\ n \in Nat
  <2>1. IsFiniteSet(Candidates)
    BY FS_Interval DEF Candidates, NegotiationAssumption
  <2>2. IsFiniteSet(held)
    BY <2>1, FS_Subset
  <2>3. QED
    BY <2>2, FS_CardinalityType
<1>2. IsFiniteSet(I) /\ Cardinality(I) = n
  <2> DEFINE h == [k \in held |-> Ice(k)]
  <2>1. /\ h \in [held -> I] /\ \A k \in held : h[k] = Ice(k)
        /\ \A y \in I : \E k \in held : y = Ice(k)
    OBVIOUS
  <2>2. \A j, k \in held : Ice(j) = Ice(k) => j = k
    <3>1. \A k : Ice(k).candidate = k
      BY DEF Ice
    <3>2. QED
      BY <3>1
  <2> HIDE DEF h, I
  <2>3. DOMAIN h = held
    BY <2>1
  <2>4. h \in Injection(held, I)
    BY <2>1, <2>2, <2>3 DEF Injection, IsInjective
  <2>5. h \in Surjection(held, I)
    BY <2>1 DEF Surjection
  <2>6. h \in Bijection(held, I)
    BY <2>4, <2>5 DEF Bijection
  <2>7. ExistsBijection(held, I)
    BY <2>6 DEF ExistsBijection
  <2>8. QED
    BY <2>7, <1>1, FS_Bijection
<1>4. /\ s \in [1..n -> I]
      /\ \A i, j \in DOMAIN s : i # j => s[i] # s[j]
  BY DEF Sends
<1>5. DOMAIN s = 1..n
  BY <1>4
<1>6. s \in Injection(1..n, I)
  BY <1>4, <1>5 DEF Injection, IsInjective
<1>7. IsFiniteSet(1..n) /\ Cardinality(1..n) = n
  BY <1>1, FS_Interval
<1>8. s \in Surjection(1..n, I)
  BY <1>2, <1>6, <1>7, FS_Injection
<1>9. I \subseteq Ices
  BY DEF Ice, Ices
<1>10. s \in Seq(Ices) /\ Len(s) = n
  BY <1>1, <1>4, <1>9
<1>11. \A i \in 1..n : \E k \in held : s[i] = Ice(k)
  BY <1>4
<1>12. \A i \in 1..n : s[i].type = "ice" /\ s[i].candidate \in held
  <2>1. \A k : Ice(k).type = "ice" /\ Ice(k).candidate = k
    BY DEF Ice
  <2>2. QED
    BY <1>11, <2>1
<1>13. \A i : i \in Under(s, "ice") <=> i \in 1..n
  BY <1>10, <1>12, UnderIs
<1>14. ASSUME NEW k \in held PROVE k \in Sent(s)
  <2>1. PICK i \in 1..n : s[i] = Ice(k)
    BY <1>8 DEF Surjection
  <2>2. QED
    BY <2>1, <1>13 DEF Sent, Ice
<1>15. QED
  BY <1>10, <1>12, <1>13, <1>14 DEF Sent

LEMMA ConcatUnder ==
  ASSUME NEW S, NEW w \in Seq(S), NEW s \in Seq(S), NEW v, Joins(v, w, s), NEW t, NEW i,
         \A j \in 1..Len(s) : s[j].type = "ice"
  PROVE  /\ t # "ice" => (i \in Under(v, t) <=> i \in Under(w, t))
         /\ i \in Under(w, t) => v[i] = w[i] /\ i \in Under(v, t)
         /\ v \in Seq(S)
<1>1. /\ v \in Seq(S) /\ Len(v) = Len(w) + Len(s)
      /\ \A j \in 1..Len(w) + Len(s) :
           v[j] = IF j <= Len(w) THEN w[j] ELSE s[j - Len(w)]
      /\ Len(w) \in Nat /\ Len(s) \in Nat
  BY ConcatProperties, LenProperties DEF Joins
<1>2. i \in Under(w, t) <=> i \in 1..Len(w) /\ w[i].type = t
  BY UnderIs
<1>3. i \in Under(v, t) <=> i \in 1..Len(v) /\ v[i].type = t
  BY <1>1, UnderIs
<1>4. ASSUME i \in 1..Len(w) PROVE i \in 1..Len(v) /\ v[i] = w[i]
  BY <1>1, <1>4
<1>5. ASSUME i \in 1..Len(v), ~(i \in 1..Len(w)) PROVE v[i].type = "ice"
  <2>1. (i - Len(w)) \in 1..Len(s) /\ v[i] = s[i - Len(w)]
    BY <1>1, <1>5
  <2>2. QED
    BY <2>1
<1>6. QED
  BY <1>1, <1>2, <1>3, <1>4, <1>5

LEMMA ConcatSent ==
  ASSUME NEW S, NEW w \in Seq(S), NEW s \in Seq(S), NEW v, Joins(v, w, s)
  PROVE  Sent(v) = Sent(w) \cup Sent(s)
<1>1. /\ v \in Seq(S) /\ Len(v) = Len(w) + Len(s)
      /\ \A j \in 1..Len(w) + Len(s) :
           v[j] = IF j <= Len(w) THEN w[j] ELSE s[j - Len(w)]
      /\ Len(w) \in Nat /\ Len(s) \in Nat
  BY ConcatProperties, LenProperties DEF Joins
<1>2. /\ \A i : i \in Under(w, "ice") <=> i \in 1..Len(w) /\ w[i].type = "ice"
      /\ \A i : i \in Under(s, "ice") <=> i \in 1..Len(s) /\ s[i].type = "ice"
      /\ \A i : i \in Under(v, "ice")
                  <=> i \in 1..Len(v) /\ v[i].type = "ice"
  BY <1>1, UnderIs
<1>3. ASSUME NEW k \in Sent(w) PROVE k \in Sent(v)
  <2>1. PICK i \in Under(w, "ice") : w[i].candidate = k
    BY SentIs
  <2>2. i \in 1..Len(v) /\ v[i] = w[i]
    BY <1>1, <1>2, <2>1
  <2>3. QED
    BY <1>2, <2>1, <2>2, SentIs
<1>4. ASSUME NEW k \in Sent(s) PROVE k \in Sent(v)
  <2>1. PICK i \in Under(s, "ice") : s[i].candidate = k
    BY SentIs
  <2>2. i \in 1..Len(s)
    BY <1>2, <2>1
  <2>3. (i + Len(w)) \in 1..Len(v) /\ v[i + Len(w)] = s[i]
    BY <1>1, <2>2
  <2>4. QED
    BY <1>2, <2>1, <2>3, SentIs
<1>5. ASSUME NEW k \in Sent(v) PROVE k \in Sent(w) \/ k \in Sent(s)
  <2>1. PICK i \in Under(v, "ice") : v[i].candidate = k
    BY SentIs
  <2>2. i \in 1..Len(v) /\ v[i].type = "ice"
    BY <1>2, <2>1
  <2>3. CASE i \in 1..Len(w)
    <3>1. v[i] = w[i]
      BY <1>1, <2>3
    <3>2. QED
      BY <1>2, <2>1, <2>2, <2>3, <3>1, SentIs
  <2>4. CASE ~(i \in 1..Len(w))
    <3>1. (i - Len(w)) \in 1..Len(s) /\ v[i] = s[i - Len(w)]
      BY <1>1, <2>2, <2>4
    <3>2. QED
      BY <1>2, <2>1, <2>2, <3>1, SentIs
  <2>5. QED
    BY <2>3, <2>4
<1>6. QED
  BY <1>3, <1>4, <1>5

-----------------------------------------------------------------------------
(* Down: the server offers.                                                *)

LEMMA ForthIs ==
  ASSUME NEW m \in Forth
  PROVE  /\ m.type \in {"offer", "ice", "close"}
         /\ m.type = "offer" => m.terms \in Pair
         /\ m.type = "ice" => m.candidate \in Candidates
BY DEF Forth

LEMMA BackIs ==
  ASSUME NEW m \in Back
  PROVE  /\ m.type \in {"answer", "ice", "renegotiate", "abort"}
         /\ m.type = "answer" => m.terms \in Pair
         /\ m.type = "ice" => m.candidate \in Candidates
BY DEF Back

LEMMA OneKind ==
  ASSUME NEW S, NEW w \in Seq(S), NEW t, NEW i \in Under(w, t)
  PROVE  w[i].type = t
BY UnderIs

LEMMA TakeKeepsToken ==
  ASSUME NEW fw \in Seq(Forth), NEW bk \in Seq(Back), NEW busy, NEW offered,
         Token(fw, busy, bk, offered), bk # <<>>, NEW v, Takes(v, bk)
  PROVE  /\ v \in Seq(Back)
         /\ Token(fw, busy, v, offered)
         /\ Some(v, "answer") => Some(bk, "answer")
         /\ Head(bk).type = "answer"
              => ~Some(v, "answer") /\ ~Some(fw, "offer") /\ ~busy /\ offered
<1>1. v \in Seq(Back)
  BY HeadTailProperties DEF Takes
<1>2. \A i : /\ i \in Under(v, "answer")
                  <=> i \in Nat /\ i # 0 /\ i + 1 \in Under(bk, "answer")
             /\ i \in Under(bk, "answer") => i \in Nat /\ i # 0
  BY TailUnder
<1>3. Head(bk).type = "answer" => 1 \in Under(bk, "answer")
  BY HeadUnder
<1>4. QED
  BY <1>1, <1>2, <1>3 DEF Token, Once, Some

(* A message of the page is taken, and means nothing to the server.        *)
LEMMA DownIgnores ==
  ASSUME NEW p \in ServerEnd, NEW e \in PageEnd, NEW fw, NEW bk, NEW o,
         DownOk(p, e, fw, bk, o), bk # <<>>, NEW v, Takes(v, bk),
         Head(bk).type # "ice" \/ ~p.open
  PROVE  DownOk(p, e, fw, v, o)
<1>1. /\ fw \in Seq(Forth) /\ bk \in Seq(Back)
      /\ Token(fw, e.await # "none", bk, p.offered)
  BY DEF DownOk
<1>2. /\ v \in Seq(Back)
      /\ Token(fw, e.await # "none", v, p.offered)
      /\ Some(v, "answer") => Some(bk, "answer")
  BY <1>1, TakeKeepsToken
<1>3. Sent(bk) = IF Head(bk).type = "ice" THEN Sent(v) \cup {Head(bk).candidate}
                 ELSE Sent(v)
  BY <1>1, TailSent
<1>4. DownTerms(p, e, fw, v)
  BY <1>2 DEF DownOk, DownTerms
<1>5. p.open => PagesAre(p, e, v)
  BY <1>3 DEF DownOk, PagesAre
<1>6. QED
  BY <1>1, <1>2, <1>4, <1>5 DEF DownOk

LEMMA DownTakesIce ==
  ASSUME NEW p \in ServerEnd, NEW e \in PageEnd, NEW fw, NEW bk, NEW o,
         DownOk(p, e, fw, bk, o), bk # <<>>, NEW v, Takes(v, bk),
         Head(bk).type = "ice", NEW q \in ServerEnd,
         q.open = p.open, q.offered = p.offered, q.needed = p.needed,
         q.terms = p.terms, q.found = p.found,
         q.held \cup q.got = p.held \cup p.got \cup {Head(bk).candidate}
  PROVE  DownOk(q, e, fw, v, o)
<1>1. /\ fw \in Seq(Forth) /\ bk \in Seq(Back)
      /\ Token(fw, e.await # "none", bk, p.offered)
  BY DEF DownOk
<1>2. /\ v \in Seq(Back)
      /\ Token(fw, e.await # "none", v, q.offered)
      /\ Some(v, "answer") => Some(bk, "answer")
  BY <1>1, TakeKeepsToken
<1>3. Sent(bk) = Sent(v) \cup {Head(bk).candidate}
  BY <1>1, TailSent
<1>4. DownTerms(q, e, fw, v)
  BY <1>2 DEF DownOk, DownTerms
<1>5. q.open => PagesAre(q, e, v)
  <2>1. p.open => e.found = e.localIceCandidates \cup Sent(bk) \cup p.held \cup p.got
    BY DEF DownOk, PagesAre
  <2>2. QED
    BY <2>1, <1>3 DEF PagesAre
<1>6. Remembered(q, o) /\ CloseLast(q, fw) /\ DownFirst(q, e, fw)
        /\ (e.open => ServersAre(q, e, fw))
  BY DEF DownOk, Remembered, CloseLast, DownFirst, ServersAre
<1>7. QED
  BY <1>1, <1>2, <1>4, <1>5, <1>6 DEF DownOk

(* An answer, when nothing has changed since the offer.                    *)
LEMMA DownTakesAnswer ==
  ASSUME NEW p \in ServerEnd, NEW e \in PageEnd, NEW fw, NEW bk, NEW o,
         DownOk(p, e, fw, bk, o), bk # <<>>, NEW v, Takes(v, bk),
         Head(bk).type = "answer", p.needed = 0, p.open, NEW q \in ServerEnd,
         q.open = p.open, ~q.offered, q.needed = p.needed,
         q.terms = p.terms, q.found = p.found,
         q.held \cup q.got = p.held \cup p.got
  PROVE  DownOk(q, e, fw, v, o)
<1>1. /\ fw \in Seq(Forth) /\ bk \in Seq(Back)
      /\ Token(fw, e.await # "none", bk, p.offered)
  BY DEF DownOk
<1>3. Some(bk, "answer")
  BY <1>1, HeadUnder DEF Some
<1>2. /\ v \in Seq(Back)
      /\ Token(fw, e.await # "none", v, p.offered)
      /\ ~Some(v, "answer") /\ ~Some(fw, "offer") /\ e.await = "none" /\ p.offered
  <2>1. ~Some(fw, "offer") /\ e.await = "none" /\ p.offered
    BY <1>1, <1>3 DEF Token
  <2>2. QED
    BY <1>1, <2>1, TakeKeepsToken
<1>4. Token(fw, e.await # "none", v, q.offered)
  BY <1>2 DEF Token
<1>5. DownTerms(q, e, fw, v)
  BY <1>2, <1>3 DEF DownOk, DownTerms, Some
<1>6. Sent(bk) = Sent(v)
  BY <1>1, TailSent
<1>7. q.open => PagesAre(q, e, v)
  <2>1. p.open => e.found = e.localIceCandidates \cup Sent(bk) \cup p.held \cup p.got
    BY DEF DownOk, PagesAre
  <2>2. QED
    BY <2>1, <1>6 DEF PagesAre
<1>8. Remembered(q, o) /\ CloseLast(q, fw) /\ (e.open => ServersAre(q, e, fw))
  BY DEF DownOk, Remembered, CloseLast, ServersAre
<1>9. e.open
  BY <1>2 DEF DownOk, DownFirst
<1>10. QED
  BY <1>1, <1>2, <1>4, <1>5, <1>7, <1>8, <1>9 DEF DownOk, DownFirst

(* The server closes its connection.                                       *)
LEMMA DownShuts ==
  ASSUME NEW p \in ServerEnd, NEW e \in PageEnd, NEW fw, NEW bk, NEW o,
         DownOk(p, e, fw, bk, o), NEW v, NEW q \in ServerEnd,
         Adds(v, fw, [type |-> "close"]), ~q.open, q.offered = p.offered,
         q.needed = p.needed, q.terms = p.terms, q.found = p.found
  PROVE  DownOk(q, e, v, bk, o)
<1> DEFINE m == [type |-> "close"]
<1>0. m \in Forth /\ m.type = "close"
  BY DEF Forth
<1> HIDE DEF m
<1>1. /\ fw \in Seq(Forth) /\ bk \in Seq(Back) /\ Adds(v, fw, m)
      /\ Token(fw, e.await # "none", bk, p.offered)
  BY DEF DownOk, m
<1>2. /\ v \in Seq(Forth) /\ Sent(v) = Sent(fw) /\ Len(fw) \in Nat
  <2>1. v \in Seq(Forth) /\ Len(fw) \in Nat
    BY <1>0, <1>1, AppendProperties, LenProperties DEF Adds
  <2>2. QED
    BY <1>0, <1>1, <2>1, AppendSent
<1>3. \A i : /\ i \in Under(v, "offer") <=> i \in Under(fw, "offer")
             /\ i \in Under(fw, "offer") => i \in 1..Len(fw) /\ v[i] = fw[i]
  BY <1>0, <1>1, AppendUnder
<1>4. \A i : i \in Under(v, "close") <=> i \in Under(fw, "close") \/ i = Len(fw) + 1
  BY <1>0, <1>1, AppendUnder
<1>5. Token(v, e.await # "none", bk, q.offered)
  BY <1>1, <1>3 DEF Token, Once, Some
<1>6. DownTerms(q, e, v, bk)
  BY <1>3 DEF DownOk, DownTerms
<1>7. CloseLast(q, v)
  <2>1. \A i \in Under(fw, "close"), j \in Under(fw, "offer") : j < i
    BY DEF DownOk, CloseLast
  <2>2. \A j \in Under(fw, "offer") : j < Len(fw) + 1
    BY <1>2, <1>3
  <2>3. QED
    BY <2>1, <2>2, <1>3, <1>4 DEF CloseLast
<1>8. DownFirst(q, e, v)
  BY <1>2, <1>3 DEF DownOk, DownFirst
<1>9. e.open => ServersAre(q, e, v)
  BY <1>2 DEF DownOk, ServersAre
<1>10. Remembered(q, o)
  BY DEF DownOk, Remembered
<1>11. QED
  BY <1>1, <1>2, <1>5, <1>6, <1>7, <1>8, <1>9, <1>10 DEF DownOk

LEMMA DownFinds ==
  ASSUME NEW p \in ServerEnd, NEW e \in PageEnd, NEW fw, NEW bk, NEW o,
         DownOk(p, e, fw, bk, o), p.open, p.terms.tracks # 0,
         NEW k \in Candidates, NEW v, Adds(v, fw, Ice(k)),
         NEW q \in ServerEnd, q = [p EXCEPT !.found = @ \cup {k}]
  PROVE  DownOk(q, e, v, bk, o)
<1> DEFINE m == Ice(k)
<1>0. m \in Forth /\ m.type = "ice" /\ m.candidate = k
  BY DEF Forth, Ice
<1> HIDE DEF m
<1>00. /\ q.open = p.open /\ q.offered = p.offered /\ q.needed = p.needed
       /\ q.terms = p.terms /\ q.found = p.found \cup {k}
       /\ q.held = p.held /\ q.got = p.got
  BY DEF ServerEnd
<1>1. /\ fw \in Seq(Forth) /\ bk \in Seq(Back) /\ Adds(v, fw, m)
      /\ Token(fw, e.await # "none", bk, p.offered)
  BY DEF DownOk, m
<1>2a. v \in Seq(Forth)
  BY <1>0, <1>1, AppendProperties DEF Adds
<1>2b. Sent(v) = Sent(fw) \cup {k}
  BY <1>0, <1>1, AppendSent
<1>2. v \in Seq(Forth) /\ Sent(v) = Sent(fw) \cup {k}
  BY <1>2a, <1>2b
<1>3. \A i : /\ i \in Under(v, "offer") <=> i \in Under(fw, "offer")
             /\ i \in Under(fw, "offer") => v[i] = fw[i]
             /\ i \in Under(v, "close") <=> i \in Under(fw, "close")
  BY <1>0, <1>1, AppendUnder
<1>5. Token(v, e.await # "none", bk, q.offered)
  BY <1>1, <1>3, <1>00 DEF Token, Once, Some
<1>6. DownTerms(q, e, v, bk)
  BY <1>3, <1>00 DEF DownOk, DownTerms
<1>7. CloseLast(q, v)
  BY <1>3, <1>00 DEF DownOk, CloseLast, Some
<1>8. DownFirst(q, e, v)
  BY <1>2, <1>3, <1>00 DEF DownOk, DownFirst, Some
<1>9. e.open => ServersAre(q, e, v)
  BY <1>2, <1>00 DEF DownOk, ServersAre
<1>10. Remembered(q, o) /\ (q.open => PagesAre(q, e, bk))
  BY <1>00 DEF DownOk, Remembered, PagesAre
<1>11. QED
  BY <1>1, <1>2, <1>5, <1>6, <1>7, <1>8, <1>9, <1>10 DEF DownOk

Offering(p, t) == [p EXCEPT !.needed = 0, !.offered = TRUE, !.terms = t]

LEMMA OfferedEnd ==
  ASSUME NEW p \in ServerEnd, NEW t \in Pair
  PROVE  LET q == Offering(p, t)
         IN  /\ q \in ServerEnd /\ q.open = p.open /\ q.offered
             /\ q.terms = t /\ q.found = p.found /\ q.held = p.held
             /\ q.got = p.got /\ q.needed = 0
<1> DEFINE x == [p EXCEPT !.needed = 0]
           y == [x EXCEPT !.offered = TRUE]
           q == Offering(p, t)
<1>1. /\ x \in ServerEnd /\ x.open = p.open
      /\ x.found = p.found /\ x.held = p.held
      /\ x.got = p.got /\ x.needed = 0
  BY DEF ServerEnd
<1> HIDE DEF x
<1>2. /\ y \in ServerEnd /\ y.open = x.open /\ y.offered
      /\ y.found = x.found /\ y.held = x.held
      /\ y.got = x.got /\ y.needed = x.needed
  BY <1>1 DEF ServerEnd
<1>3. q = [y EXCEPT !.terms = t]
  BY DEF x, Offering
<1> HIDE DEF y, q
<1>4. /\ q \in ServerEnd /\ q.open = p.open /\ q.offered
      /\ q.terms = t /\ q.found = p.found /\ q.held = p.held
      /\ q.got = p.got /\ q.needed = 0
  BY <1>1, <1>2, <1>3 DEF ServerEnd
<1>5. QED
  BY <1>4 DEF q

(* The server offers, or puts the offer off.                               *)
LEMMA DownNegotiates ==
  ASSUME Ends, NEW p \in ServerEnd, NEW e \in PageEnd, NEW fw \in Seq(Forth),
         NEW bk \in Seq(Back), NEW r \in BOOLEAN, p.open,
         Token(fw, e.await # "none", bk, TRUE),
         p.offered => (owed => p.needed = 2),
         ~p.offered => /\ ~Some(fw, "offer") /\ ~Some(bk, "answer")
                       /\ e.await = "none" /\ (owed => r),
         CloseLast(p, fw),
         ~e.open => /\ e.await = "none" /\ Untouched(e) /\ p.found = Sent(fw)
                    /\ p.offered => Some(fw, "offer")
                    /\ ~p.offered => fw = <<>>
                    /\ \A i \in Under(fw, "offer") : i = 1,
         e.open => ServersAre(p, e, fw),
         PagesAre(p, e, bk),
         negotiate(p, r, fw)
  PROVE  /\ peer' \in ServerEnd /\ owed' \in BOOLEAN
         /\ DownOk(peer', e, fromServer', bk, owed')
<1>1. CASE p.offered
  <2> DEFINE n == IF r THEN 2 ELSE IF p.needed = 0 THEN 1 ELSE p.needed
  <2>1. /\ peer' = [p EXCEPT !.needed = n]
        /\ fromServer' = fw /\ owed' = (owed \/ r)
    BY <1>1 DEF negotiate
  <2>a. n \in 0..2 /\ n # 0 /\ (r => n = 2) /\ (~r /\ p.needed = 2 => n = 2)
    BY DEF ServerEnd
  <2>b. owed' \in BOOLEAN /\ (owed' => n = 2)
    BY <1>1, <2>1, <2>a DEF Ends
  <2> HIDE DEF n
  <2>2. /\ peer' \in ServerEnd /\ owed' \in BOOLEAN
        /\ peer'.open = p.open /\ peer'.offered /\ peer'.terms = p.terms
        /\ peer'.found = p.found /\ peer'.held = p.held /\ peer'.got = p.got
        /\ peer'.needed # 0 /\ (owed' => peer'.needed = 2)
    BY <1>1, <2>1, <2>a, <2>b DEF ServerEnd
  <2>3. Token(fw, e.await # "none", bk, peer'.offered)
    BY <2>2 DEF Token
  <2>4. DownTerms(peer', e, fw, bk) /\ Remembered(peer', owed')
    BY <2>2 DEF DownTerms, Remembered
  <2>5. CloseLast(peer', fw) /\ DownFirst(peer', e, fw)
    BY <1>1, <2>2 DEF CloseLast, DownFirst
  <2>6. (e.open => ServersAre(peer', e, fw)) /\ (peer'.open => PagesAre(peer', e, bk))
    BY <2>2 DEF ServersAre, PagesAre
  <2>7. QED
    BY <2>1, <2>2, <2>3, <2>4, <2>5, <2>6 DEF DownOk
<1>2. CASE ~p.offered
  <2> DEFINE t == [p.terms EXCEPT !.ice = IF r THEN @ + 1 ELSE @]
             m == [type |-> "offer", terms |-> t]
  <2>1. /\ peer' = [p EXCEPT !.needed = 0, !.offered = TRUE, !.terms = t]
        /\ fromServer' = Append(fw, m) /\ owed' = (owed /\ ~r)
    BY <1>2 DEF negotiate
  <2>2. t \in Pair
    BY DEF ServerEnd, Pair
  <2>3. m \in Forth /\ m.type = "offer" /\ m.terms = t
    BY <2>2 DEF Forth
  <2> HIDE DEF m, t
  <2>a. owed' \in BOOLEAN /\ ~owed'
    BY <1>2, <2>1 DEF Ends
  <2>4. /\ peer' \in ServerEnd /\ owed' \in BOOLEAN /\ ~owed'
        /\ peer'.open = p.open /\ peer'.offered /\ peer'.terms = t
        /\ peer'.found = p.found /\ peer'.held = p.held /\ peer'.got = p.got
        /\ peer'.needed = 0
    <3>0. peer' = Offering(p, t)
      BY <2>1 DEF Offering
    <3>1. /\ peer' \in ServerEnd
          /\ peer'.open = p.open /\ peer'.offered /\ peer'.terms = t
          /\ peer'.found = p.found /\ peer'.held = p.held /\ peer'.got = p.got
          /\ peer'.needed = 0
      BY <3>0, <2>2, OfferedEnd, Zenon
    <3>2. QED
      BY <2>a, <3>1
  <2>5. Adds(fromServer', fw, m)
    BY <2>1 DEF Adds
  <2>6. fromServer' \in Seq(Forth) /\ fromServer' # <<>> /\ Len(fw) \in Nat
    BY <2>1, <2>3, AppendProperties, LenProperties
  <2>7. Sent(fromServer') = Sent(fw)
    BY <2>3, <2>5, AppendSent
  <2>8. \A i : /\ i \in Under(fromServer', "offer") <=> i = Len(fw) + 1
               /\ i \in Under(fromServer', "close") <=> i \in Under(fw, "close")
               /\ fromServer'[Len(fw) + 1] = m
    BY <1>2, <2>3, <2>5, AppendUnder DEF Some
  <2>9. Token(fromServer', e.await # "none", bk, peer'.offered)
    BY <1>2, <2>4, <2>8 DEF Token, Once, Some
  <2>10. DownTerms(peer', e, fromServer', bk)
    BY <1>2, <2>3, <2>4, <2>8 DEF DownTerms, Some
  <2>11. CloseLast(peer', fromServer')
    BY <2>4, <2>8 DEF CloseLast, Some
  <2>12. DownFirst(peer', e, fromServer')
    <3>1. ~e.open => Len(fw) = 0 /\ e.await = "none" /\ Untouched(e) /\ p.found = Sent(fw)
      <4>1. ASSUME ~e.open PROVE Len(fw) = 0
        <5>1. fw = <<>>
          BY <1>2, <4>1
        <5>2. QED
          BY <5>1
      <4>2. QED
        BY <4>1
    <3>2. ASSUME ~e.open
          PROVE  \A i : i \in Under(fromServer', "offer") <=> i = 1
      BY <3>1, <3>2, <2>8
    <3>3. ~e.open => peer'.found = Sent(fromServer') /\ Some(fromServer', "offer")
      BY <3>1, <3>2, <2>4, <2>7 DEF Some
    <3>4. QED
      BY <3>1, <3>2, <3>3, <2>4 DEF DownFirst
  <2>13. e.open => ServersAre(peer', e, fromServer')
    BY <2>4, <2>7 DEF ServersAre
  <2>14. PagesAre(peer', e, bk) /\ Remembered(peer', owed')
    BY <2>4 DEF PagesAre, Remembered
  <2>15. QED
    BY <2>4, <2>6, <2>9, <2>10, <2>11, <2>12, <2>13, <2>14 DEF DownOk
<1>3. QED
  BY <1>1, <1>2

(* What is taken from the server's messages.                               *)
LEMMA TakeFromServer ==
  ASSUME NEW p \in ServerEnd, NEW e \in PageEnd, NEW fw, NEW bk, NEW o,
         DownOk(p, e, fw, bk, o), fw # <<>>, NEW v, Takes(v, fw)
  PROVE  /\ v \in Seq(Forth)
         /\ \A i \in Under(v, "offer") :
              i \in Nat /\ i # 0 /\ i + 1 \in Under(fw, "offer") /\ v[i] = fw[i + 1]
         /\ Once(v, "offer") /\ CloseLast(p, v)
         /\ Some(v, "offer") => Some(fw, "offer")
         /\ Head(fw).type = "offer" => 1 \in Under(fw, "offer") /\ fw[1] = Head(fw)
         /\ Head(fw).type = "close" => 1 \in Under(fw, "close")
         /\ Head(fw).type # "offer" => ~(1 \in Under(fw, "offer"))
         /\ \A i \in Under(fw, "offer") : i \in Nat /\ i # 0
<1>1. fw \in Seq(Forth) /\ Once(fw, "offer") /\ CloseLast(p, fw)
  BY DEF DownOk, Token
<1>2. v \in Seq(Forth)
  BY <1>1, HeadTailProperties DEF Takes
<1>3. \A t : \A i : /\ i \in Under(v, t) <=> i \in Nat /\ i # 0 /\ i + 1 \in Under(fw, t)
                    /\ i \in Under(v, t) => v[i] = fw[i + 1]
                    /\ i \in Under(fw, t) => i \in Nat /\ i # 0
  BY <1>1, TailUnder
<1>4. 1 \in Under(fw, Head(fw).type) /\ fw[1] = Head(fw)
  BY <1>1, HeadUnder
<1>5. 1 \in Under(fw, "offer") => fw[1].type = "offer"
  BY <1>1, OneKind
<1>6. Once(v, "offer")
  <2> SUFFICES ASSUME NEW i \in Under(v, "offer"), NEW j \in Under(v, "offer")
               PROVE  i = j
    BY DEF Once
  <2>1. /\ i \in Nat /\ j \in Nat
        /\ i + 1 \in Under(fw, "offer") /\ j + 1 \in Under(fw, "offer")
    BY <1>3
  <2>2. i + 1 = j + 1
    BY <1>1, <2>1 DEF Once
  <2>3. QED
    BY <2>1, <2>2
<1>7. CloseLast(p, v)
  <2>1. Some(v, "close") => Some(fw, "close")
    BY <1>3 DEF Some
  <2>2. ASSUME NEW i \in Under(v, "close"), NEW j \in Under(v, "offer")
        PROVE  j < i
    <3>1. /\ i \in Nat /\ j \in Nat
          /\ i + 1 \in Under(fw, "close") /\ j + 1 \in Under(fw, "offer")
      BY <1>3
    <3>2. j + 1 < i + 1
      BY <1>1, <3>1 DEF CloseLast
    <3>3. QED
      BY <3>1, <3>2
  <2>3. QED
    BY <1>1, <2>1, <2>2 DEF CloseLast
<1>8. Some(v, "offer") => Some(fw, "offer")
  BY <1>3 DEF Some
<1>9. QED
  BY <1>2, <1>3, <1>4, <1>5, <1>6, <1>7, <1>8

Answering(e, t) == [e EXCEPT !.open = TRUE, !.await = "remote", !.proposed = t]

LEMMA DownOffered ==
  ASSUME NEW p \in ServerEnd, NEW e \in PageEnd, NEW fw, NEW bk, NEW o,
         DownOk(p, e, fw, bk, o), fw # <<>>, NEW v, Takes(v, fw),
         Head(fw).type = "offer", NEW c,
         c = Answering(e, Head(fw).terms)
  PROVE  c \in PageEnd /\ DownOk(p, c, v, bk, o)
<1>1. /\ fw \in Seq(Forth) /\ bk \in Seq(Back) /\ Once(fw, "offer")
      /\ Token(fw, e.await # "none", bk, p.offered)
  BY DEF DownOk, Token
<1>2. Head(fw) \in Forth
  BY <1>1, HeadTailProperties
<1>3. Head(fw).terms \in Pair
  BY <1>2, ForthIs
<1>4. /\ c \in PageEnd /\ c.open /\ c.await = "remote"
      /\ c.proposed = Head(fw).terms /\ c.terms = e.terms /\ c.found = e.found
      /\ c.localIceCandidates = e.localIceCandidates
      /\ c.remoteIceCandidates = e.remoteIceCandidates /\ c.got = e.got
  BY <1>3 DEF PageEnd, Answering
<1>5. /\ v \in Seq(Forth) /\ Once(v, "offer") /\ CloseLast(p, v)
      /\ 1 \in Under(fw, "offer") /\ fw[1] = Head(fw)
      /\ \A i \in Under(v, "offer") : i \in Nat /\ i # 0 /\ i + 1 \in Under(fw, "offer")
  BY TakeFromServer
<1>6. ~Some(v, "offer")
  <2>1. ASSUME NEW i \in Under(v, "offer") PROVE FALSE
    <3>1. i \in Nat /\ i # 0 /\ i + 1 \in Under(fw, "offer")
      BY <1>5
    <3>2. i + 1 = 1
      BY <1>1, <1>5, <3>1 DEF Once
    <3>3. QED
      BY <3>1, <3>2
  <2>2. QED
    BY <2>1 DEF Some
<1>7. ~Some(bk, "answer") /\ p.offered
  BY <1>1, <1>5 DEF Token, Some
<1>8. Token(v, c.await # "none", bk, p.offered)
  BY <1>1, <1>4, <1>5, <1>6, <1>7 DEF Token
<1>9. DownTerms(p, c, v, bk)
  BY <1>4, <1>5, <1>6, <1>7 DEF DownOk, DownTerms, Some
<1>10. Sent(fw) = Sent(v)
  BY <1>1, TailSent
<1>11. ServersAre(p, c, v)
  <2>1. CASE e.open
    BY <2>1, <1>4, <1>10 DEF DownOk, ServersAre
  <2>2. CASE ~e.open
    <3>1. Untouched(e) /\ p.found = Sent(fw)
      BY <2>2, <1>5 DEF DownOk, DownFirst
    <3>2. QED
      BY <3>1, <1>4, <1>10 DEF Untouched, ServersAre
  <2>3. QED
    BY <2>1, <2>2
<1>12. p.open => PagesAre(p, c, bk)
  BY <1>4 DEF DownOk, PagesAre
<1>13. QED
  BY <1>1, <1>4, <1>5, <1>8, <1>9, <1>11, <1>12 DEF DownOk, DownFirst

LEMMA DownHears ==
  ASSUME NEW p \in ServerEnd, NEW e \in PageEnd, NEW fw, NEW bk, NEW o,
         DownOk(p, e, fw, bk, o), fw # <<>>, NEW v, Takes(v, fw),
         Head(fw).type = "ice", NEW c \in PageEnd,
         c.open = e.open, c.await = e.await, c.terms = e.terms,
         c.proposed = e.proposed, c.found = e.found,
         c.localIceCandidates = e.localIceCandidates,
         ~e.open => c = e,
         e.open => c.remoteIceCandidates \cup c.got
                     = e.remoteIceCandidates \cup e.got \cup {Head(fw).candidate}
  PROVE  DownOk(p, c, v, bk, o)
<1>1. /\ fw \in Seq(Forth) /\ bk \in Seq(Back) /\ Once(fw, "offer")
      /\ Token(fw, e.await # "none", bk, p.offered)
  BY DEF DownOk, Token
<1>2. /\ v \in Seq(Forth) /\ Once(v, "offer") /\ CloseLast(p, v)
      /\ ~(1 \in Under(fw, "offer"))
      /\ \A i \in Under(v, "offer") :
           i \in Nat /\ i # 0 /\ i + 1 \in Under(fw, "offer") /\ v[i] = fw[i + 1]
      /\ Some(v, "offer") => Some(fw, "offer")
  BY TakeFromServer
<1>3. Token(v, c.await # "none", bk, p.offered)
  BY <1>1, <1>2 DEF Token
<1>4. DownTerms(p, c, v, bk)
  BY <1>2 DEF DownOk, DownTerms
<1>5. DownFirst(p, c, v)
  <2>1. ASSUME ~e.open PROVE ~Some(fw, "offer") /\ ~p.open
    BY <2>1, <1>2 DEF DownOk, DownFirst, Some
  <2>2. QED
    BY <2>1, <1>2 DEF DownOk, DownFirst, Some
<1>6. Sent(fw) = Sent(v) \cup {Head(fw).candidate}
  BY <1>1, TailSent
<1>7. c.open => ServersAre(p, c, v)
  <2>1. e.open => p.found = Sent(fw) \cup e.remoteIceCandidates \cup e.got
    BY DEF DownOk, ServersAre
  <2>2. QED
    BY <2>1, <1>6 DEF ServersAre
<1>8. p.open => PagesAre(p, c, bk)
  BY DEF DownOk, PagesAre
<1>9. QED
  BY <1>1, <1>2, <1>3, <1>4, <1>5, <1>7, <1>8 DEF DownOk

LEMMA DownClosed ==
  ASSUME NEW p \in ServerEnd, NEW e \in PageEnd, NEW fw, NEW bk, NEW o,
         DownOk(p, e, fw, bk, o), fw # <<>>, NEW v, Takes(v, fw),
         Head(fw).type = "close", NEW c \in PageEnd,
         c = [e EXCEPT !.open = FALSE, !.await = "none"]
  PROVE  DownOk(p, c, v, bk, o)
<1>0. /\ ~c.open /\ c.await = "none" /\ c.terms = e.terms
      /\ c.proposed = e.proposed /\ c.found = e.found
      /\ c.localIceCandidates = e.localIceCandidates
  BY DEF PageEnd
<1>1. /\ fw \in Seq(Forth) /\ bk \in Seq(Back) /\ Once(fw, "offer")
      /\ Token(fw, e.await # "none", bk, p.offered) /\ CloseLast(p, fw)
  BY DEF DownOk, Token
<1>2. /\ v \in Seq(Forth) /\ Once(v, "offer") /\ CloseLast(p, v)
      /\ 1 \in Under(fw, "close")
      /\ \A i \in Under(v, "offer") :
           i \in Nat /\ i # 0 /\ i + 1 \in Under(fw, "offer") /\ v[i] = fw[i + 1]
      /\ \A i \in Under(fw, "offer") : i \in Nat /\ i # 0
  BY TakeFromServer
<1>3. ~Some(fw, "offer") /\ ~p.open
  BY <1>1, <1>2 DEF CloseLast, Some
<1>4. ~Some(v, "offer")
  BY <1>2, <1>3 DEF Some
<1>5. Token(v, c.await # "none", bk, p.offered)
  BY <1>0, <1>1, <1>2, <1>4 DEF Token
<1>6. DownTerms(p, c, v, bk)
  BY <1>0, <1>4 DEF DownOk, DownTerms, Some
<1>7. DownFirst(p, c, v)
  BY <1>0, <1>3, <1>4 DEF DownFirst, Some
<1>8. QED
  BY <1>0, <1>1, <1>2, <1>3, <1>5, <1>6, <1>7 DEF DownOk

(* The page goes on with what it awaits, or holds a candidate back.        *)
LEMMA DownMoves ==
  ASSUME NEW p \in ServerEnd, NEW e \in PageEnd, NEW fw, NEW bk, NEW o,
         DownOk(p, e, fw, bk, o), NEW c \in PageEnd,
         c.open = e.open, c.terms = e.terms, c.proposed = e.proposed,
         c.await # "none" <=> e.await # "none",
         c.remoteIceCandidates \cup c.got = e.remoteIceCandidates \cup e.got,
         ~e.open => c.remoteIceCandidates = e.remoteIceCandidates /\ c.got = e.got,
         NEW new, c.found = e.found \cup new,
         c.localIceCandidates = e.localIceCandidates \cup new
  PROVE  DownOk(p, c, fw, bk, o)
<1>1. /\ fw \in Seq(Forth) /\ bk \in Seq(Back)
      /\ Token(fw, e.await # "none", bk, p.offered)
  BY DEF DownOk
<1>2. Token(fw, c.await # "none", bk, p.offered)
  BY <1>1 DEF Token
<1>3. DownTerms(p, c, fw, bk)
  BY DEF DownOk, DownTerms
<1>4. DownFirst(p, c, fw)
  BY DEF DownOk, DownFirst, Untouched
<1>5. c.open => ServersAre(p, c, fw)
  BY DEF DownOk, ServersAre
<1>6. p.open => PagesAre(p, c, bk)
  BY DEF DownOk, PagesAre
<1>7. QED
  BY <1>1, <1>2, <1>3, <1>4, <1>5, <1>6 DEF DownOk

(* The page sends a message that is not an answer.                         *)
LEMMA DownSays ==
  ASSUME NEW p \in ServerEnd, NEW e \in PageEnd, NEW fw, NEW bk, NEW o,
         DownOk(p, e, fw, bk, o), NEW c \in PageEnd, NEW m \in Back,
         m.type # "answer", NEW v, Adds(v, bk, m),
         c.open = e.open, c.terms = e.terms, c.proposed = e.proposed,
         c.await \in {e.await, "none"},
         c.remoteIceCandidates = e.remoteIceCandidates, c.got = e.got,
         c.localIceCandidates = e.localIceCandidates,
         c.found = IF m.type = "ice" THEN e.found \cup {m.candidate} ELSE e.found
  PROVE  DownOk(p, c, fw, v, o)
<1>1. /\ fw \in Seq(Forth) /\ bk \in Seq(Back)
      /\ Token(fw, e.await # "none", bk, p.offered)
  BY DEF DownOk
<1>2. v \in Seq(Back)
  BY <1>1, AppendProperties DEF Adds
<1>3. \A i : i \in Under(v, "answer") <=> i \in Under(bk, "answer")
  BY <1>1, AppendUnder
<1>4. Sent(v) = IF m.type = "ice" THEN Sent(bk) \cup {m.candidate} ELSE Sent(bk)
  BY <1>1, AppendSent
<1>5. Token(fw, c.await # "none", v, p.offered)
  BY <1>1, <1>3 DEF Token, Once, Some
<1>6. DownTerms(p, c, fw, v)
  BY <1>3 DEF DownOk, DownTerms, Some
<1>7. DownFirst(p, c, fw) /\ (c.open => ServersAre(p, c, fw))
  BY DEF DownOk, DownFirst, Untouched, ServersAre
<1>8. p.open => PagesAre(p, c, v)
  <2>1. p.open => e.found = e.localIceCandidates \cup Sent(bk) \cup p.held \cup p.got
    BY DEF DownOk, PagesAre
  <2>2. CASE m.type = "ice"
    BY <2>1, <2>2, <1>4 DEF PagesAre
  <2>3. CASE m.type # "ice"
    BY <2>1, <2>3, <1>4 DEF PagesAre
  <2>4. QED
    BY <2>2, <2>3
<1>9. QED
  BY <1>1, <1>2, <1>5, <1>6, <1>7, <1>8 DEF DownOk

(* The page answers, and sends the candidates it has held back.            *)
LEMMA DownAnswers ==
  ASSUME NegotiationAssumption, NEW p \in ServerEnd, NEW e \in PageEnd,
         NEW fw, NEW bk, NEW o,
         DownOk(p, e, fw, bk, o), e.await # "none",
         NEW c \in PageEnd, NEW m \in Back, m.type = "answer",
         NEW u, Adds(u, bk, m), NEW s \in Sends(e.localIceCandidates),
         NEW v, Joins(v, u, s),
         c.open = e.open, c.terms = e.proposed, c.proposed = e.proposed,
         c.await = "none", c.localIceCandidates = {}, c.found = e.found,
         c.remoteIceCandidates = e.remoteIceCandidates, c.got = e.got
  PROVE  DownOk(p, c, fw, v, o)
<1>1. /\ fw \in Seq(Forth) /\ bk \in Seq(Back)
      /\ Token(fw, e.await # "none", bk, p.offered)
  BY DEF DownOk
<1>2. u \in Seq(Back) /\ Len(bk) \in Nat
  BY <1>1, AppendProperties, LenProperties DEF Adds
<1>3. \A i : i \in Under(u, "answer") <=> i \in Under(bk, "answer") \/ i = Len(bk) + 1
  BY <1>1, AppendUnder
<1>4. Sent(u) = Sent(bk)
  BY <1>1, AppendSent
<1>5. Ices \subseteq Back /\ e.localIceCandidates \in SUBSET Candidates
  BY DEF Ices, Back, PageEnd
<1>6. /\ s \in Seq(Back) /\ \A i \in 1..Len(s) : s[i].type = "ice"
      /\ Sent(s) = e.localIceCandidates
  <2>1. /\ s \in Seq(Ices) /\ \A i \in 1..Len(s) : s[i].type = "ice"
        /\ Sent(s) = e.localIceCandidates
    BY <1>5, FlushedAre
  <2>2. QED
    BY <2>1, <1>5, SeqMonotonic
<1>7. \A i : i \in Under(v, "answer") <=> i \in Under(u, "answer")
  BY <1>2, <1>6, ConcatUnder
<1>8. v \in Seq(Back)
  BY <1>2, <1>6, ConcatProperties DEF Joins
<1>9. Sent(v) = Sent(bk) \cup e.localIceCandidates
  BY <1>2, <1>4, <1>6, ConcatSent
<1>10. ~Some(fw, "offer") /\ ~Some(bk, "answer") /\ p.offered
  BY <1>1 DEF Token
<1>11. Token(fw, c.await # "none", v, p.offered)
  BY <1>1, <1>3, <1>7, <1>10 DEF Token, Once, Some
<1>12. DownTerms(p, c, fw, v)
  BY <1>10 DEF DownOk, DownTerms, Some
<1>13. e.open
  BY DEF DownOk, DownFirst
<1>14. DownFirst(p, c, fw) /\ (c.open => ServersAre(p, c, fw))
  BY <1>13 DEF DownOk, DownFirst, ServersAre
<1>15. p.open => PagesAre(p, c, v)
  BY <1>9 DEF DownOk, PagesAre
<1>16. QED
  BY <1>1, <1>8, <1>11, <1>12, <1>14, <1>15 DEF DownOk

-----------------------------------------------------------------------------
DownNow == DownOk(peer, jsEnd, fromServer, fromPage, owed)

Down == Ends /\ direction = "down" /\ DownNow

LEMMA PushOk == Down /\ pushDownConn => Down'
<1> SUFFICES ASSUME Down, pushDownConn PROVE Down'
  OBVIOUS
<1> DEFINE p == [peer EXCEPT !.terms.tracks = @ + 1]
<1>1. p \in ServerEnd
  BY DEF Down, Ends, ServerEnd, Pair
<1>2. /\ p.open = peer.open /\ p.offered = peer.offered
      /\ p.needed = peer.needed /\ p.found = peer.found
      /\ p.held = peer.held /\ p.got = peer.got
  BY DEF Down, Ends, ServerEnd
<1>3. negotiate(p, FALSE, fromServer)
  BY DEF pushDownConn
<1> HIDE DEF p
<1>4. /\ Ends /\ peer \in ServerEnd /\ jsEnd \in PageEnd /\ owed \in BOOLEAN
      /\ p.open /\ fromServer \in Seq(Forth) /\ fromPage \in Seq(Back)
      /\ Token(fromServer, jsEnd.await # "none", fromPage, peer.offered)
      /\ Remembered(peer, owed) /\ DownFirst(peer, jsEnd, fromServer)
  BY <1>2 DEF Down, DownNow, DownOk, Ends, pushDownConn
<1>5. Token(fromServer, jsEnd.await # "none", fromPage, TRUE)
  BY <1>4 DEF Token
<1>6. p.offered => (owed => p.needed = 2)
  BY <1>2, <1>4 DEF Remembered
<1>7. ~p.offered => /\ ~Some(fromServer, "offer") /\ ~Some(fromPage, "answer")
                    /\ jsEnd.await = "none" /\ (owed => FALSE)
  BY <1>2, <1>4 DEF Token, Remembered
<1>8. CloseLast(p, fromServer)
  BY <1>2 DEF Down, DownNow, DownOk, CloseLast
<1>9. ~jsEnd.open => /\ jsEnd.await = "none" /\ Untouched(jsEnd)
                     /\ p.found = Sent(fromServer)
                     /\ p.offered => Some(fromServer, "offer")
                     /\ ~p.offered => fromServer = <<>>
                     /\ \A i \in Under(fromServer, "offer") : i = 1
  BY <1>2, <1>4 DEF DownFirst
<1>10. /\ jsEnd.open => ServersAre(p, jsEnd, fromServer)
       /\ PagesAre(p, jsEnd, fromPage)
  BY <1>2, <1>4 DEF Down, DownNow, DownOk, ServersAre, PagesAre
<1>11. /\ peer' \in ServerEnd /\ owed' \in BOOLEAN
       /\ DownOk(peer', jsEnd, fromServer', fromPage, owed')
  BY <1>1, <1>3, <1>4, <1>5, <1>6, <1>7, <1>8, <1>9, <1>10, DownNegotiates
<1>12. QED
  BY <1>11 DEF Down, DownNow, Ends, pushDownConn

(* The server negotiates what is as it was.                                *)
LEMMA DownAsks ==
  ASSUME Ends, peer.open, NEW v, DownOk(peer, jsEnd, fromServer, v, owed),
         NEW r \in BOOLEAN, negotiate(peer, r, fromServer)
  PROVE  /\ peer' \in ServerEnd /\ owed' \in BOOLEAN
         /\ DownOk(peer', jsEnd, fromServer', v, owed')
<1>1. /\ Ends /\ peer \in ServerEnd /\ jsEnd \in PageEnd /\ owed \in BOOLEAN
      /\ peer.open /\ fromServer \in Seq(Forth) /\ v \in Seq(Back)
      /\ Token(fromServer, jsEnd.await # "none", v, peer.offered)
      /\ Remembered(peer, owed) /\ DownFirst(peer, jsEnd, fromServer)
      /\ CloseLast(peer, fromServer)
      /\ jsEnd.open => ServersAre(peer, jsEnd, fromServer)
      /\ PagesAre(peer, jsEnd, v)
  BY DEF DownOk, Ends
<1>2. Token(fromServer, jsEnd.await # "none", v, TRUE)
  BY <1>1 DEF Token
<1>3. peer.offered => (owed => peer.needed = 2)
  BY <1>1 DEF Remembered
<1>4. ~peer.offered => /\ ~Some(fromServer, "offer") /\ ~Some(v, "answer")
                       /\ jsEnd.await = "none" /\ (owed => r)
  BY <1>1 DEF Token, Remembered
<1>5. ~jsEnd.open => /\ jsEnd.await = "none" /\ Untouched(jsEnd)
                     /\ peer.found = Sent(fromServer)
                     /\ peer.offered => Some(fromServer, "offer")
                     /\ ~peer.offered => fromServer = <<>>
                     /\ \A i \in Under(fromServer, "offer") : i = 1
  BY <1>1 DEF DownFirst
<1>6. QED
  BY <1>1, <1>2, <1>3, <1>4, <1>5, DownNegotiates

LEMMA DownFacts ==
  ASSUME Down
  PROVE  /\ Ends /\ peer \in ServerEnd /\ jsEnd \in PageEnd /\ owed \in BOOLEAN
         /\ direction = "down"
         /\ DownOk(peer, jsEnd, fromServer, fromPage, owed)
         /\ fromServer \in Seq(Forth) /\ fromPage \in Seq(Back)
         /\ ~jsEnd.open => jsEnd.await = "none"
BY DEF Down, DownNow, Ends, DownOk, DownFirst

LEMMA FailedOk == Down /\ connectionFailed => Down'
<1> SUFFICES ASSUME Down, connectionFailed PROVE Down'
  OBVIOUS
<1>1. peer.open /\ negotiate(peer, TRUE, fromServer)
  BY DownFacts DEF connectionFailed
<1>2. /\ peer' \in ServerEnd /\ owed' \in BOOLEAN
      /\ DownOk(peer', jsEnd, fromServer', fromPage, owed')
  BY <1>1, DownFacts, DownAsks
<1>3. QED
  BY <1>2, DownFacts DEF Down, DownNow, Ends, connectionFailed

LEMMA ShutOk == Down /\ ServerCloses => Down'
<1> SUFFICES ASSUME Down, ServerCloses PROVE Down'
  OBVIOUS
<1>1. /\ peer' \in ServerEnd /\ ~peer'.open /\ peer'.offered = peer.offered
      /\ peer'.needed = peer.needed /\ peer'.terms = peer.terms
      /\ peer'.found = peer.found
  BY DownFacts DEF ServerCloses, ServerEnd
<1>2. Adds(fromServer', fromServer, [type |-> "close"])
  BY DownFacts DEF ServerCloses, Message, Adds
<1>3. DownOk(peer', jsEnd, fromServer', fromPage, owed)
  BY <1>1, <1>2, DownFacts, DownShuts
<1>4. QED
  BY <1>1, <1>3, DownFacts DEF Down, DownNow, Ends, ServerCloses

LEMMA FindOk ==
  ASSUME Down, NEW k \in Candidates, ServerCandidate(k)
  PROVE  Down'
<1>1. peer.open /\ peer.terms.tracks # 0
  BY DownFacts DEF ServerCandidate, ServerEnd, Pair
<1>2. peer' = [peer EXCEPT !.found = @ \cup {k}] /\ peer' \in ServerEnd
  BY DownFacts DEF ServerCandidate, ServerEnd
<1>3. Adds(fromServer', fromServer, Ice(k))
  BY DEF ServerCandidate, Adds
<1>4. DownOk(peer', jsEnd, fromServer', fromPage, owed)
  BY <1>1, <1>2, <1>3, DownFacts, DownFinds
<1>5. QED
  BY <1>2, <1>4, DownFacts DEF Down, DownNow, Ends, ServerCandidate

(* The server's handlers, when the message has been taken.                 *)
LEMMA AnswerOk ==
  ASSUME Down, fromPage # <<>>, Takes(fromPage', fromPage),
         Head(fromPage).type = "answer", serverGotAnswer(Head(fromPage))
  PROVE  /\ peer' \in ServerEnd /\ owed' \in BOOLEAN
         /\ DownOk(peer', jsEnd, fromServer', fromPage', owed')
<1>1. DownOk(peer, jsEnd, fromServer, fromPage', owed)
  BY DownFacts, DownIgnores
<1>2. CASE ~peer.open
  <2>1. /\ peer' = peer /\ owed' = owed
        /\ Adds(fromServer', fromServer, [type |-> "close"])
    BY <1>2 DEF serverGotAnswer, Message, Adds
  <2>2. DownOk(peer, jsEnd, fromServer', fromPage', owed)
    BY <1>1, <1>2, <2>1, DownFacts, DownShuts
  <2>3. QED
    BY <2>1, <2>2, DownFacts
<1>3. CASE peer.open
  <2> DEFINE p == [peer EXCEPT !.offered = FALSE, !.remote = TRUE,
                               !.got = @ \cup peer.held, !.held = {}]
  <2>1. /\ p \in ServerEnd /\ p.open = peer.open /\ ~p.offered
        /\ p.needed = peer.needed /\ p.terms = peer.terms
        /\ p.found = peer.found
        /\ p.held \cup p.got = peer.held \cup peer.got
    BY DownFacts DEF ServerEnd
  <2>2. IF peer.needed > 0 THEN negotiate(p, peer.needed = 2, fromServer)
        ELSE peer' = p /\ UNCHANGED <<fromServer, owed>>
    BY <1>3 DEF serverGotAnswer
  <2> HIDE DEF p
  <2>3. peer.needed \in 0..2
    BY DownFacts DEF ServerEnd
  <2>4. CASE peer.needed = 0
    <3>1. peer' = p /\ fromServer' = fromServer /\ owed' = owed
      BY <2>2, <2>4
    <3>2. DownOk(p, jsEnd, fromServer, fromPage', owed)
      BY <1>3, <2>1, <2>4, DownFacts, DownTakesAnswer
    <3>3. QED
      BY <3>1, <3>2, <2>1, DownFacts
  <2>5. CASE peer.needed # 0
    <3>1. negotiate(p, peer.needed = 2, fromServer)
      BY <2>2, <2>3, <2>5
    <3>2. /\ Token(fromServer, jsEnd.await # "none", fromPage, peer.offered)
          /\ Some(fromPage, "answer")
      BY DownFacts, HeadUnder DEF DownOk, Some
    <3>3. ~Some(fromServer, "offer") /\ jsEnd.await = "none" /\ peer.offered
      BY <3>2 DEF Token
    <3>4. ~Some(fromPage', "answer")
      BY <3>2, DownFacts, TakeKeepsToken
    <3>5. /\ fromPage' \in Seq(Back) /\ CloseLast(p, fromServer)
          /\ Token(fromServer, jsEnd.await # "none", fromPage', TRUE)
      BY <1>1, <2>1, <3>3 DEF DownOk, CloseLast, Token
    <3>6. jsEnd.open
      BY <1>3, <3>3, DownFacts DEF DownOk, DownFirst
    <3>7. ServersAre(p, jsEnd, fromServer) /\ PagesAre(p, jsEnd, fromPage')
      BY <1>1, <1>3, <2>1, <3>6 DEF DownOk, ServersAre, PagesAre
    <3>8. owed => peer.needed = 2
      BY DownFacts DEF DownOk, Remembered
    <3>9. QED
      BY <1>3, <2>1, <3>1, <3>3, <3>4, <3>5, <3>6, <3>7, <3>8, DownFacts,
         DownNegotiates
  <2>6. QED
    BY <2>4, <2>5
<1>4. QED
  BY <1>2, <1>3

LEMMA ServerReceivesOk == Down /\ ServerReceives => Down'
<1> SUFFICES ASSUME Down, ServerReceives PROVE Down'
  OBVIOUS
<1> DEFINE m == Head(fromPage)
<1>1. /\ fromPage # <<>> /\ Takes(fromPage', fromPage)
      /\ UNCHANGED <<direction, jsEnd>>
  BY DEF ServerReceives, Takes
<1>2. m \in Back
  BY <1>1, DownFacts, HeadTailProperties
<1>3. m.type \in {"answer", "ice", "renegotiate", "abort"}
        /\ (m.type = "ice" => m.candidate \in Candidates)
  BY <1>2, BackIs
<1> SUFFICES /\ peer' \in ServerEnd /\ owed' \in BOOLEAN
             /\ DownOk(peer', jsEnd, fromServer', fromPage', owed')
  BY <1>1, DownFacts DEF Down, DownNow, Ends
<1>4. CASE m.type = "answer"
  <2>1. serverGotAnswer(m)
    BY <1>4 DEF ServerReceives
  <2>2. QED
    BY <1>1, <1>4, <2>1, AnswerOk
<1>5. CASE m.type = "ice"
  <2>1. serverGotICE(m.candidate)
    BY <1>5 DEF ServerReceives
  <2>2. fromServer' = fromServer /\ owed' = owed
    BY <2>1 DEF serverGotICE
  <2>3. CASE ~peer.open
    <3>1. peer' = peer
      BY <2>1, <2>3 DEF serverGotICE
    <3>2. QED
      BY <1>1, <2>2, <2>3, <3>1, DownFacts, DownIgnores
  <2>4. CASE peer.open
    <3>1. /\ peer' \in ServerEnd /\ peer'.open = peer.open
          /\ peer'.offered = peer.offered /\ peer'.needed = peer.needed
          /\ peer'.terms = peer.terms /\ peer'.found = peer.found
          /\ peer'.held \cup peer'.got = peer.held \cup peer.got \cup {m.candidate}
      BY <1>3, <1>5, <2>1, <2>4, DownFacts DEF serverGotICE, ServerEnd
    <3>2. DownOk(peer', jsEnd, fromServer, fromPage', owed)
      BY <1>1, <1>5, <3>1, DownFacts, DownTakesIce
    <3>3. QED
      BY <2>2, <3>1, <3>2, DownFacts
  <2>5. QED
    BY <2>3, <2>4
<1>6. CASE m.type = "renegotiate"
  <2>1. serverGotRenegotiate
    BY <1>6 DEF ServerReceives
  <2>2. DownOk(peer, jsEnd, fromServer, fromPage', owed)
    BY <1>1, <1>6, DownFacts, DownIgnores
  <2>3. CASE peer.open
    <3>1. negotiate(peer, TRUE, fromServer)
      BY <2>1, <2>3, DownFacts DEF serverGotRenegotiate
    <3>2. QED
      BY <2>2, <2>3, <3>1, DownFacts, DownAsks
  <2>4. CASE ~peer.open
    <3>1. peer' = peer /\ fromServer' = fromServer /\ owed' = owed
      BY <2>1, <2>4 DEF serverGotRenegotiate
    <3>2. QED
      BY <2>2, <3>1, DownFacts
  <2>5. QED
    BY <2>3, <2>4
<1>7. CASE m.type = "abort"
  <2>1. serverGotAbort
    BY <1>7 DEF ServerReceives
  <2>2. DownOk(peer, jsEnd, fromServer, fromPage', owed)
    BY <1>1, <1>7, DownFacts, DownIgnores
  <2>3. /\ peer' \in ServerEnd /\ ~peer'.open /\ peer'.offered = peer.offered
        /\ peer'.needed = peer.needed /\ peer'.terms = peer.terms
        /\ peer'.found = peer.found /\ owed' = owed
        /\ Adds(fromServer', fromServer, [type |-> "close"])
    BY <2>1, DownFacts DEF serverGotAbort, ServerEnd, Message, Adds
  <2>4. DownOk(peer', jsEnd, fromServer', fromPage', owed)
    BY <2>2, <2>3, DownFacts, DownShuts
  <2>5. QED
    BY <2>3, <2>4, DownFacts
<1>8. QED
  BY <1>3, <1>4, <1>5, <1>6, <1>7

LEMMA PageReceivesOk == Down /\ PageReceives => Down'
<1> SUFFICES ASSUME Down, PageReceives PROVE Down'
  OBVIOUS
<1> DEFINE m == Head(fromServer)
<1>1. /\ fromServer # <<>> /\ Takes(fromServer', fromServer)
      /\ UNCHANGED <<direction, peer, owed>>
  BY DEF PageReceives, Takes
<1>2. m \in Forth
  BY <1>1, DownFacts, HeadTailProperties
<1>3. m.type \in {"offer", "ice", "close"}
        /\ (m.type = "ice" => m.candidate \in Candidates)
  BY <1>2, ForthIs
<1> SUFFICES /\ jsEnd' \in PageEnd
             /\ DownOk(peer, jsEnd', fromServer', fromPage, owed)
             /\ fromPage' = fromPage
  BY <1>1, DownFacts DEF Down, DownNow, Ends
<1>4. CASE m.type = "offer"
  <2>1. jsEnd' = Answering(jsEnd, m.terms) /\ fromPage' = fromPage
    BY <1>4 DEF PageReceives, gotOffer, Answering
  <2>2. QED
    BY <1>1, <1>4, <2>1, DownFacts, DownOffered
<1>5. CASE m.type = "ice"
  <2>1. gotRemoteIce(m.candidate)
    BY <1>5 DEF PageReceives
  <2>2. /\ jsEnd' \in PageEnd /\ jsEnd'.open = jsEnd.open
        /\ jsEnd'.await = jsEnd.await /\ jsEnd'.terms = jsEnd.terms
        /\ jsEnd'.proposed = jsEnd.proposed /\ jsEnd'.found = jsEnd.found
        /\ jsEnd'.localIceCandidates = jsEnd.localIceCandidates
        /\ ~jsEnd.open => jsEnd' = jsEnd
        /\ jsEnd.open => jsEnd'.remoteIceCandidates \cup jsEnd'.got
               = jsEnd.remoteIceCandidates \cup jsEnd.got \cup {m.candidate}
        /\ fromPage' = fromPage
    BY <1>3, <1>5, <2>1, DownFacts DEF gotRemoteIce, PageEnd
  <2>3. QED
    BY <1>1, <1>5, <2>2, DownFacts, DownHears
<1>6. CASE m.type = "close"
  <2>1. /\ jsEnd' = [jsEnd EXCEPT !.open = FALSE, !.await = "none"]
        /\ fromPage' = fromPage
    BY <1>6, DownFacts DEF PageReceives, gotClose, closeLocal
  <2>2. jsEnd' \in PageEnd
    BY <2>1, DownFacts DEF PageEnd
  <2>3. QED
    BY <1>1, <1>6, <2>1, <2>2, DownFacts, DownClosed
<1>7. QED
  BY <1>3, <1>4, <1>5, <1>6

LEMMA PageMovesOk ==
  ASSUME Down, flushRemoteIceCandidates \/ Created \/ Described
  PROVE  Down'
<1>1. jsEnd.open /\ jsEnd.await # "none"
  BY DownFacts DEF flushRemoteIceCandidates, Created, Described
<1>2. /\ jsEnd' \in PageEnd /\ jsEnd'.open = jsEnd.open
      /\ jsEnd'.terms = jsEnd.terms /\ jsEnd'.proposed = jsEnd.proposed
      /\ jsEnd'.await # "none"
      /\ jsEnd'.remoteIceCandidates \cup jsEnd'.got
           = jsEnd.remoteIceCandidates \cup jsEnd.got
      /\ jsEnd'.found = jsEnd.found
      /\ jsEnd'.localIceCandidates = jsEnd.localIceCandidates
  <2>1. CASE flushRemoteIceCandidates
    BY <2>1, DownFacts DEF flushRemoteIceCandidates, PageEnd
  <2>2. CASE Created
    BY <2>2, DownFacts DEF Created, PageEnd
  <2>3. CASE Described
    BY <2>3, DownFacts DEF Described, PageEnd
  <2>4. QED
    BY <2>1, <2>2, <2>3
<1>3. jsEnd'.found = jsEnd.found \cup {}
        /\ jsEnd'.localIceCandidates = jsEnd.localIceCandidates \cup {}
  BY <1>2
<1>4. DownOk(peer, jsEnd', fromServer, fromPage, owed)
  BY <1>1, <1>2, <1>3, DownFacts, DownMoves
<1>5. UNCHANGED <<direction, peer, fromServer, fromPage, owed>>
  BY DEF flushRemoteIceCandidates, Created, Described
<1>6. QED
  BY <1>2, <1>4, <1>5, DownFacts DEF Down, DownNow, Ends

LEMMA SendOk ==
  NegotiationAssumption /\ Down /\ SendDescription => Down'
<1> SUFFICES ASSUME NegotiationAssumption, Down, SendDescription PROVE Down'
  OBVIOUS
<1> DEFINE m == [type |-> "answer", terms |-> jsEnd.proposed]
           u == Append(fromPage, m)
<1>0. jsEnd.proposed \in Pair
  BY DownFacts DEF PageEnd
<1>1. m \in Back /\ m.type = "answer"
  BY <1>0 DEF Back
<1>2. PICK s \in Sends(jsEnd.localIceCandidates) : fromPage' = u \o s
  BY DownFacts DEF SendDescription
<1>3. /\ jsEnd' \in PageEnd /\ jsEnd'.open = jsEnd.open
      /\ jsEnd'.terms = jsEnd.proposed /\ jsEnd'.proposed = jsEnd.proposed
      /\ jsEnd'.await = "none" /\ jsEnd'.localIceCandidates = {}
      /\ jsEnd'.found = jsEnd.found
      /\ jsEnd'.remoteIceCandidates = jsEnd.remoteIceCandidates
      /\ jsEnd'.got = jsEnd.got
  BY <1>0, DownFacts DEF SendDescription, PageEnd
<1>4. Adds(u, fromPage, m) /\ Joins(fromPage', u, s)
  BY <1>2 DEF Adds, Joins
<1>5. jsEnd.await # "none" /\ UNCHANGED <<direction, peer, fromServer, owed>>
  BY DEF SendDescription
<1> HIDE DEF m, u
<1>6. DownOk(peer, jsEnd', fromServer, fromPage', owed)
  BY <1>1, <1>2, <1>3, <1>4, <1>5, DownFacts, DownAnswers
<1>7. QED
  BY <1>3, <1>5, <1>6, DownFacts DEF Down, DownNow, Ends

LEMMA PageCandidateOk ==
  ASSUME Down, NEW k \in Candidates, PageCandidate(k)
  PROVE  Down'
<1>1. gotLocalIce(k) /\ UNCHANGED <<direction, peer, fromServer, owed>>
  BY DEF PageCandidate
<1>2. CASE jsEnd.localDescriptionSent
  <2> DEFINE m == Ice(k)
  <2>1. m \in Back /\ m.type = "ice" /\ m.candidate = k
    BY DEF Ice, Back
  <2>2. Adds(fromPage', fromPage, m)
    BY <1>1, <1>2 DEF gotLocalIce, Adds
  <2>3. /\ jsEnd' \in PageEnd /\ jsEnd'.open = jsEnd.open
        /\ jsEnd'.terms = jsEnd.terms /\ jsEnd'.proposed = jsEnd.proposed
        /\ jsEnd'.await = jsEnd.await
        /\ jsEnd'.remoteIceCandidates = jsEnd.remoteIceCandidates
        /\ jsEnd'.got = jsEnd.got
        /\ jsEnd'.localIceCandidates = jsEnd.localIceCandidates
        /\ jsEnd'.found = jsEnd.found \cup {k}
    BY <1>1, <1>2, DownFacts DEF gotLocalIce, PageEnd
  <2> HIDE DEF m
  <2>4. DownOk(peer, jsEnd', fromServer, fromPage', owed)
    BY <2>1, <2>2, <2>3, DownFacts, DownSays
  <2>5. QED
    BY <1>1, <2>3, <2>4, DownFacts DEF Down, DownNow, Ends
<1>3. CASE ~jsEnd.localDescriptionSent
  <2>1. /\ jsEnd' \in PageEnd /\ jsEnd'.open = jsEnd.open
        /\ jsEnd'.terms = jsEnd.terms /\ jsEnd'.proposed = jsEnd.proposed
        /\ jsEnd'.await = jsEnd.await
        /\ jsEnd'.remoteIceCandidates = jsEnd.remoteIceCandidates
        /\ jsEnd'.got = jsEnd.got
        /\ jsEnd'.localIceCandidates = jsEnd.localIceCandidates \cup {k}
        /\ jsEnd'.found = jsEnd.found \cup {k}
        /\ fromPage' = fromPage
    <3>1. jsEnd' = [jsEnd EXCEPT !.found = @ \cup {k},
                                 !.localIceCandidates = @ \cup {k}]
      BY <1>1, <1>3 DEF gotLocalIce
    <3>2. fromPage' = fromPage
      BY <1>1, <1>3 DEF gotLocalIce
    <3>3. QED
      BY <3>1, <3>2, DownFacts DEF PageEnd
  <2>2. DownOk(peer, jsEnd', fromServer, fromPage, owed)
    BY <2>1, DownFacts, DownMoves
  <2>3. QED
    BY <1>1, <2>1, <2>2, DownFacts DEF Down, DownNow, Ends
<1>4. QED
  BY <1>2, <1>3

LEMMA PageSpeaksOk ==
  ASSUME Down, NegotiationFails \/ restartIce
  PROVE  Down'
<1>2. /\ jsEnd' \in PageEnd /\ jsEnd'.open = jsEnd.open
      /\ jsEnd'.terms = jsEnd.terms /\ jsEnd'.proposed = jsEnd.proposed
      /\ jsEnd'.await \in {jsEnd.await, "none"}
      /\ jsEnd'.remoteIceCandidates = jsEnd.remoteIceCandidates
      /\ jsEnd'.got = jsEnd.got
      /\ jsEnd'.localIceCandidates = jsEnd.localIceCandidates
      /\ jsEnd'.found = jsEnd.found
      /\ \E n \in {"abort", "renegotiate"} :
            Adds(fromPage', fromPage, [type |-> n])
      /\ UNCHANGED <<direction, peer, fromServer, owed>>
  <2>1. CASE NegotiationFails
    BY <2>1, DownFacts DEF NegotiationFails, PageEnd, Message, Adds
  <2>2. CASE restartIce
    BY <2>2, DownFacts DEF restartIce, PageEnd, Message, Adds
  <2>3. QED
    BY <2>1, <2>2
<1>3. PICK n \in {"abort", "renegotiate"} : Adds(fromPage', fromPage, [type |-> n])
  BY <1>2
<1> DEFINE x == [type |-> n]
<1>4. x \in Back /\ x.type # "answer" /\ x.type # "ice"
  BY DEF Back
<1>5. Adds(fromPage', fromPage, x)
  BY <1>3
<1> HIDE DEF x
<1>6. DownOk(peer, jsEnd', fromServer, fromPage', owed)
  BY <1>2, <1>4, <1>5, DownFacts, DownSays
<1>7. QED
  BY <1>2, <1>6, DownFacts DEF Down, DownNow, Ends

LEMMA DownKeeps ==
  NegotiationAssumption /\ Down /\ [Next]_negotiationVars => Down'
<1> SUFFICES ASSUME NegotiationAssumption, Down, [Next]_negotiationVars PROVE Down'
  OBVIOUS
<1>1. CASE UNCHANGED negotiationVars
  BY <1>1 DEF negotiationVars, Down, DownNow, Ends
<1>2. CASE Settling
  BY <1>2, ServerReceivesOk, PageReceivesOk, PageMovesOk, SendOk DEF Settling
<1>3. CASE pushDownConn \/ connectionFailed \/ ServerCloses
  BY <1>3, PushOk, FailedOk, ShutOk
<1>4. ASSUME NEW k \in Candidates, ServerCandidate(k) \/ PageCandidate(k)
      PROVE  Down'
  BY <1>4, FindOk, PageCandidateOk
<1>5. CASE NegotiationFails \/ restartIce
  BY <1>5, PageSpeaksOk
<1>6. CASE ChangeTracks \/ onnegotiationneeded \/ close
  BY <1>6, DownFacts DEF ChangeTracks, onnegotiationneeded, close
<1>7. QED
  BY <1>1, <1>2, <1>3, <1>4, <1>5, <1>6 DEF Next

-----------------------------------------------------------------------------
(* Up: the page offers.                                                    *)

LEMMA TakeForth ==
  ASSUME NEW fw \in Seq(Forth), NEW bk \in Seq(Back), NEW busy, NEW offered,
         Token(fw, busy, bk, offered), fw # <<>>, NEW v, Takes(v, fw)
  PROVE  /\ v \in Seq(Forth)
         /\ Token(v, busy, bk, offered)
         /\ Some(v, "close") => Some(fw, "close")
         /\ \A i \in Under(v, "offer") :
              /\ i \in Nat /\ i # 0 /\ i + 1 \in Under(fw, "offer")
              /\ v[i] = fw[i + 1]
         /\ Head(fw).type = "offer"
              => ~Some(v, "offer") /\ 1 \in Under(fw, "offer") /\ fw[1] = Head(fw)
         /\ Head(fw).type = "close" => Some(fw, "close")
         /\ fw[1] = Head(fw)
<1>1. v \in Seq(Forth)
  BY HeadTailProperties DEF Takes
<1>2. \A t : \A i : /\ i \in Under(v, t) <=> i \in Nat /\ i # 0 /\ i + 1 \in Under(fw, t)
                    /\ i \in Under(v, t) => v[i] = fw[i + 1]
  BY TailUnder
<1>3. 1 \in Under(fw, Head(fw).type) /\ fw[1] = Head(fw)
  BY HeadUnder
<1>4. Some(v, "close") => Some(fw, "close")
  BY <1>2 DEF Some
<1>5. Some(v, "offer") => Some(fw, "offer")
  BY <1>2 DEF Some
<1>6. Once(v, "offer")
  <2> SUFFICES ASSUME NEW i \in Under(v, "offer"), NEW j \in Under(v, "offer")
               PROVE  i = j
    BY DEF Once
  <2>1. /\ i \in Nat /\ j \in Nat
        /\ i + 1 \in Under(fw, "offer") /\ j + 1 \in Under(fw, "offer")
    BY <1>2
  <2>2. i + 1 = j + 1
    BY <2>1 DEF Token, Once
  <2>3. QED
    BY <2>1, <2>2
<1>7. ASSUME Head(fw).type = "offer", NEW i \in Under(v, "offer") PROVE FALSE
  <2>1. i \in Nat /\ i # 0 /\ i + 1 \in Under(fw, "offer")
    BY <1>2
  <2>2. i + 1 = 1
    BY <1>3, <1>7, <2>1 DEF Token, Once
  <2>3. QED
    BY <2>1, <2>2
<1>8. Token(v, busy, bk, offered)
  BY <1>5, <1>6 DEF Token
<1>9. QED
  BY <1>1, <1>2, <1>3, <1>4, <1>7, <1>8 DEF Some

LEMMA TakeBack ==
  ASSUME NEW fw \in Seq(Forth), NEW bk \in Seq(Back), NEW busy, NEW offered,
         Token(fw, busy, bk, offered), bk # <<>>, NEW v, Takes(v, bk)
  PROVE  /\ v \in Seq(Back)
         /\ Token(fw, busy, v, offered)
         /\ \A i \in Under(v, "answer") :
              /\ i \in Nat /\ i # 0 /\ i + 1 \in Under(bk, "answer")
              /\ v[i] = bk[i + 1]
         /\ Head(bk).type = "answer"
              => ~Some(v, "answer") /\ 1 \in Under(bk, "answer") /\ bk[1] = Head(bk)
<1>1. v \in Seq(Back)
  BY HeadTailProperties DEF Takes
<1>2. \A i : /\ i \in Under(v, "answer")
                  <=> i \in Nat /\ i # 0 /\ i + 1 \in Under(bk, "answer")
             /\ i \in Under(v, "answer") => v[i] = bk[i + 1]
  BY TailUnder
<1>3. 1 \in Under(bk, Head(bk).type) /\ bk[1] = Head(bk)
  BY HeadUnder
<1>4. Some(v, "answer") => Some(bk, "answer")
  BY <1>2 DEF Some
<1>5. Once(v, "answer")
  <2> SUFFICES ASSUME NEW i \in Under(v, "answer"), NEW j \in Under(v, "answer")
               PROVE  i = j
    BY DEF Once
  <2>1. /\ i \in Nat /\ j \in Nat
        /\ i + 1 \in Under(bk, "answer") /\ j + 1 \in Under(bk, "answer")
    BY <1>2
  <2>2. i + 1 = j + 1
    BY <2>1 DEF Token, Once
  <2>3. QED
    BY <2>1, <2>2
<1>6. ASSUME Head(bk).type = "answer", NEW i \in Under(v, "answer") PROVE FALSE
  <2>1. i \in Nat /\ i # 0 /\ i + 1 \in Under(bk, "answer")
    BY <1>2
  <2>2. i + 1 = 1
    BY <1>3, <1>6, <2>1 DEF Token, Once
  <2>3. QED
    BY <2>1, <2>2
<1>7. Token(fw, busy, v, offered)
  BY <1>4, <1>5 DEF Token
<1>8. QED
  BY <1>1, <1>2, <1>3, <1>6, <1>7 DEF Some

LEMMA UpFacts ==
  ASSUME NEW p, NEW e, NEW fw, NEW bk, UpOk(p, e, fw, bk)
  PROVE  /\ fw \in Seq(Forth) /\ bk \in Seq(Back)
         /\ Token(fw, e.await = "remote", bk, e.offered)
         /\ e.offered => e.await \in {"none", "remote"}
         /\ ~e.open => e.await = "none"
         /\ Some(fw, "close") => ~e.open
         /\ UpTerms(p, e, fw, bk) /\ UpFirst(p, e, fw)
         /\ e.open => ServersAre(p, e, bk) /\ PagesAre(p, e, fw)
BY DEF UpOk

(* A candidate of the page comes to the server.                            *)
LEMMA UpTakesIce ==
  ASSUME NEW p \in ServerEnd, NEW e \in PageEnd, NEW fw, NEW bk,
         UpOk(p, e, fw, bk), fw # <<>>, NEW v, Takes(v, fw),
         Head(fw).type = "ice", NEW q \in ServerEnd,
         q.open = p.open, q.terms = p.terms, q.found = p.found,
         p.open => q.held \cup q.got = p.held \cup p.got \cup {Head(fw).candidate}
  PROVE  UpOk(q, e, v, bk)
<1>1. /\ v \in Seq(Forth)
      /\ Token(v, e.await = "remote", bk, e.offered)
      /\ Some(v, "close") => Some(fw, "close")
      /\ \A i \in Under(v, "offer") :
           /\ i \in Nat /\ i # 0 /\ i + 1 \in Under(fw, "offer")
           /\ v[i] = fw[i + 1]
      /\ fw[1] = Head(fw)
  BY UpFacts, TakeForth
<1>2. e.open => p.open
  BY <1>1, UpFacts DEF UpFirst
<1>3. UpTerms(q, e, v, bk)
  <2>1. UpTerms(p, e, fw, bk)
    BY UpFacts
  <2>2. QED
    BY <1>1, <2>1 DEF UpTerms
<1>4. Sent(fw) = Sent(v) \cup {Head(fw).candidate}
  BY UpFacts, TailSent
<1>5. e.open => ServersAre(q, e, bk)
  BY UpFacts DEF ServersAre
<1>6. e.open => PagesAre(q, e, v)
  <2>1. e.open => e.found = e.localIceCandidates \cup Sent(fw) \cup p.held \cup p.got
    BY UpFacts DEF PagesAre
  <2>2. QED
    BY <2>1, <1>2, <1>4 DEF PagesAre
<1>7. QED
  BY <1>1, <1>2, <1>3, <1>5, <1>6, UpFacts DEF UpOk, UpFirst

(* The page's stream is closed, on both sides.                             *)
LEMMA UpTakesClose ==
  ASSUME NEW p \in ServerEnd, NEW e \in PageEnd, NEW fw, NEW bk,
         UpOk(p, e, fw, bk), fw # <<>>, NEW v, Takes(v, fw),
         Head(fw).type = "close", NEW q \in ServerEnd, q.terms = p.terms
  PROVE  UpOk(q, e, v, bk)
<1>1. /\ v \in Seq(Forth)
      /\ Token(v, e.await = "remote", bk, e.offered)
      /\ Some(fw, "close")
      /\ \A i \in Under(v, "offer") :
           /\ i \in Nat /\ i # 0 /\ i + 1 \in Under(fw, "offer")
           /\ v[i] = fw[i + 1]
  BY UpFacts, TakeForth
<1>2. ~e.open
  BY <1>1, UpFacts
<1>3. UpTerms(q, e, v, bk)
  BY <1>1, UpFacts DEF UpTerms
<1>4. QED
  BY <1>1, <1>2, <1>3, UpFacts DEF UpOk, UpFirst

(* The server answers an offer.                                            *)
LEMMA UpAnswers ==
  ASSUME NEW p \in ServerEnd, NEW e \in PageEnd, NEW fw, NEW bk,
         UpOk(p, e, fw, bk), fw # <<>>, NEW v, Takes(v, fw),
         Head(fw).type = "offer", NEW q \in ServerEnd,
         q.open, q.terms = Head(fw).terms, q.found = p.found,
         q.held \cup q.got = p.held \cup p.got,
         NEW m \in Back, m.type = "answer", m.terms = Head(fw).terms,
         NEW u, Adds(u, bk, m)
  PROVE  UpOk(q, e, v, u)
<1>1. /\ v \in Seq(Forth)
      /\ Token(v, e.await = "remote", bk, e.offered)
      /\ Some(v, "close") => Some(fw, "close")
      /\ ~Some(v, "offer") /\ 1 \in Under(fw, "offer") /\ fw[1] = Head(fw)
  BY UpFacts, TakeForth
<1>2. Token(fw, e.await = "remote", bk, e.offered) /\ Some(fw, "offer")
  BY <1>1, UpFacts DEF Some
<1>3. ~Some(bk, "answer") /\ e.await # "remote" /\ e.offered
  BY <1>2 DEF Token
<1>4. u \in Seq(Back) /\ Len(bk) \in Nat
  BY UpFacts, AppendProperties, LenProperties DEF Adds
<1>5. \A i : i \in Under(u, "answer") <=> i = Len(bk) + 1
  BY <1>3, UpFacts, AppendUnder DEF Some
<1>6. u[Len(bk) + 1] = m
  BY UpFacts, AppendUnder
<1>7. Token(v, e.await = "remote", u, e.offered)
  BY <1>1, <1>3, <1>5 DEF Token, Once, Some
<1>8. Head(fw).terms = e.proposed
  BY <1>1, UpFacts DEF UpTerms
<1>9. UpTerms(q, e, v, u)
  BY <1>1, <1>3, <1>5, <1>6, <1>8 DEF UpTerms, Some
<1>10. Sent(v) = Sent(fw)
  BY UpFacts, TailSent
<1>11. Sent(u) = Sent(bk)
  BY UpFacts, AppendSent
<1>12. e.open => ServersAre(q, e, u)
  BY <1>11, UpFacts DEF ServersAre
<1>13. e.open => PagesAre(q, e, v)
  BY <1>10, UpFacts DEF PagesAre
<1>14. UpFirst(q, e, v)
  BY DEF UpFirst
<1>15. QED
  BY <1>1, <1>4, <1>7, <1>9, <1>12, <1>13, <1>14, UpFacts DEF UpOk

(* The server sends a message that is not an answer.                       *)
LEMMA UpServerSays ==
  ASSUME NEW p \in ServerEnd, NEW e \in PageEnd, NEW fw, NEW bk,
         UpOk(p, e, fw, bk), NEW m \in Back, m.type # "answer",
         NEW u, Adds(u, bk, m), NEW q \in ServerEnd, q.open = p.open,
         q.terms = p.terms, q.held = p.held, q.got = p.got,
         q.found = IF m.type = "ice" THEN p.found \cup {m.candidate} ELSE p.found
  PROVE  UpOk(q, e, fw, u)
<1>1. u \in Seq(Back) /\ Len(bk) \in Nat
  BY UpFacts, AppendProperties, LenProperties DEF Adds
<1>2. \A i : /\ i \in Under(u, "answer") <=> i \in Under(bk, "answer")
             /\ i \in Under(bk, "answer") => u[i] = bk[i]
  BY UpFacts, AppendUnder
<1>3. Token(fw, e.await = "remote", u, e.offered)
  BY <1>2, UpFacts DEF Token, Once, Some
<1>4. UpTerms(q, e, fw, u)
  BY <1>2, UpFacts DEF UpTerms
<1>5. Sent(u) = IF m.type = "ice" THEN Sent(bk) \cup {m.candidate} ELSE Sent(bk)
  BY UpFacts, AppendSent
<1>6. e.open => ServersAre(q, e, u)
  <2>1. e.open => p.found = Sent(bk) \cup e.remoteIceCandidates \cup e.got
    BY UpFacts DEF ServersAre
  <2>2. CASE m.type = "ice"
    BY <2>1, <2>2, <1>5 DEF ServersAre
  <2>3. CASE m.type # "ice"
    BY <2>1, <2>3, <1>5 DEF ServersAre
  <2>4. QED
    BY <2>2, <2>3
<1>7. e.open => PagesAre(q, e, fw)
  BY UpFacts DEF PagesAre
<1>8. QED
  BY <1>1, <1>3, <1>4, <1>6, <1>7, UpFacts DEF UpOk, UpFirst

(* A message of the server's that changes nothing that matters here.       *)
LEMMA UpIgnores ==
  ASSUME NEW p \in ServerEnd, NEW e \in PageEnd, NEW fw, NEW bk,
         UpOk(p, e, fw, bk), bk # <<>>, NEW v, Takes(v, bk),
         Head(bk).type # "ice" \/ ~e.open, NEW c \in PageEnd,
         NEW t \in Pair, c = [e EXCEPT !.terms = t]
  PROVE  UpOk(p, c, fw, v)
<1>0. /\ c.open = e.open /\ c.await = e.await /\ c.offered = e.offered
      /\ c.proposed = e.proposed /\ c.found = e.found
      /\ c.localDescriptionSent = e.localDescriptionSent
      /\ c.localIceCandidates = e.localIceCandidates
      /\ c.remoteIceCandidates = e.remoteIceCandidates /\ c.got = e.got
  BY DEF PageEnd
<1>1. /\ v \in Seq(Back)
      /\ Token(fw, e.await = "remote", v, e.offered)
      /\ \A i \in Under(v, "answer") :
           /\ i \in Nat /\ i # 0 /\ i + 1 \in Under(bk, "answer")
           /\ v[i] = bk[i + 1]
  BY UpFacts, TakeBack
<1>2. UpTerms(p, c, fw, v)
  BY <1>0, <1>1, UpFacts DEF UpTerms
<1>3. e.open => Sent(v) = Sent(bk)
  BY UpFacts, TailSent
<1>4. c.open => ServersAre(p, c, v) /\ PagesAre(p, c, fw)
  BY <1>0, <1>3, UpFacts DEF ServersAre, PagesAre
<1>5. QED
  BY <1>0, <1>1, <1>2, <1>4, UpFacts DEF UpOk, UpFirst

LEMMA UpHears ==
  ASSUME NEW p \in ServerEnd, NEW e \in PageEnd, NEW fw, NEW bk,
         UpOk(p, e, fw, bk), bk # <<>>, NEW v, Takes(v, bk),
         Head(bk).type = "ice", NEW c \in PageEnd,
         c.open = e.open, c.await = e.await, c.offered = e.offered,
         c.proposed = e.proposed, c.found = e.found,
         c.localDescriptionSent = e.localDescriptionSent,
         c.localIceCandidates = e.localIceCandidates,
         c.remoteIceCandidates \cup c.got
           = e.remoteIceCandidates \cup e.got \cup {Head(bk).candidate}
  PROVE  UpOk(p, c, fw, v)
<1>1. /\ v \in Seq(Back)
      /\ Token(fw, e.await = "remote", v, e.offered)
      /\ \A i \in Under(v, "answer") :
           /\ i \in Nat /\ i # 0 /\ i + 1 \in Under(bk, "answer")
           /\ v[i] = bk[i + 1]
  BY UpFacts, TakeBack
<1>2. UpTerms(p, c, fw, v)
  BY <1>1, UpFacts DEF UpTerms
<1>3. Sent(bk) = Sent(v) \cup {Head(bk).candidate}
  BY UpFacts, TailSent
<1>4. c.open => ServersAre(p, c, v)
  <2>1. e.open => p.found = Sent(bk) \cup e.remoteIceCandidates \cup e.got
    BY UpFacts DEF ServersAre
  <2>2. QED
    BY <2>1, <1>3 DEF ServersAre
<1>5. c.open => PagesAre(p, c, fw)
  <2>1. e.open => e.found = e.localIceCandidates \cup Sent(fw) \cup p.held \cup p.got
    BY UpFacts DEF PagesAre
  <2>2. QED
    BY <2>1 DEF PagesAre
<1>6. QED
  BY <1>1, <1>2, <1>4, <1>5, UpFacts DEF UpOk, UpFirst

(* The answer comes.                                                       *)
LEMMA UpAnswered ==
  ASSUME NEW p \in ServerEnd, NEW e \in PageEnd, NEW fw, NEW bk,
         UpOk(p, e, fw, bk), bk # <<>>, NEW v, Takes(v, bk),
         Head(bk).type = "answer", e.open, NEW c,
         c = [e EXCEPT !.await = "remote", !.proposed = Head(bk).terms]
  PROVE  c \in PageEnd /\ UpOk(p, c, fw, v)
<1>1. /\ v \in Seq(Back)
      /\ Token(fw, e.await = "remote", v, e.offered)
      /\ ~Some(v, "answer") /\ 1 \in Under(bk, "answer") /\ bk[1] = Head(bk)
  BY UpFacts, TakeBack
<1>2. Head(bk).terms = e.proposed /\ p.terms = e.proposed
  BY <1>1, UpFacts DEF UpTerms
<1>3. /\ c \in PageEnd /\ c.open = e.open /\ c.await = "remote"
      /\ c.offered = e.offered
      /\ c.proposed = e.proposed /\ c.found = e.found
      /\ c.localDescriptionSent = e.localDescriptionSent
      /\ c.localIceCandidates = e.localIceCandidates
      /\ c.remoteIceCandidates = e.remoteIceCandidates /\ c.got = e.got
  BY <1>2 DEF PageEnd
<1>4. Token(fw, e.await = "remote", bk, e.offered) /\ Some(bk, "answer")
  BY <1>1, UpFacts DEF Some
<1>5. ~Some(fw, "offer") /\ e.offered
  BY <1>4 DEF Token
<1>6. Token(fw, c.await = "remote", v, c.offered)
  BY <1>1, <1>3, <1>5 DEF Token
<1>7. UpTerms(p, c, fw, v)
  BY <1>1, <1>2, <1>3, <1>5, UpFacts DEF UpTerms, Some
<1>8. Sent(v) = Sent(bk)
  BY UpFacts, TailSent
<1>9. ServersAre(p, c, v) /\ PagesAre(p, c, fw)
  BY <1>3, <1>8, UpFacts DEF ServersAre, PagesAre
<1>10. QED
  BY <1>1, <1>3, <1>6, <1>7, <1>9, UpFacts DEF UpOk, UpFirst

(* The page closes its stream, and says so or not.                         *)
LEMMA UpShuts ==
  ASSUME NEW p \in ServerEnd, NEW e \in PageEnd, NEW fw, NEW bk,
         UpOk(p, e, fw, bk), NEW v,
         v = fw \/ Adds(v, fw, [type |-> "close"]),
         NEW c \in PageEnd, c = [e EXCEPT !.open = FALSE, !.await = "none"]
  PROVE  UpOk(p, c, v, bk)
<1>0. /\ ~c.open /\ c.await = "none" /\ c.offered = e.offered
      /\ c.proposed = e.proposed
  BY DEF PageEnd
<1> DEFINE m == [type |-> "close"]
<1>1. m \in Forth /\ m.type = "close"
  BY DEF Forth
<1>2. CASE v = fw
  <2>1. Token(v, c.await = "remote", bk, c.offered)
    BY <1>0, <1>2, UpFacts DEF Token
  <2>2. UpTerms(p, c, v, bk)
    BY <1>0, <1>2, UpFacts DEF UpTerms
  <2>3. QED
    BY <1>0, <1>2, <2>1, <2>2, UpFacts DEF UpOk, UpFirst
<1>3. CASE Adds(v, fw, m)
  <2> HIDE DEF m
  <2>1. v \in Seq(Forth)
    BY <1>1, <1>3, UpFacts, AppendProperties DEF Adds
  <2>2. \A i : /\ i \in Under(v, "offer") <=> i \in Under(fw, "offer")
               /\ i \in Under(fw, "offer") => v[i] = fw[i]
    BY <1>1, <1>3, UpFacts, AppendUnder
  <2>3. Token(v, c.await = "remote", bk, c.offered)
    BY <1>0, <2>2, UpFacts DEF Token, Once, Some
  <2>4. UpTerms(p, c, v, bk)
    BY <1>0, <2>2, UpFacts DEF UpTerms
  <2>5. QED
    BY <1>0, <2>1, <2>3, <2>4, UpFacts DEF UpOk, UpFirst
<1>4. QED
  BY <1>2, <1>3

(* The page sends a candidate.                                             *)
LEMMA UpPageSays ==
  ASSUME NEW p \in ServerEnd, NEW e \in PageEnd, NEW fw, NEW bk,
         UpOk(p, e, fw, bk), e.localDescriptionSent, NEW m \in Forth,
         m.type = "ice", NEW v, Adds(v, fw, m), NEW c \in PageEnd,
         c = [e EXCEPT !.found = @ \cup {m.candidate}]
  PROVE  UpOk(p, c, v, bk)
<1>0. /\ c.open = e.open /\ c.await = e.await /\ c.offered = e.offered
      /\ c.proposed = e.proposed /\ c.found = e.found \cup {m.candidate}
      /\ c.localDescriptionSent = e.localDescriptionSent
      /\ c.localIceCandidates = e.localIceCandidates
      /\ c.remoteIceCandidates = e.remoteIceCandidates /\ c.got = e.got
  BY DEF PageEnd
<1>1. /\ v \in Seq(Forth) /\ Len(fw) \in Nat /\ v # <<>>
      /\ \A i \in 1..Len(fw) : v[i] = fw[i]
  BY UpFacts, AppendProperties, LenProperties DEF Adds
<1>2. \A i : /\ i \in Under(v, "offer") <=> i \in Under(fw, "offer")
             /\ i \in Under(fw, "offer") => v[i] = fw[i]
             /\ i \in Under(v, "close") <=> i \in Under(fw, "close")
  BY UpFacts, AppendUnder
<1>3. Token(v, c.await = "remote", bk, c.offered)
  BY <1>0, <1>2, UpFacts DEF Token, Once, Some
<1>4. UpTerms(p, c, v, bk)
  BY <1>0, <1>2, UpFacts DEF UpTerms
<1>5. UpFirst(p, c, v)
  <2>1. fw # <<>> => v[1] = fw[1]
    <3>1. fw # <<>> => Len(fw) # 0
      BY UpFacts, EmptySeq
    <3>2. QED
      BY <3>1, <1>1
  <2>2. QED
    BY <2>1, <1>0, <1>1, UpFacts DEF UpFirst
<1>6. Sent(v) = Sent(fw) \cup {m.candidate}
  BY UpFacts, AppendSent
<1>7. c.open => ServersAre(p, c, bk) /\ PagesAre(p, c, v)
  BY <1>0, <1>6, UpFacts DEF ServersAre, PagesAre
<1>8. Some(v, "close") => ~c.open
  BY <1>0, <1>2, UpFacts DEF Some
<1>9. QED
  BY <1>0, <1>1, <1>3, <1>4, <1>5, <1>7, <1>8, UpFacts DEF UpOk

(* The page offers, and sends the candidates it has held back.             *)
LEMMA UpOffers ==
  ASSUME NegotiationAssumption, NEW p \in ServerEnd, NEW e \in PageEnd, NEW fw, NEW bk,
         UpOk(p, e, fw, bk), e.await = "local", NEW c \in PageEnd,
         NEW m \in Forth, m.type = "offer", m.terms = e.proposed,
         NEW u, Adds(u, fw, m), NEW s \in Sends(e.localIceCandidates),
         NEW v, Joins(v, u, s),
         c.open = e.open, c.proposed = e.proposed, c.offered,
         c.await = "none", c.localIceCandidates = {}, c.found = e.found,
         c.localDescriptionSent,
         c.remoteIceCandidates = e.remoteIceCandidates, c.got = e.got
  PROVE  UpOk(p, c, v, bk)
<1>1. Token(fw, e.await = "remote", bk, e.offered) /\ ~e.offered /\ e.open
  BY UpFacts
<1>2. ~Some(fw, "offer") /\ ~Some(bk, "answer")
  BY <1>1 DEF Token
<1>3. /\ u \in Seq(Forth) /\ Len(fw) \in Nat /\ Len(u) = Len(fw) + 1
      /\ u[Len(fw) + 1] = m /\ \A i \in 1..Len(fw) : u[i] = fw[i]
  BY UpFacts, AppendProperties, LenProperties DEF Adds
<1>4. \A i : /\ i \in Under(u, "offer") <=> i = Len(fw) + 1
             /\ i \in Under(u, "close") <=> i \in Under(fw, "close")
  BY <1>2, UpFacts, AppendUnder DEF Some
<1>5. Sent(u) = Sent(fw)
  BY UpFacts, AppendSent
<1>6. Ices \subseteq Forth /\ e.localIceCandidates \in SUBSET Candidates
  BY DEF Ices, Forth, PageEnd
<1>7. /\ s \in Seq(Forth) /\ \A i \in 1..Len(s) : s[i].type = "ice"
      /\ Sent(s) = e.localIceCandidates
  <2>1. /\ s \in Seq(Ices) /\ \A i \in 1..Len(s) : s[i].type = "ice"
        /\ Sent(s) = e.localIceCandidates
    BY <1>6, FlushedAre
  <2>2. QED
    BY <2>1, <1>6, SeqMonotonic
<1>8. \A i : /\ i \in Under(v, "offer") <=> i \in Under(u, "offer")
             /\ i \in Under(v, "close") <=> i \in Under(u, "close")
  BY <1>3, <1>7, ConcatUnder
<1>9. /\ v \in Seq(Forth) /\ Len(v) = Len(u) + Len(s) /\ Len(s) \in Nat
      /\ \A i \in 1..Len(u) + Len(s) :
           v[i] = IF i <= Len(u) THEN u[i] ELSE s[i - Len(u)]
  <2>1. Len(s) \in Nat
    BY <1>7, LenProperties
  <2>2. u \in Seq(Forth) /\ s \in Seq(Forth)
    BY <1>3, <1>7
  <2>3. /\ u \o s \in Seq(Forth) /\ Len(u \o s) = Len(u) + Len(s)
        /\ \A i \in 1..Len(u) + Len(s) :
             (u \o s)[i] = IF i <= Len(u) THEN u[i] ELSE s[i - Len(u)]
    BY <2>2, ConcatProperties
  <2>4. QED
    BY <2>1, <2>3 DEF Joins
<1>10. v[Len(fw) + 1] = m
  BY <1>3, <1>9
<1>11. Sent(v) = Sent(fw) \cup e.localIceCandidates
  BY <1>3, <1>5, <1>7, ConcatSent
<1>12. Token(v, c.await = "remote", bk, c.offered)
  BY <1>2, <1>4, <1>8 DEF Token, Once, Some
<1>13. UpTerms(p, c, v, bk)
  BY <1>2, <1>4, <1>8, <1>10 DEF UpTerms, Some
<1>14. ~Some(v, "close")
  BY <1>1, <1>4, <1>8, UpFacts DEF Some
<1>15. UpFirst(p, c, v)
  <2>1. CASE p.open
    BY <2>1 DEF UpFirst
  <2>2. CASE ~p.open
    <3>1. e.localDescriptionSent => FALSE
      <4>1. ASSUME e.localDescriptionSent PROVE FALSE
        <5>1. fw # <<>> /\ fw[1].type = "offer"
          BY <4>1, <1>1, <2>2, UpFacts DEF UpFirst
        <5>2. 1 \in Under(fw, "offer")
          BY <5>1, UpFacts, HeadUnder
        <5>3. QED
          BY <5>2, <1>2 DEF Some
      <4>2. QED
        BY <4>1
    <3>2. fw = <<>>
      BY <3>1, <1>1, <2>2, UpFacts DEF UpFirst
    <3>3. Len(fw) = 0
      BY <3>2
    <3>4. v[1] = m /\ Len(v) # 0
      BY <3>3, <1>3, <1>9, <1>10
    <3>5. v # <<>>
      BY <3>4
    <3>6. QED
      BY <3>4, <3>5 DEF UpFirst
  <2>3. QED
    BY <2>1, <2>2
<1>16. ServersAre(p, c, bk) /\ PagesAre(p, c, v)
  BY <1>1, <1>11, UpFacts DEF ServersAre, PagesAre
<1>17. QED
  BY <1>1, <1>9, <1>12, <1>13, <1>14, <1>15, <1>16, UpFacts DEF UpOk

(* The page goes on with what it awaits, or holds a candidate back.        *)
LEMMA UpMoves ==
  ASSUME NEW p \in ServerEnd, NEW e \in PageEnd, NEW fw, NEW bk,
         UpOk(p, e, fw, bk), NEW c \in PageEnd, c.open = e.open,
         c.localDescriptionSent = e.localDescriptionSent,
         Token(fw, c.await = "remote", bk, c.offered),
         c.offered => c.await \in {"none", "remote"},
         ~c.open => c.await = "none",
         UpTerms(p, c, fw, bk),
         c.remoteIceCandidates \cup c.got = e.remoteIceCandidates \cup e.got,
         NEW new, c.found = e.found \cup new,
         c.localIceCandidates = e.localIceCandidates \cup new
  PROVE  UpOk(p, c, fw, bk)
<1>1. e.open => ServersAre(p, e, bk) /\ PagesAre(p, e, fw)
  BY UpFacts
<1>2. c.open => ServersAre(p, c, bk)
  BY <1>1 DEF ServersAre
<1>3. c.open => PagesAre(p, c, fw)
  BY <1>1 DEF PagesAre
<1>4. QED
  BY <1>2, <1>3, UpFacts DEF UpOk, UpFirst

-----------------------------------------------------------------------------
Up == Ends /\ direction = "up" /\ UpOk(peer, jsEnd, fromPage, fromServer)

LEMMA UpIs ==
  ASSUME Up
  PROVE  /\ Ends /\ peer \in ServerEnd /\ jsEnd \in PageEnd /\ owed \in BOOLEAN
         /\ direction = "up" /\ UpOk(peer, jsEnd, fromPage, fromServer)
         /\ fromServer \in Seq(Back) /\ fromPage \in Seq(Forth)
         /\ ~jsEnd.open => jsEnd.await = "none"
BY DEF Up, Ends, UpOk

LEMMA UpServerSpeaks ==
  ASSUME Up, connectionFailed \/ ServerCloses
  PROVE  Up'
<1>1. /\ peer' = peer /\ UNCHANGED <<direction, jsEnd, fromPage, owed>>
      /\ \E n \in {"renegotiate", "abort"} :
           Adds(fromServer', fromServer, [type |-> n])
  <2>1. CASE connectionFailed
    BY <2>1, UpIs DEF connectionFailed, Message, Adds
  <2>2. CASE ServerCloses
    BY <2>2, UpIs DEF ServerCloses, Message, Adds, ServerEnd
  <2>3. QED
    BY <2>1, <2>2
<1>2. PICK n \in {"renegotiate", "abort"} :
        Adds(fromServer', fromServer, [type |-> n])
  BY <1>1
<1> DEFINE x == [type |-> n]
<1>3. x \in Back /\ x.type # "answer" /\ x.type # "ice"
  BY DEF Back
<1>4. Adds(fromServer', fromServer, x)
  BY <1>2
<1> HIDE DEF x
<1>5. UpOk(peer, jsEnd, fromPage, fromServer')
  BY <1>3, <1>4, UpIs, UpServerSays
<1>6. QED
  BY <1>1, <1>5, UpIs DEF Up, Ends

LEMMA UpServerFinds ==
  ASSUME Up, NEW k \in Candidates, ServerCandidate(k)
  PROVE  Up'
<1> DEFINE m == Ice(k)
<1>1. m \in Back /\ m.type = "ice" /\ m.candidate = k
  BY DEF Ice, Back
<1>2. /\ peer' \in ServerEnd /\ peer'.open = peer.open
      /\ peer'.terms = peer.terms /\ peer'.held = peer.held
      /\ peer'.got = peer.got /\ peer'.found = peer.found \cup {k}
  BY UpIs DEF ServerCandidate, ServerEnd
<1>3. Adds(fromServer', fromServer, m)
  BY DEF ServerCandidate, Adds
<1> HIDE DEF m
<1>4. UpOk(peer', jsEnd, fromPage, fromServer')
  BY <1>1, <1>2, <1>3, UpIs, UpServerSays
<1>5. QED
  BY <1>2, <1>4, UpIs DEF Up, Ends, ServerCandidate

LEMMA UpServerReceives == Up /\ ServerReceives => Up'
<1> SUFFICES ASSUME Up, ServerReceives PROVE Up'
  OBVIOUS
<1> DEFINE m == Head(fromPage)
<1>1. /\ fromPage # <<>> /\ Takes(fromPage', fromPage)
      /\ UNCHANGED <<direction, jsEnd>>
  BY DEF ServerReceives, Takes
<1>2. m \in Forth
  BY <1>1, UpIs, HeadTailProperties
<1>3. /\ m.type \in {"offer", "ice", "close"}
      /\ m.type = "ice" => m.candidate \in Candidates
      /\ m.type = "offer" => m.terms \in Pair
  BY <1>2, ForthIs
<1> SUFFICES /\ peer' \in ServerEnd /\ owed' = owed
             /\ UpOk(peer', jsEnd, fromPage', fromServer')
  BY <1>1, UpIs DEF Up, Ends
<1>4. CASE m.type = "offer"
  <2> DEFINE x == [type |-> "answer", terms |-> m.terms]
  <2>1. x \in Back /\ x.type = "answer" /\ x.terms = m.terms
    BY <1>3, <1>4 DEF Back
  <2>2. serverGotOffer(m)
    BY <1>4 DEF ServerReceives
  <2>3. Adds(fromServer', fromServer, x) /\ owed' = owed
    BY <2>2 DEF serverGotOffer, Adds
  <2>4. /\ peer' \in ServerEnd /\ peer'.open /\ peer'.terms = m.terms
        /\ peer'.found = peer.found
        /\ peer'.held \cup peer'.got = peer.held \cup peer.got
    BY <1>3, <1>4, <2>2, UpIs DEF serverGotOffer, ServerEnd
  <2> HIDE DEF x
  <2>5. UpOk(peer', jsEnd, fromPage', fromServer')
    BY <1>1, <1>4, <2>1, <2>3, <2>4, UpIs, UpAnswers
  <2>6. QED
    BY <2>3, <2>4, <2>5
<1>5. CASE m.type = "ice"
  <2>1. serverGotICE(m.candidate)
    BY <1>5 DEF ServerReceives
  <2>2. fromServer' = fromServer /\ owed' = owed
    BY <2>1 DEF serverGotICE
  <2>3. /\ peer' \in ServerEnd /\ peer'.open = peer.open
        /\ peer'.terms = peer.terms /\ peer'.found = peer.found
        /\ peer.open => peer'.held \cup peer'.got
                          = peer.held \cup peer.got \cup {m.candidate}
    BY <1>3, <1>5, <2>1, UpIs DEF serverGotICE, ServerEnd
  <2>4. UpOk(peer', jsEnd, fromPage', fromServer)
    BY <1>1, <1>5, <2>3, UpIs, UpTakesIce
  <2>5. QED
    BY <2>2, <2>3, <2>4
<1>6. CASE m.type = "close"
  <2>1. serverGotClose
    BY <1>6 DEF ServerReceives
  <2>2. /\ peer' \in ServerEnd /\ peer'.terms = peer.terms
        /\ fromServer' = fromServer /\ owed' = owed
    BY <2>1, UpIs DEF serverGotClose, ServerEnd
  <2>3. UpOk(peer', jsEnd, fromPage', fromServer)
    BY <1>1, <1>6, <2>2, UpIs, UpTakesClose
  <2>4. QED
    BY <2>2, <2>3
<1>7. QED
  BY <1>3, <1>4, <1>5, <1>6

LEMMA UpSame ==
  ASSUME NEW e \in PageEnd
  PROVE  e.terms \in Pair /\ e = [e EXCEPT !.terms = e.terms]
BY DEF PageEnd

LEMMA UpPageReceives == Up /\ PageReceives => Up'
<1> SUFFICES ASSUME Up, PageReceives PROVE Up'
  OBVIOUS
<1> DEFINE m == Head(fromServer)
<1>1. /\ fromServer # <<>> /\ Takes(fromServer', fromServer)
      /\ UNCHANGED <<direction, peer, owed>>
  BY DEF PageReceives, Takes
<1>2. m \in Back
  BY <1>1, UpIs, HeadTailProperties
<1>3. /\ m.type \in {"answer", "ice", "renegotiate", "abort"}
      /\ m.type = "ice" => m.candidate \in Candidates
  BY <1>2, BackIs
<1> SUFFICES jsEnd' \in PageEnd /\ UpOk(peer, jsEnd', fromPage', fromServer')
  BY <1>1, UpIs DEF Up, Ends
<1>0. ASSUME m.type # "ice" \/ ~jsEnd.open
      PROVE  UpOk(peer, jsEnd, fromPage, fromServer')
  BY <1>0, <1>1, UpIs, UpSame, UpIgnores
<1>4. CASE m.type = "answer"
  <2>1. gotAnswer(m)
    BY <1>4 DEF PageReceives
  <2>2. CASE jsEnd.open
    <3>1. /\ jsEnd' = [jsEnd EXCEPT !.await = "remote", !.proposed = m.terms]
          /\ fromPage' = fromPage
      BY <2>1, <2>2 DEF gotAnswer
    <3>2. QED
      BY <1>1, <1>4, <2>2, <3>1, UpIs, UpAnswered
  <2>3. CASE ~jsEnd.open
    BY <1>0, <2>1, <2>3, UpIs DEF gotAnswer
  <2>4. QED
    BY <2>2, <2>3
<1>5. CASE m.type = "ice"
  <2>1. gotRemoteIce(m.candidate)
    BY <1>5 DEF PageReceives
  <2>2. CASE jsEnd.open
    <3>1. /\ jsEnd' \in PageEnd /\ jsEnd'.open = jsEnd.open
          /\ jsEnd'.await = jsEnd.await /\ jsEnd'.offered = jsEnd.offered
          /\ jsEnd'.proposed = jsEnd.proposed /\ jsEnd'.found = jsEnd.found
          /\ jsEnd'.localDescriptionSent = jsEnd.localDescriptionSent
          /\ jsEnd'.localIceCandidates = jsEnd.localIceCandidates
          /\ jsEnd'.remoteIceCandidates \cup jsEnd'.got
               = jsEnd.remoteIceCandidates \cup jsEnd.got \cup {m.candidate}
          /\ fromPage' = fromPage
      BY <1>3, <1>5, <2>1, <2>2, UpIs DEF gotRemoteIce, PageEnd
    <3>2. QED
      BY <1>1, <1>5, <2>2, <3>1, UpIs, UpHears
  <2>3. CASE ~jsEnd.open
    BY <1>0, <2>1, <2>3, UpIs DEF gotRemoteIce
  <2>4. QED
    BY <2>2, <2>3
<1>6. CASE m.type = "renegotiate"
  <2>1. gotRenegotiate /\ fromPage' = fromPage
    BY <1>6 DEF PageReceives, gotRenegotiate
  <2>2. CASE jsEnd.open
    <3> DEFINE t == [jsEnd.terms EXCEPT !.ice = @ + 1]
    <3>1. t \in Pair
      BY UpIs DEF PageEnd, Pair
    <3>2. jsEnd' = [jsEnd EXCEPT !.terms = t]
      BY <2>1, <2>2, UpIs DEF gotRenegotiate, PageEnd
    <3> HIDE DEF t
    <3>3. jsEnd' \in PageEnd
      BY <3>1, <3>2, UpIs DEF PageEnd
    <3>4. UpOk(peer, jsEnd', fromPage, fromServer')
      BY <1>1, <1>6, <3>1, <3>2, <3>3, UpIs, UpIgnores
    <3>5. QED
      BY <2>1, <3>3, <3>4
  <2>3. CASE ~jsEnd.open
    BY <1>0, <2>1, <2>3, UpIs DEF gotRenegotiate
  <2>4. QED
    BY <2>2, <2>3
<1>7. CASE m.type = "abort"
  <2>1. gotAbort
    BY <1>7 DEF PageReceives
  <2>2. CASE jsEnd.open
    <3>1. jsEnd' = [jsEnd EXCEPT !.open = FALSE, !.await = "none"]
      BY <2>1, <2>2, UpIs DEF gotAbort, closeLocal
    <3>2. fromPage' = fromPage \/ Adds(fromPage', fromPage, [type |-> "close"])
      BY <2>1, <2>2, UpIs DEF gotAbort, Message, Adds
    <3>3. jsEnd' \in PageEnd
      BY <3>1, UpIs DEF PageEnd
    <3>4. UpOk(peer, jsEnd, fromPage, fromServer')
      BY <1>0, <1>7
    <3>5. QED
      BY <3>1, <3>2, <3>3, <3>4, UpIs, UpShuts
  <2>3. CASE ~jsEnd.open
    BY <1>0, <2>1, <2>3, UpIs DEF gotAbort
  <2>4. QED
    BY <2>2, <2>3
<1>8. QED
  BY <1>3, <1>4, <1>5, <1>6, <1>7

LEMMA UpPageMoves ==
  ASSUME Up, \/ flushRemoteIceCandidates \/ Created \/ Described
             \/ onnegotiationneeded
  PROVE  Up'
<1>1. /\ Token(fromPage, jsEnd.await = "remote", fromServer, jsEnd.offered)
      /\ jsEnd.offered => jsEnd.await \in {"none", "remote"}
      /\ UpTerms(peer, jsEnd, fromPage, fromServer)
  BY UpIs, UpFacts
<1>2. UNCHANGED <<direction, peer, fromServer, fromPage, owed>>
  BY DEF flushRemoteIceCandidates, Created, Described, onnegotiationneeded
<1>3. jsEnd.open
  BY UpIs DEF flushRemoteIceCandidates, Created, Described, onnegotiationneeded
<1>4. /\ jsEnd' \in PageEnd /\ jsEnd'.open = jsEnd.open
      /\ jsEnd'.localDescriptionSent = jsEnd.localDescriptionSent
      /\ jsEnd'.remoteIceCandidates \cup jsEnd'.got
           = jsEnd.remoteIceCandidates \cup jsEnd.got
      /\ jsEnd'.found = jsEnd.found \cup {}
      /\ jsEnd'.localIceCandidates = jsEnd.localIceCandidates \cup {}
  <2>1. CASE flushRemoteIceCandidates
    BY <2>1, UpIs DEF flushRemoteIceCandidates, PageEnd
  <2>2. CASE Created
    BY <2>2, UpIs DEF Created, PageEnd
  <2>3. CASE Described
    BY <2>3, UpIs DEF Described, PageEnd
  <2>4. CASE onnegotiationneeded
    BY <2>4, UpIs DEF onnegotiationneeded, PageEnd
  <2>5. QED
    BY <2>1, <2>2, <2>3, <2>4
<1>5. /\ Token(fromPage, jsEnd'.await = "remote", fromServer, jsEnd'.offered)
      /\ jsEnd'.offered => jsEnd'.await \in {"none", "remote"}
      /\ UpTerms(peer, jsEnd', fromPage, fromServer)
  <2>1. CASE flushRemoteIceCandidates
    <3>1. /\ jsEnd.await = "remote" /\ jsEnd'.await = "none"
          /\ ~jsEnd'.offered /\ jsEnd'.proposed = jsEnd.proposed
      BY <2>1, UpIs DEF flushRemoteIceCandidates, PageEnd
    <3>2. ~Some(fromPage, "offer") /\ ~Some(fromServer, "answer")
      BY <1>1, <3>1 DEF Token
    <3>3. Token(fromPage, jsEnd'.await = "remote", fromServer, jsEnd'.offered)
      BY <1>1, <3>1, <3>2 DEF Token
    <3>4. UpTerms(peer, jsEnd', fromPage, fromServer)
      BY <1>1, <3>1 DEF UpTerms
    <3>5. QED
      BY <3>1, <3>3, <3>4
  <2>2. CASE Created
    <3>1. /\ jsEnd.await = "create" /\ jsEnd'.await = "local"
          /\ jsEnd'.offered = jsEnd.offered /\ ~jsEnd.offered
      BY <1>1, <2>2, UpIs DEF Created, PageEnd
    <3>2. ~Some(fromPage, "offer") /\ ~Some(fromServer, "answer")
      BY <1>1, <3>1 DEF Token
    <3>3. Token(fromPage, jsEnd'.await = "remote", fromServer, jsEnd'.offered)
      BY <1>1, <3>1, <3>2 DEF Token
    <3>4. UpTerms(peer, jsEnd', fromPage, fromServer)
      BY <3>1, <3>2 DEF UpTerms, Some
    <3>5. QED
      BY <3>1, <3>3, <3>4
  <2>3. CASE Described
    <3>1. /\ jsEnd'.await = jsEnd.await /\ jsEnd'.offered = jsEnd.offered
          /\ jsEnd'.proposed = jsEnd.proposed /\ jsEnd'.open = jsEnd.open
      BY <2>3, UpIs DEF Described, PageEnd
    <3>2. UpTerms(peer, jsEnd', fromPage, fromServer)
      BY <1>1, <3>1 DEF UpTerms
    <3>3. QED
      BY <1>1, <3>1, <3>2
  <2>4. CASE onnegotiationneeded
    <3>1. /\ jsEnd.await = "none" /\ jsEnd'.await = "create"
          /\ jsEnd'.offered = jsEnd.offered /\ ~jsEnd.offered
          /\ jsEnd'.proposed = jsEnd.proposed
      BY <2>4, UpIs DEF onnegotiationneeded, PageEnd
    <3>2. Token(fromPage, jsEnd'.await = "remote", fromServer, jsEnd'.offered)
      BY <1>1, <3>1 DEF Token
    <3>3. UpTerms(peer, jsEnd', fromPage, fromServer)
      BY <1>1, <1>3, <3>1 DEF UpTerms
    <3>4. QED
      BY <3>1, <3>2, <3>3
  <2>5. QED
    BY <2>1, <2>2, <2>3, <2>4
<1>6. UpOk(peer, jsEnd', fromPage, fromServer)
  BY <1>3, <1>4, <1>5, UpIs, UpMoves
<1>7. QED
  BY <1>2, <1>4, <1>6, UpIs DEF Up, Ends

LEMMA UpPageChanges ==
  ASSUME Up, ChangeTracks \/ restartIce
  PROVE  Up'
<1>1. UNCHANGED <<direction, peer, fromServer, fromPage, owed>>
  BY UpIs DEF ChangeTracks, restartIce
<1>2. /\ jsEnd' \in PageEnd /\ jsEnd'.open = jsEnd.open
      /\ jsEnd'.await = jsEnd.await /\ jsEnd'.offered = jsEnd.offered
      /\ jsEnd'.proposed = jsEnd.proposed
      /\ jsEnd'.localDescriptionSent = jsEnd.localDescriptionSent
      /\ jsEnd'.remoteIceCandidates \cup jsEnd'.got
           = jsEnd.remoteIceCandidates \cup jsEnd.got
      /\ jsEnd'.found = jsEnd.found \cup {}
      /\ jsEnd'.localIceCandidates = jsEnd.localIceCandidates \cup {}
  <2>1. PICK t \in Pair : jsEnd' = [jsEnd EXCEPT !.terms = t]
    <3> DEFINE t == [jsEnd.terms EXCEPT !.tracks = @ + 1]
               r == [jsEnd.terms EXCEPT !.ice = @ + 1]
    <3>1. t \in Pair /\ r \in Pair
      BY UpIs DEF PageEnd, Pair
    <3>2. CASE ChangeTracks
      <4>1. jsEnd' = [jsEnd EXCEPT !.terms = t]
        BY <3>2, UpIs DEF ChangeTracks, PageEnd
      <4>2. QED
        BY <3>1, <4>1
    <3>3. CASE restartIce
      <4>1. jsEnd' = [jsEnd EXCEPT !.terms = r]
        BY <3>3, UpIs DEF restartIce, PageEnd
      <4>2. QED
        BY <3>1, <4>1
    <3>4. QED
      BY <3>2, <3>3
  <2>2. QED
    BY <2>1, UpIs DEF PageEnd
<1>3. /\ Token(fromPage, jsEnd.await = "remote", fromServer, jsEnd.offered)
      /\ jsEnd.offered => jsEnd.await \in {"none", "remote"}
      /\ UpTerms(peer, jsEnd, fromPage, fromServer)
  BY UpIs, UpFacts
<1>4. UpTerms(peer, jsEnd', fromPage, fromServer)
  BY <1>2, <1>3 DEF UpTerms
<1>5. UpOk(peer, jsEnd', fromPage, fromServer)
  BY <1>2, <1>3, <1>4, UpIs, UpMoves
<1>6. QED
  BY <1>1, <1>2, <1>5, UpIs DEF Up, Ends

LEMMA UpPageShuts ==
  ASSUME Up, NegotiationFails \/ close
  PROVE  Up'
<1>1. /\ jsEnd' = [jsEnd EXCEPT !.open = FALSE, !.await = "none"]
      /\ fromPage' = fromPage \/ Adds(fromPage', fromPage, [type |-> "close"])
      /\ UNCHANGED <<direction, peer, fromServer, owed>>
  <2>1. CASE NegotiationFails
    BY <2>1, UpIs DEF NegotiationFails, closeLocal, Message, Adds
  <2>2. CASE close
    BY <2>2, UpIs DEF close, closeLocal, Message, Adds
  <2>3. QED
    BY <2>1, <2>2
<1>2. jsEnd' \in PageEnd
  BY <1>1, UpIs DEF PageEnd
<1>3. UpOk(peer, jsEnd', fromPage', fromServer)
  BY <1>1, <1>2, UpIs, UpShuts
<1>4. QED
  BY <1>1, <1>2, <1>3, UpIs DEF Up, Ends

LEMMA UpPageSends ==
  NegotiationAssumption /\ Up /\ SendDescription => Up'
<1> SUFFICES ASSUME NegotiationAssumption, Up, SendDescription PROVE Up'
  OBVIOUS
<1> DEFINE m == [type |-> "offer", terms |-> jsEnd.proposed]
           u == Append(fromPage, m)
<1>0. jsEnd.proposed \in Pair
  BY UpIs DEF PageEnd
<1>1. m \in Forth /\ m.type = "offer" /\ m.terms = jsEnd.proposed
  BY <1>0 DEF Forth
<1>2. PICK s \in Sends(jsEnd.localIceCandidates) : fromPage' = u \o s
  BY UpIs DEF SendDescription
<1>3. /\ jsEnd' \in PageEnd /\ jsEnd'.open = jsEnd.open
      /\ jsEnd'.proposed = jsEnd.proposed /\ jsEnd'.offered
      /\ jsEnd'.await = "none" /\ jsEnd'.localIceCandidates = {}
      /\ jsEnd'.found = jsEnd.found /\ jsEnd'.localDescriptionSent
      /\ jsEnd'.remoteIceCandidates = jsEnd.remoteIceCandidates
      /\ jsEnd'.got = jsEnd.got
  BY UpIs DEF SendDescription, PageEnd
<1>4. Adds(u, fromPage, m) /\ Joins(fromPage', u, s)
  BY <1>2 DEF Adds, Joins
<1>5. jsEnd.await = "local" /\ UNCHANGED <<direction, peer, fromServer, owed>>
  BY DEF SendDescription
<1> HIDE DEF m, u
<1>6. UpOk(peer, jsEnd', fromPage', fromServer)
  BY <1>1, <1>2, <1>3, <1>4, <1>5, UpIs, UpOffers
<1>7. QED
  BY <1>3, <1>5, <1>6, UpIs DEF Up, Ends

LEMMA UpPageFinds ==
  ASSUME Up, NEW k \in Candidates, PageCandidate(k)
  PROVE  Up'
<1>1. gotLocalIce(k) /\ UNCHANGED <<direction, peer, fromServer, owed>>
  BY DEF PageCandidate
<1>2. CASE jsEnd.localDescriptionSent
  <2> DEFINE m == Ice(k)
  <2>1. m \in Forth /\ m.type = "ice" /\ m.candidate = k
    BY DEF Ice, Forth
  <2>2. /\ Adds(fromPage', fromPage, m)
        /\ jsEnd' = [jsEnd EXCEPT !.found = @ \cup {k}]
    BY <1>1, <1>2 DEF gotLocalIce, Adds
  <2>3. jsEnd' \in PageEnd
    BY <2>2, UpIs DEF PageEnd
  <2> HIDE DEF m
  <2>4. UpOk(peer, jsEnd', fromPage', fromServer)
    BY <1>2, <2>1, <2>2, <2>3, UpIs, UpPageSays
  <2>5. QED
    BY <1>1, <2>3, <2>4, UpIs DEF Up, Ends
<1>3. CASE ~jsEnd.localDescriptionSent
  <2>1. /\ jsEnd' = [jsEnd EXCEPT !.found = @ \cup {k},
                                  !.localIceCandidates = @ \cup {k}]
        /\ fromPage' = fromPage
    BY <1>1, <1>3 DEF gotLocalIce
  <2>2. /\ jsEnd' \in PageEnd /\ jsEnd'.open = jsEnd.open
        /\ jsEnd'.await = jsEnd.await /\ jsEnd'.offered = jsEnd.offered
        /\ jsEnd'.proposed = jsEnd.proposed
        /\ jsEnd'.localDescriptionSent = jsEnd.localDescriptionSent
        /\ jsEnd'.remoteIceCandidates \cup jsEnd'.got
             = jsEnd.remoteIceCandidates \cup jsEnd.got
        /\ jsEnd'.found = jsEnd.found \cup {k}
        /\ jsEnd'.localIceCandidates = jsEnd.localIceCandidates \cup {k}
    BY <2>1, UpIs DEF PageEnd
  <2>3. /\ Token(fromPage, jsEnd.await = "remote", fromServer, jsEnd.offered)
        /\ jsEnd.offered => jsEnd.await \in {"none", "remote"}
        /\ UpTerms(peer, jsEnd, fromPage, fromServer)
    BY UpIs, UpFacts
  <2>4. UpTerms(peer, jsEnd', fromPage, fromServer)
    BY <2>2, <2>3 DEF UpTerms
  <2>5. UpOk(peer, jsEnd', fromPage, fromServer)
    BY <2>2, <2>3, <2>4, UpIs, UpMoves
  <2>6. QED
    BY <1>1, <2>1, <2>2, <2>5, UpIs DEF Up, Ends
<1>4. QED
  BY <1>2, <1>3

LEMMA UpKeeps ==
  NegotiationAssumption /\ Up /\ [Next]_negotiationVars => Up'
<1> SUFFICES ASSUME NegotiationAssumption, Up, [Next]_negotiationVars PROVE Up'
  OBVIOUS
<1>1. CASE UNCHANGED negotiationVars
  BY <1>1 DEF negotiationVars, Up, Ends
<1>2. CASE Settling
  BY <1>2, UpServerReceives, UpPageReceives, UpPageMoves, UpPageSends
     DEF Settling
<1>3. CASE pushDownConn
  BY <1>3, UpIs DEF pushDownConn
<1>4. CASE connectionFailed \/ ServerCloses
  BY <1>4, UpServerSpeaks
<1>5. ASSUME NEW k \in Candidates, ServerCandidate(k) \/ PageCandidate(k)
      PROVE  Up'
  BY <1>5, UpServerFinds, UpPageFinds
<1>6. CASE NegotiationFails \/ close
  BY <1>6, UpPageShuts
<1>7. CASE ChangeTracks \/ restartIce
  BY <1>7, UpPageChanges
<1>8. CASE onnegotiationneeded
  BY <1>8, UpPageMoves
<1>9. QED
  BY <1>1, <1>2, <1>3, <1>4, <1>5, <1>6, <1>7, <1>8 DEF Next

-----------------------------------------------------------------------------
StreamsInvariant == Down \/ Up

LEMMA EmptyWire == /\ <<>> \in Seq(Forth) /\ <<>> \in Seq(Back) /\ Sent(<<>>) = {}
                   /\ \A t, i : ~(i \in Under(<<>>, t))
<1>1. <<>> \in Seq(Forth) /\ <<>> \in Seq(Back)
  OBVIOUS
<1>2. \A t, i : ~(i \in Under(<<>>, t))
  BY DEF Under
<1>3. QED
  BY <1>1, <1>2 DEF Sent

LEMMA StreamsStart == Init => StreamsInvariant
<1> SUFFICES ASSUME Init PROVE StreamsInvariant
  OBVIOUS
<1>1. None \in Pair
  BY DEF None, Pair
<1>2. /\ direction \in {"down", "up"} /\ owed \in BOOLEAN /\ ~owed
      /\ fromServer = <<>> /\ fromPage = <<>>
  BY DEF Init
<1>3. /\ peer \in ServerEnd /\ peer.open = (direction = "down")
      /\ ~peer.offered /\ peer.needed = 0 /\ peer.terms = None
      /\ peer.found = {} /\ peer.held = {} /\ peer.got = {}
  BY <1>1 DEF Init, ServerEnd
<1>4. /\ jsEnd \in PageEnd /\ jsEnd.open = (direction = "up")
      /\ jsEnd.await = "none" /\ ~jsEnd.offered /\ jsEnd.terms = None
      /\ jsEnd.proposed = None /\ jsEnd.found = {}
      /\ jsEnd.localIceCandidates = {} /\ jsEnd.remoteIceCandidates = {}
      /\ jsEnd.got = {} /\ ~jsEnd.localDescriptionSent
  BY <1>1 DEF Init, PageEnd
<1>5. Token(<<>>, FALSE, <<>>, FALSE)
  BY EmptyWire DEF Token, Once, Some
<1>6. CASE direction = "down"
  <2>1. Token(fromServer, jsEnd.await # "none", fromPage, peer.offered)
    BY <1>2, <1>3, <1>4, EmptyWire DEF Token, Once, Some
  <2>2. DownTerms(peer, jsEnd, fromServer, fromPage)
    BY <1>2, <1>3, <1>4, EmptyWire DEF DownTerms, Some
  <2>3. Remembered(peer, owed) /\ CloseLast(peer, fromServer)
    BY <1>2, <1>3, EmptyWire DEF Remembered, CloseLast, Some
  <2>4. DownFirst(peer, jsEnd, fromServer)
    BY <1>1, <1>2, <1>3, <1>4, EmptyWire DEF DownFirst, Untouched, None
  <2>5. ServersAre(peer, jsEnd, fromServer) /\ PagesAre(peer, jsEnd, fromPage)
    BY <1>2, <1>3, <1>4, EmptyWire DEF ServersAre, PagesAre
  <2>6. DownNow
    BY <1>2, <2>1, <2>2, <2>3, <2>4, <2>5, EmptyWire DEF DownNow, DownOk
  <2>7. QED
    BY <1>2, <1>3, <1>4, <1>6, <2>6 DEF StreamsInvariant, Down, Ends
<1>7. CASE direction = "up"
  <2>1. Token(fromPage, jsEnd.await = "remote", fromServer, jsEnd.offered)
    BY <1>2, <1>3, <1>4, EmptyWire DEF Token, Once, Some
  <2>2. UpTerms(peer, jsEnd, fromPage, fromServer)
    BY <1>2, <1>3, <1>4, EmptyWire DEF UpTerms, Some
  <2>3. UpFirst(peer, jsEnd, fromPage) /\ ~Some(fromPage, "close")
    BY <1>2, <1>4, EmptyWire DEF UpFirst, Some
  <2>4. ServersAre(peer, jsEnd, fromServer) /\ PagesAre(peer, jsEnd, fromPage)
    BY <1>2, <1>3, <1>4, EmptyWire DEF ServersAre, PagesAre
  <2>5. UpOk(peer, jsEnd, fromPage, fromServer)
    BY <1>2, <1>4, <2>1, <2>2, <2>3, <2>4, EmptyWire DEF UpOk
  <2>6. QED
    BY <1>2, <1>3, <1>4, <1>7, <2>5 DEF StreamsInvariant, Up, Ends
<1>8. QED
  BY <1>2, <1>6, <1>7

LEMMA StreamsKeep ==
  NegotiationAssumption /\ StreamsInvariant /\ [Next]_negotiationVars
    => StreamsInvariant'
BY DownKeeps, UpKeeps DEF StreamsInvariant

(* What the token says about the numbers of offers and of answers.         *)
LEMMA AtMostOne ==
  ASSUME NEW fw, NEW bk, NEW busy, NEW offered, Token(fw, busy, bk, offered)
  PROVE  /\ Cardinality(Under(fw, "offer") \cup Under(bk, "answer")) <= 1
         /\ Under(fw, "offer") # {} => Under(bk, "answer") = {}
<1> DEFINE X == Under(fw, "offer") \cup Under(bk, "answer")
<1>1. Under(fw, "offer") # {} => Under(bk, "answer") = {}
  BY DEF Token, Some
<1>2. \A i, j \in X : i = j
  BY DEF Token, Some, Once
<1> HIDE DEF X
<1>3. CASE X = {}
  BY <1>1, <1>3, FS_EmptySet DEF X
<1>4. CASE X # {}
  <2>1. PICK i : i \in X
    BY <1>4
  <2>2. X = {i}
    BY <1>2, <2>1
  <2>3. Cardinality(X) = 1
    BY <2>2, FS_Singleton
  <2>4. QED
    BY <1>1, <2>3 DEF X
<1>5. QED
  BY <1>3, <1>4

LEMMA StreamsGive ==
  StreamsInvariant => OneOffer /\ Agreed /\ CandidatesArrive
<1> SUFFICES ASSUME StreamsInvariant
             PROVE  OneOffer /\ Agreed /\ CandidatesArrive
  OBVIOUS
<1>1. CASE Down
  <2>0. /\ direction = "down"
        /\ DownOk(peer, jsEnd, fromServer, fromPage, owed)
    BY <1>1, DownFacts
  <2>1. /\ Token(fromServer, jsEnd.await # "none", fromPage, peer.offered)
        /\ DownTerms(peer, jsEnd, fromServer, fromPage)
        /\ Remembered(peer, owed)
        /\ jsEnd.open => ServersAre(peer, jsEnd, fromServer)
        /\ peer.open => PagesAre(peer, jsEnd, fromPage)
    BY <2>0 DEF DownOk
  <2>2. OneOffer
    <3>1. /\ Cardinality(Under(fromServer, "offer") \cup Under(fromPage, "answer")) <= 1
          /\ Under(fromServer, "offer") # {} => Under(fromPage, "answer") = {}
      BY <2>1, AtMostOne
    <3>2. Under(fromServer, "offer") # {} => jsEnd.await = "none"
      BY <2>1 DEF Token, Some
    <3>3. QED
      BY <2>0, <3>1, <3>2 DEF OneOffer
  <2>3. Agreed
    BY <2>0, <2>1 DEF Agreed, Offered, DownTerms, Remembered
  <2>4. CandidatesArrive
    BY <2>0, <2>1 DEF CandidatesArrive, BothOpen, ServersAre, PagesAre
  <2>5. QED
    BY <2>2, <2>3, <2>4
<1>2. CASE Up
  <2>0. direction = "up" /\ UpOk(peer, jsEnd, fromPage, fromServer)
    BY <1>2, UpIs
  <2>1. /\ Token(fromPage, jsEnd.await = "remote", fromServer, jsEnd.offered)
        /\ UpTerms(peer, jsEnd, fromPage, fromServer)
        /\ jsEnd.open => /\ ServersAre(peer, jsEnd, fromServer)
                         /\ PagesAre(peer, jsEnd, fromPage)
    BY <2>0, UpFacts
  <2>2. OneOffer
    <3>1. /\ Cardinality(Under(fromPage, "offer") \cup Under(fromServer, "answer")) <= 1
          /\ Under(fromPage, "offer") # {} => Under(fromServer, "answer") = {}
      BY <2>1, AtMostOne
    <3>2. QED
      BY <2>0, <3>1 DEF OneOffer
  <2>3. Agreed
    BY <2>0, <2>1 DEF Agreed, Offered, BothOpen, UpTerms
  <2>4. CandidatesArrive
    BY <2>0, <2>1 DEF CandidatesArrive, BothOpen, ServersAre, PagesAre
  <2>5. QED
    BY <2>2, <2>3, <2>4
<1>3. QED
  BY <1>1, <1>2 DEF StreamsInvariant

=============================================================================
