------------------------------- MODULE ApiProofs -------------------------------
(***************************************************************************)
(* The stores of module Api, for any number of clients, users, tokens and  *)
(* writes: memory agrees with the token file, conditional requests replace *)
(* what they were meant for, and secrets survive.                          *)
(***************************************************************************)
EXTENDS Api, TLAPS

TokensTyped ==
  /\ tokfile \in [tag : Stamp, tokens : [Toks -> Stamp], torn : BOOLEAN]
  /\ mem \in [tag : Stamp, tokens : [Toks -> Stamp]]
  /\ work \in [at : {"rest", "rewrite", "rename", "append", "stat"}, by : SUBSET Clients,
               toks : SUBSET Toks, value : Stamp, was : Stamp]
  /\ raced \in BOOLEAN
  /\ told \in [Toks -> Stamp] /\ old \subseteq Toks /\ clock \in Stamp

(* No tag is of the future, so the tag of the next write is a new one.     *)
TagsPast == mem.tag <= clock /\ tokfile.tag <= clock

(* A file that is not there has no tokens.                                 *)
NoneWithoutFile == tokfile.tag = 0 => tokfile.tokens = NoToken

(* Of a file it is up to date with, memory only lacks old tokens.          *)
Has(m, t) == m.tokens[t] = tokfile.tokens[t] \/ (t \in old /\ m.tokens[t] = 0)
Agrees(m) == \A t \in Toks : Has(m, t)

UpToDate == work = Rest /\ ~ raced /\ mem.tag # 0 /\ mem.tag = tokfile.tag => Agrees(mem)

(* An operation that is to replace the file has changed what it was asked  *)
(* to in memory, and nothing else; the file is still what it was.          *)
Rewriting ==
  work.at \in {"rewrite", "rename"} =>
    /\ ~ tokfile.torn /\ tokfile.tag # 0 /\ mem.tag = tokfile.tag
    /\ \A t \in Toks \ work.toks : Has(mem, t)
    /\ \A t \in work.toks : mem.tokens[t] = work.value /\ tokfile.tokens[t] = work.was

(* One that appends has changed nothing yet, one that is about to ask for  *)
(* the tag has changed both.                                               *)
Appending ==
  work.at = "append" =>
    /\ ~ tokfile.torn /\ mem.tag = tokfile.tag /\ Agrees(mem)
    /\ \A t \in work.toks : mem.tokens[t] = work.was

Retagging == work.at = "stat" => Agrees(mem)

Working == ~ raced => Rewriting /\ Appending /\ Retagging

TokenInv ==
  TokensTyped /\ TagsPast /\ NoneWithoutFile /\ UpToDate /\ Working /\ AsTold

-----------------------------------------------------------------------------
LEMMA StampFacts ==
  /\ 0 \in Stamp /\ \A n \in Stamp : n \in Nat
  /\ clock \in Stamp /\ clock < MaxWrites => Now \in Stamp /\ Now > clock /\ Now # 0
BY ApiAssumption DEF Stamp, Now

LEMMA RestTyped ==
  /\ Rest \in [at : {"rest", "rewrite", "rename", "append", "stat"}, by : SUBSET Clients,
               toks : SUBSET Toks, value : Stamp, was : Stamp]
  /\ Rest.at = "rest"
BY StampFacts DEF Rest

(* load leaves what agrees with the file, unless it cannot be read.        *)
LEMMA LoadAgrees ==
  ASSUME TokenInv
  PROVE  /\ Load \in [tag : Stamp, tokens : [Toks -> Stamp]]
         /\ Load.tag <= clock
         /\ ~ tokfile.torn => Load.tag = tokfile.tag
         /\ ~ tokfile.torn /\ work = Rest /\ ~ raced => Agrees(Load)
         /\ tokfile.torn => Load = NoTokens
         /\ tokfile.tag = 0 => Load = NoTokens
<1> USE StampFacts DEF TokenInv, TokensTyped, TagsPast, NoneWithoutFile, UpToDate, Agrees, Has
<1>1. NoToken \in [Toks -> Stamp]
  BY DEF NoToken
<1>2. CASE tokfile.tag = 0 \/ tokfile.torn
  BY <1>1, <1>2, ApiAssumption DEF Load, NoTokens, NoToken, Stamp
<1>3. CASE ~ (tokfile.tag = 0 \/ tokfile.torn) /\ mem.tag = tokfile.tag
  BY <1>3 DEF Load
<1>4. CASE ~ (tokfile.tag = 0 \/ tokfile.torn) /\ mem.tag # tokfile.tag
  BY <1>4 DEF Load
<1> QED
  BY <1>2, <1>3, <1>4

(* A token that load finds is in a file that can be read.                  *)
LEMMA FoundInFile ==
  ASSUME TokenInv, NEW t \in Toks, Load.tokens[t] # 0
  PROVE  ~ tokfile.torn /\ tokfile.tag # 0
BY LoadAgrees DEF NoTokens, NoToken

(* Requests that only read leave what load leaves, or nothing.             *)
LEMMA LoadKeeps ==
  ASSUME TokenInv, mem' = mem \/ (work = Rest /\ mem' = Load),
         UNCHANGED <<tokfile, work, raced, told, old, clock>>
  PROVE  TokenInv'
<1> USE DEF TokenInv, TokensTyped, TagsPast, NoneWithoutFile, AsTold
<1>1. CASE mem' = mem
  BY <1>1 DEF UpToDate, Working, Rewriting, Appending, Retagging, Agrees, Has
<1>2. CASE work = Rest /\ mem' = Load
  <2>1. Working'
    BY <1>2, RestTyped DEF Working, Rewriting, Appending, Retagging
  <2>2. UpToDate'
    <3>1. ASSUME Load.tag # 0, Load.tag = tokfile.tag, ~ raced PROVE Agrees(Load)
      <4>1. ~ tokfile.torn
        BY <3>1, LoadAgrees DEF NoTokens
      <4> QED
        BY <1>2, <3>1, <4>1, LoadAgrees
    <3> QED
      BY <1>2, <3>1 DEF UpToDate, Agrees, Has
  <2> QED
    BY <1>2, <2>1, <2>2, LoadAgrees
<1> QED
  BY <1>1, <1>2

(* Only the clock goes on: a request for the group's file.                 *)
LEMMA ClockKeeps ==
  ASSUME TokenInv, clock < MaxWrites, clock' = Now, UNCHANGED tokenvars
  PROVE  TokenInv'
<1> USE StampFacts DEF TokenInv, TokensTyped, TagsPast, tokenvars
<1>1. clock' \in Stamp /\ mem'.tag <= clock' /\ tokfile'.tag <= clock'
  BY DEF Now, Stamp
<1> QED
  BY <1>1
  DEF NoneWithoutFile, UpToDate, AsTold, Working, Rewriting, Appending, Retagging, Agrees, Has

-----------------------------------------------------------------------------
LEMMA TokenInvInit == ASSUME Init PROVE TokenInv
<1> USE ApiAssumption, StampFacts, RestTyped
    DEF TokenInv, TagsPast, NoneWithoutFile
<1>1. 1 \in Stamp
  BY DEF Stamp
<1>2. PICK some \in SUBSET Toks : tokfile = LeftTokens(some)
  BY DEF Init
<1>3. NoToken \in [Toks -> Stamp]
  BY DEF NoToken
<1>4. /\ tokfile \in [tag : Stamp, tokens : [Toks -> Stamp], torn : BOOLEAN]
      /\ tokfile.tag <= 1 /\ (tokfile.tag = 0 => tokfile.tokens = NoToken)
  BY <1>1, <1>2, <1>3 DEF LeftTokens, NoTokfile
<1>5. TokensTyped
  BY <1>1, <1>3, <1>4 DEF Init, NoTokens, TokensTyped
<1>6. UpToDate /\ Working /\ AsTold
  BY DEF Init, NoTokens, UpToDate, Working, Rewriting, Appending, Retagging, AsTold
<1> QED
  BY <1>4, <1>5, <1>6 DEF Init, NoTokens

(* The operations begin.                                                   *)
LEMMA BeginKeeps ==
  ASSUME TokenInv, clock < MaxWrites,
         \E t \in Toks : MakeToken(t) \/ \E c \in Clients : WriteToken(c, t)
  PROVE  TokenInv'
<1> USE StampFacts DEF TokenInv
<1>1. ASSUME NEW t \in Toks, NEW c \in Clients, WriteToken(c, t) PROVE TokenInv'
  <2> DEFINE value == IF req[c].method = "put" THEN Now ELSE 0
             was == Load.tokens[t]
  <2>1. /\ was # 0 /\ work = Rest
        /\ mem' = [Load EXCEPT !.tokens[t] = value]
        /\ work' = [at |-> "rewrite", by |-> {c}, toks |-> {t}, value |-> value, was |-> was]
        /\ UNCHANGED <<tokfile, raced, told, old, clock>>
    BY <1>1 DEF WriteToken, Begin
  <2>2. /\ ~ tokfile.torn /\ tokfile.tag # 0 /\ Load.tag = tokfile.tag
        /\ Load \in [tag : Stamp, tokens : [Toks -> Stamp]] /\ Load.tag <= clock
    BY <2>1, FoundInFile, LoadAgrees
  <2>3. ~ raced => Agrees(Load)
    BY <2>1, <2>2, LoadAgrees
  <2>4. value \in Stamp /\ was \in Stamp
    BY <2>2 DEF TokensTyped
  <2>5. ~ raced => tokfile.tokens[t] = was
    BY <2>1, <2>3 DEF Agrees, Has
  <2> HIDE DEF value, was
  <2>6. TokensTyped'
    BY <2>1, <2>2, <2>4 DEF TokensTyped
  <2>7. mem'.tag = Load.tag /\ mem'.tokens = [Load.tokens EXCEPT ![t] = value]
    BY <2>1, <2>2
  <2>8. ~ raced => \A u \in Toks : u # t => Has(mem, u)'
    BY <2>1, <2>2, <2>3, <2>7 DEF Agrees, Has
  <2>9. mem'.tokens[t] = value
    BY <2>2, <2>7
  <2>10. Working'
    BY <2>1, <2>2, <2>5, <2>7, <2>8, <2>9 DEF Working, Rewriting, Appending, Retagging
  <2>11. UpToDate'
    BY <2>1, RestTyped DEF UpToDate
  <2> QED
    BY <2>1, <2>2, <2>6, <2>7, <2>10, <2>11 DEF TagsPast, NoneWithoutFile, AsTold
<1>2. ASSUME NEW t \in Toks, MakeToken(t) PROVE TokenInv'
  <2>1. /\ ~ tokfile.torn /\ Load.tokens[t] = 0 /\ work = Rest /\ mem' = Load
        /\ work' = [at |-> "append", by |-> {}, toks |-> {t}, value |-> Now, was |-> 0]
        /\ UNCHANGED <<tokfile, raced, told, old, clock>>
    BY <1>2 DEF MakeToken, Begin
  <2>2. /\ Load.tag = tokfile.tag /\ (~ raced => Agrees(Load))
        /\ Load \in [tag : Stamp, tokens : [Toks -> Stamp]] /\ Load.tag <= clock
    BY <2>1, LoadAgrees
  <2>3. TokensTyped'
    BY <2>1, <2>2 DEF TokensTyped
  <2>4. ~ raced => Agrees(mem)'
    BY <2>1, <2>2 DEF Agrees, Has
  <2>5. Working' /\ UpToDate'
    BY <2>1, <2>2, <2>4, RestTyped DEF Working, Rewriting, Appending, Retagging, UpToDate
  <2> QED
    BY <2>1, <2>2, <2>3, <2>5 DEF TagsPast, NoneWithoutFile, AsTold
<1> QED
  BY <1>1, <1>2

LEMMA ExpireKeeps == ASSUME TokenInv, Expire PROVE TokenInv'
<1> USE StampFacts DEF TokenInv
<1>1. /\ Forgotten # Load.tokens /\ work = Rest
      /\ mem' = [Load EXCEPT !.tokens = Forgotten]
      /\ work' = [at |-> "rewrite", by |-> {}, toks |-> {}, value |-> 0, was |-> 0]
      /\ UNCHANGED <<tokfile, raced, told, old, clock>>
  BY DEF Expire, Begin
<1>2. Load \in [tag : Stamp, tokens : [Toks -> Stamp]] /\ Load.tag <= clock
  BY LoadAgrees
<1>3. Load # NoTokens
  BY <1>1, <1>2 DEF Forgotten, NoTokens, NoToken
<1>4. ~ tokfile.torn /\ tokfile.tag # 0 /\ Load.tag = tokfile.tag /\ (~ raced => Agrees(Load))
  BY <1>1, <1>3, LoadAgrees
<1>5. Forgotten \in [Toks -> Stamp]
      /\ \A t \in Toks : Forgotten[t] = Load.tokens[t] \/ (t \in old /\ Forgotten[t] = 0)
  BY <1>2 DEF Forgotten
<1>6. mem'.tag = Load.tag /\ mem'.tokens = Forgotten
  BY <1>1, <1>2
<1>7. TokensTyped'
  BY <1>1, <1>2, <1>5 DEF TokensTyped
<1>8. ~ raced => \A t \in Toks : Has(mem, t)'
  BY <1>1, <1>4, <1>5, <1>6 DEF Agrees, Has
<1>9. Working' /\ UpToDate'
  BY <1>1, <1>4, <1>6, <1>8, RestTyped DEF Working, Rewriting, Appending, Retagging, UpToDate
<1> QED
  BY <1>1, <1>2, <1>6, <1>7, <1>9 DEF TagsPast, NoneWithoutFile, AsTold

LEMMA RelistKeeps == ASSUME TokenInv, Relist PROVE TokenInv'
<1> USE DEF TokenInv
<1>1. /\ work.at = "rewrite" /\ mem' = Load /\ work' = [work EXCEPT !.at = "rename"]
      /\ UNCHANGED <<tokfile, raced, told, old, clock>>
  BY DEF Relist, NextStep
<1>2. ~ raced => Load = mem
  BY <1>1 DEF Load, Working, Rewriting
<1>3. TokensTyped' /\ mem'.tag <= clock
  BY <1>1, LoadAgrees DEF TokensTyped
<1>4. work'.at = "rename" /\ work'.toks = work.toks /\ work'.value = work.value
      /\ work'.was = work.was
  BY <1>1 DEF TokensTyped
<1>5. Working' /\ UpToDate'
  BY <1>1, <1>2, <1>4, RestTyped
  DEF Working, Rewriting, Appending, Retagging, UpToDate, Agrees, Has
<1> QED
  BY <1>1, <1>3, <1>5 DEF TagsPast, NoneWithoutFile, AsTold

(* The change reaches the file: what was told of, and what was not asked   *)
(* for, is there.                                                          *)
LEMMA CommitKeeps ==
  ASSUME TokenInv, clock < MaxWrites, Remove \/ Rename
  PROVE  TokenInv'
<1> USE StampFacts DEF TokenInv
<1>1. /\ told' = Given(told) /\ old' = old \ work.toks /\ clock' = Now
      /\ raced' = raced /\ mem' = mem /\ work.at \in {"rewrite", "rename"}
  BY DEF Remove, Rename, Committed
<1>2. tokfile'.tokens = mem.tokens /\ work' \in {Rest, [work EXCEPT !.at = "stat"]}
  BY DEF Remove, Rename, Ended, NextStep, NoTokfile
<1>3. \/ tokfile' = NoTokfile /\ mem.tokens = NoToken
      \/ tokfile' = [tag |-> Now, tokens |-> mem.tokens, torn |-> FALSE]
  BY DEF Remove, Rename
<1>4. told' \in [Toks -> Stamp] /\ old' \subseteq Toks
  BY <1>1 DEF Given, TokensTyped
<1>5. clock' \in Stamp /\ clock' > clock /\ clock \in Nat /\ clock' \in Nat /\ clock' # 0
  BY <1>1 DEF TokensTyped
<1>6. tokfile' \in [tag : Stamp, tokens : [Toks -> Stamp], torn : BOOLEAN]
      /\ (tokfile'.tag = 0 \/ tokfile'.tag = clock')
  <2>1. CASE tokfile' = NoTokfile /\ mem.tokens = NoToken
    BY <2>1 DEF TokensTyped, NoTokfile
  <2>2. CASE tokfile' = [tag |-> Now, tokens |-> mem.tokens, torn |-> FALSE]
    BY <1>1, <1>5, <2>2 DEF TokensTyped
  <2> QED
    BY <1>3, <2>1, <2>2
<1>7. work' \in [at : {"rest", "rewrite", "rename", "append", "stat"}, by : SUBSET Clients,
                toks : SUBSET Toks, value : Stamp, was : Stamp]
      /\ work'.at \in {"rest", "stat"}
  BY <1>2, RestTyped DEF TokensTyped
<1>8. TokensTyped'
  BY <1>1, <1>4, <1>5, <1>6, <1>7 DEF TokensTyped
<1>9. TagsPast' /\ NoneWithoutFile'
  BY <1>1, <1>3, <1>5, <1>6 DEF TagsPast, NoneWithoutFile, TokensTyped, NoTokfile, Stamp
<1>10. Agrees(mem)'
  BY <1>1, <1>2 DEF Agrees, Has
<1>11. UpToDate' /\ Working'
  BY <1>7, <1>10 DEF UpToDate, Working, Rewriting, Appending, Retagging
<1>12. AsTold'
  <2> SUFFICES ASSUME ~ raced, NEW t \in Toks \ old' PROVE mem.tokens[t] = told'[t]
    BY <1>1, <1>2 DEF AsTold
  <2>1. Rewriting
    BY DEF Working
  <2>2. CASE t \in work.toks
    BY <1>1, <2>1, <2>2 DEF Rewriting, Given
  <2>3. CASE t \notin work.toks
    BY <1>1, <2>1, <2>3 DEF Rewriting, Given, Has, AsTold
  <2> QED
    BY <2>2, <2>3
<1> QED
  BY <1>8, <1>9, <1>11, <1>12

LEMMA AppendKeeps == ASSUME TokenInv, clock < MaxWrites, Append PROVE TokenInv'
<1> USE StampFacts DEF TokenInv
<1> DEFINE toks == Given(tokfile.tokens)
           kept == Given(mem.tokens)
<1>1. /\ told' = Given(told) /\ old' = old \ work.toks /\ clock' = Now /\ raced' = raced
      /\ tokfile' = [tokfile EXCEPT !.tokens = toks, !.tag = Now]
      /\ mem' = [mem EXCEPT !.tokens = kept]
      /\ work.at = "append" /\ work' = [work EXCEPT !.at = "stat"]
  BY DEF Append, Committed, NextStep
<1>2. told' \in [Toks -> Stamp] /\ toks \in [Toks -> Stamp] /\ kept \in [Toks -> Stamp]
  BY <1>1 DEF Given, TokensTyped
<1>3. clock' \in Stamp /\ clock' > clock /\ clock \in Nat /\ clock' \in Nat /\ clock' # 0
  BY <1>1 DEF TokensTyped
<1>4. \A t \in Toks :
        /\ t \in work.toks => toks[t] = told'[t] /\ kept[t] = toks[t]
        /\ t \notin work.toks => toks[t] = tokfile.tokens[t] /\ kept[t] = mem.tokens[t]
                                /\ told'[t] = told[t]
  BY <1>1 DEF Given
<1> HIDE DEF toks, kept
<1>5. /\ tokfile'.tag = clock' /\ tokfile'.tokens = toks /\ mem'.tag = mem.tag
      /\ mem'.tokens = kept /\ work'.at = "stat"
  BY <1>1 DEF TokensTyped
<1>6. TokensTyped'
  BY <1>1, <1>2, <1>3 DEF TokensTyped
<1>7. TagsPast' /\ NoneWithoutFile'
  BY <1>3, <1>5 DEF TagsPast, NoneWithoutFile, TokensTyped, Stamp
<1>8. ~ raced => Agrees(mem)'
  BY <1>1, <1>4, <1>5 DEF Working, Appending, Agrees, Has
<1>9. UpToDate' /\ Working'
  BY <1>1, <1>5, <1>8, RestTyped DEF UpToDate, Working, Rewriting, Appending, Retagging
<1>10. AsTold'
  BY <1>1, <1>4, <1>5 DEF AsTold
<1> QED
  BY <1>6, <1>7, <1>9, <1>10

(* The operations end, with or without a change.                           *)
LEMMA EndKeeps ==
  ASSUME TokenInv, Stat \/ Fail \/ (clock < MaxWrites /\ Tear)
  PROVE  TokenInv'
<1> USE StampFacts DEF TokenInv
<1>0. work' = Rest /\ UNCHANGED <<raced, told, old>>
  BY DEF Stat, Fail, Tear, Ended
<1>1. Working'
  BY <1>0, RestTyped DEF Working, Rewriting, Appending, Retagging
<1>2. CASE Stat
  <2>1. mem' = [mem EXCEPT !.tag = tokfile.tag] /\ UNCHANGED <<tokfile, clock>>
        /\ work.at = "stat"
    BY <1>2 DEF Stat
  <2>2. TokensTyped'
    BY <1>0, <2>1, RestTyped DEF TokensTyped
  <2>3. UpToDate'
    BY <1>0, <2>1 DEF UpToDate, Working, Retagging, Agrees, Has, TokensTyped
  <2> QED
    BY <1>0, <1>1, <2>1, <2>2, <2>3 DEF TagsPast, NoneWithoutFile, AsTold, TokensTyped
<1>3. CASE Fail
  <2> DEFINE back == [t \in Toks |-> IF t \in work.toks THEN work.was ELSE mem.tokens[t]]
  <2>1. mem' = [mem EXCEPT !.tokens = back] /\ UNCHANGED <<tokfile, clock>>
        /\ work.at \in {"rewrite", "rename", "append"}
    BY <1>3 DEF Fail, PutBack
  <2>2. back \in [Toks -> Stamp]
    BY DEF TokensTyped
  <2>3. \A t \in Toks : back[t] = IF t \in work.toks THEN work.was ELSE mem.tokens[t]
    OBVIOUS
  <2> HIDE DEF back
  <2>4. mem'.tag = mem.tag /\ mem'.tokens = back
    BY <2>1 DEF TokensTyped
  <2>5. TokensTyped'
    BY <1>0, <2>1, <2>2, RestTyped DEF TokensTyped
  <2>6. ASSUME ~ raced PROVE Agrees(mem)'
    <3>1. CASE work.at = "append"
      BY <1>0, <2>1, <2>3, <2>4, <2>6, <3>1 DEF Working, Appending, Agrees, Has
    <3>2. CASE work.at \in {"rewrite", "rename"}
      BY <1>0, <2>1, <2>3, <2>4, <2>6, <3>2 DEF Working, Rewriting, Agrees, Has
    <3> QED
      BY <2>1, <3>1, <3>2
  <2>7. UpToDate'
    BY <1>0, <2>6 DEF UpToDate
  <2> QED
    BY <1>0, <1>1, <2>1, <2>4, <2>5, <2>7 DEF TagsPast, NoneWithoutFile, AsTold
<1>4. CASE clock < MaxWrites /\ Tear
  <2>1. /\ tokfile' = [tokfile EXCEPT !.torn = TRUE, !.tag = Now] /\ mem' = mem
        /\ clock' = Now
    BY <1>4 DEF Tear
  <2>2. clock' \in Stamp /\ clock' > clock /\ clock \in Nat /\ clock' \in Nat /\ clock' # 0
    BY <1>4, <2>1 DEF TokensTyped
  <2>3. TokensTyped'
    BY <1>0, <2>1, <2>2, RestTyped DEF TokensTyped
  <2>4. tokfile'.tag = clock' /\ tokfile'.tokens = tokfile.tokens
    BY <2>1 DEF TokensTyped
  <2>5. mem.tag \in Nat /\ mem.tag <= clock
    BY DEF TokensTyped, TagsPast
  <2>6. TagsPast' /\ NoneWithoutFile' /\ UpToDate'
    BY <2>1, <2>2, <2>4, <2>5 DEF TagsPast, NoneWithoutFile, UpToDate
  <2> QED
    BY <1>0, <1>1, <2>3, <2>4, <2>6 DEF AsTold
<1> QED
  BY <1>2, <1>3, <1>4

LEMMA EditKeeps ==
  ASSUME TokenInv, clock < MaxWrites, NEW t \in Toks, NEW value \in {0, Now},
         EditTokens(t, value)
  PROVE  TokenInv'
<1> USE StampFacts DEF TokenInv
<1>1. /\ tokfile' = [tag |-> Now, tokens |-> [tokfile.tokens EXCEPT ![t] = value], torn |-> FALSE]
      /\ told' = [told EXCEPT ![t] = value] /\ old' = old \ {t} /\ clock' = Now
      /\ raced' = (raced \/ work # Rest) /\ UNCHANGED <<mem, work>>
  BY DEF EditTokens
<1>2. clock' \in Stamp /\ clock' > clock /\ clock \in Nat /\ clock' \in Nat /\ clock' # 0
      /\ value \in Stamp
  BY <1>1 DEF TokensTyped
<1>3. TokensTyped'
  BY <1>1, <1>2 DEF TokensTyped
<1>4. mem.tag \in Nat /\ mem.tag <= clock /\ tokfile'.tag = clock'
  BY <1>1 DEF TokensTyped, TagsPast
<1>5. TagsPast' /\ NoneWithoutFile' /\ UpToDate'
  BY <1>1, <1>2, <1>4 DEF TagsPast, NoneWithoutFile, UpToDate
<1>6. Working'
  BY <1>1, RestTyped DEF Working, Rewriting, Appending, Retagging
<1>7. AsTold'
  BY <1>1 DEF AsTold, TokensTyped
<1> QED
  BY <1>3, <1>5, <1>6, <1>7

LEMMA TokenInvStep == ASSUME TokenInv, [Next]_vars PROVE TokenInv'
<1> USE StampFacts
<1>1. CASE \E c \in Clients, r \in Resource :
             \/ Get(c, r)
             \/ \E method \in {"put", "delete"}, cond \in Conditions : Check(c, r, method, cond)
  BY <1>1, LoadKeeps DEF Get, Check, Touch
<1>2. CASE \E c \in Clients : Error(c)
  BY <1>2, LoadKeeps DEF Error, Touch
<1>3. CASE Restart
  <2>1. mem' = NoTokens /\ work' = Rest /\ UNCHANGED <<tokfile, raced, told, old, clock>>
    BY <1>3 DEF Restart
  <2>2. NoTokens \in [tag : Stamp, tokens : [Toks -> Stamp]] /\ NoTokens.tag = 0
    BY DEF NoTokens, NoToken
  <2>3. Working' /\ UpToDate'
    BY <2>1, <2>2, RestTyped DEF Working, Rewriting, Appending, Retagging, UpToDate
  <2> QED
    BY <2>1, <2>2, <2>3, RestTyped, ApiAssumption
    DEF TokenInv, TokensTyped, TagsPast, NoneWithoutFile, AsTold, Stamp
<1>4. CASE \E t \in Toks : Lapse(t)
  BY <1>4
  DEF Lapse, TokenInv, TokensTyped, TagsPast, NoneWithoutFile, UpToDate, Agrees, Has, AsTold,
      Working, Rewriting, Appending, Retagging
<1>5. ASSUME clock < MaxWrites, NEW c \in Clients, Write(c) PROVE TokenInv'
  <2>1. UNCHANGED tokenvars /\ clock' = Now
    BY <1>5 DEF Write, PutDesc, DeleteDesc, PutUser, DeleteUser, WriteFile
  <2> QED
    BY <1>5, <2>1, ClockKeeps
<1>6. ASSUME clock < MaxWrites, SetKeys \/ \E u \in Users : SetPassword(u) PROVE TokenInv'
  <2>1. UNCHANGED tokenvars /\ clock' = Now
    BY <1>6 DEF SetKeys, SetPassword, WriteFile
  <2> QED
    BY <1>6, <2>1, ClockKeeps
<1>7. CASE UNCHANGED vars
  BY <1>7, LoadKeeps DEF vars
<1> QED
  BY <1>1, <1>2, <1>3, <1>4, <1>5, <1>6, <1>7, BeginKeeps, ExpireKeeps, RelistKeeps, CommitKeeps,
     AppendKeeps, EndKeeps, EditKeeps
  DEF Next

LEMMA TokenInvHolds == Spec => []TokenInv
<1>1. Init => TokenInv
  BY TokenInvInit
<1>2. TokenInv /\ [Next]_vars => TokenInv'
  BY TokenInvStep
<1> QED
  BY <1>1, <1>2, PTL DEF Spec

(* Memory is in sync with the file of its tag between operations, as long  *)
(* as nobody edits the file in the middle of one: the comment on state in  *)
(* token/stateful.go.                                                      *)
THEOREM TokensInSync == Spec => []InSync
<1>1. TokenInv => InSync
  BY DEF TokenInv, UpToDate, Agrees, Has, InSync
<1> QED
  BY <1>1, TokenInvHolds, PTL

(* No token is lost, or comes back, through load, rewrite and failed       *)
(* writes, as long as nobody edits the file in the middle of an operation. *)
THEOREM TokensAsTold == Spec => []AsTold
<1>1. TokenInv => AsTold
  BY DEF TokenInv
<1> QED
  BY <1>1, TokenInvHolds, PTL

-----------------------------------------------------------------------------
(* The description file and what the clients hold.                         *)

FileTyped ==
  /\ file \in [tag : Stamp, info : Stamp, keys : Stamp,
               users : [Users -> [perm : Stamp, pw : Stamp]]]
  /\ \A u \in Users : file.tag = 0 \/ file.users[u].perm = 0 => file.users[u] = NoUser

RequestsTyped ==
  /\ req \in [Clients -> [res : Resource \cup {<<>>}, method : {"none", "put", "delete"},
                          etag : Stamp, cond : {"any", "match", "none"}]]
  /\ saw \in [Clients -> [res : Resource \cup {<<>>}, tag : Stamp, value : Stamp]]

(* The steps of the token store leave the group's file, and all clients    *)
(* but the one whose operation ends.                                       *)
TokenStep ==
  \/ Expire \/ Relist \/ Stat \/ Fail \/ Remove \/ Rename \/ Append \/ Tear
  \/ \E t \in Toks : Lapse(t) \/ MakeToken(t) \/ \E value \in {0, Now} : EditTokens(t, value)
  \/ \E c \in Clients, t \in Toks : WriteToken(c, t)

LEMMA TokenStepLeaves ==
  ASSUME TokenStep
  PROVE  file' = file /\ (UNCHANGED <<req, saw>> \/ Ended)
<1>1. CASE Stat \/ Fail \/ Remove \/ Tear
  BY <1>1 DEF Stat, Fail, Remove, Tear, Committed
<1>2. CASE Relist \/ Rename \/ Append
  BY <1>2 DEF Relist, Rename, Append, NextStep, Committed
<1>3. CASE Expire \/ (\E t \in Toks : MakeToken(t)) \/ \E c \in Clients, t \in Toks : WriteToken(c, t)
  BY <1>3 DEF Expire, MakeToken, WriteToken, Begin
<1>4. CASE \E t \in Toks : Lapse(t) \/ \E value \in {0, Now} : EditTokens(t, value)
  BY <1>4 DEF Lapse, EditTokens
<1> QED
  BY <1>1, <1>2, <1>3, <1>4 DEF TokenStep

LEMMA AnyStep ==
  ASSUME [Next]_vars
  PROVE  \/ \E c \in Clients, r \in Resource :
              \/ Get(c, r)
              \/ \E method \in {"put", "delete"}, cond \in Conditions : Check(c, r, method, cond)
         \/ \E c \in Clients : Error(c) \/ (clock < MaxWrites /\ Write(c))
         \/ clock < MaxWrites /\ (SetKeys \/ \E u \in Users : SetPassword(u))
         \/ TokenStep \/ Restart \/ UNCHANGED vars
BY DEF Next, TokenStep

(* What is got of a resource is a tag and a value.                         *)
LEMMA ValueTyped ==
  ASSUME TokenInv, FileTyped, NEW r \in Resource
  PROVE  Value(r) \in Stamp /\ ETag(r) \in Stamp
<1>1. Load \in [tag : Stamp, tokens : [Toks -> Stamp]] /\ file.tag \in Stamp
  BY LoadAgrees DEF FileTyped
<1>2. CASE r = <<"desc">>
  <2>1. Value(r) = file.info
    BY <1>2 DEF Value
  <2> QED
    BY <1>1, <2>1, StampFacts DEF ETag, FileTyped
<1>3. CASE \E u \in Users : r = <<"user", u>>
  <2>1. PICK u \in Users : r = <<"user", u>>
    BY <1>3
  <2>2. Value(r) = file.users[u].perm
    BY <2>1 DEF Value
  <2> QED
    BY <1>1, <2>2, StampFacts DEF ETag, FileTyped
<1>4. CASE \E t \in Toks : r = <<"token", t>>
  <2>1. PICK t \in Toks : r = <<"token", t>>
    BY <1>4
  <2>2. Value(r) = Load.tokens[t]
    BY <2>1 DEF Value
  <2> QED
    BY <1>1, <2>2, StampFacts DEF ETag
<1> QED
  BY <1>2, <1>3, <1>4 DEF Resource

(* Every write of the description leaves a description.                    *)
LEMMA FileTypedStep ==
  ASSUME TokensTyped, FileTyped, [Next]_vars
  PROVE  FileTyped'
<1> USE StampFacts DEF TokensTyped, FileTyped
<1>1. CASE file' = file
  BY <1>1
<1>2. ASSUME clock < MaxWrites, NEW c \in Clients, Write(c) PROVE FileTyped'
  <2>1. CASE PutDesc(c)
    BY <1>2, <2>1 DEF PutDesc, WriteFile
  <2>2. CASE DeleteDesc(c)
    BY <2>2 DEF DeleteDesc, WriteFile, NoFile, NoUser
  <2>3. ASSUME NEW u \in Users, PutUser(c, u) PROVE FileTyped'
    <3>1. file' = [file EXCEPT !.users[u] = UserUpdated(u), !.tag = Now] /\ file.tag # 0
      BY <2>3 DEF PutUser, WriteFile
    <3>2. UserUpdated(u) \in [perm : Stamp, pw : Stamp] /\ UserUpdated(u).perm # 0
      BY <1>2 DEF UserUpdated
    <3>3. Now \in Stamp /\ Now # 0
      BY <1>2
    <3> HIDE DEF Stamp
    <3> QED
      BY <3>1, <3>2, <3>3
  <2>4. ASSUME NEW u \in Users, DeleteUser(c, u) PROVE FileTyped'
    <3>1. file' = [file EXCEPT !.users[u] = NoUser, !.tag = Now] /\ Value(req[c].res) # 0
      BY <2>4 DEF DeleteUser, WriteFile
    <3>2. file.users[u].perm # 0
      BY <2>4, <3>1 DEF DeleteUser, Value
    <3>3. NoUser \in [perm : Stamp, pw : Stamp] /\ Now \in Stamp /\ Now # 0 /\ file.tag # 0
      BY <1>2, <3>2 DEF NoUser
    <3> QED
      BY <3>1, <3>3
  <2> QED
    BY <1>2, <2>1, <2>2, <2>3, <2>4 DEF Write
<1>3. ASSUME clock < MaxWrites, NEW u \in Users, SetPassword(u) PROVE FileTyped'
  <2>1. PICK pw \in {0, Now} : file' = [file EXCEPT !.users[u].pw = pw, !.tag = Now]
    BY <1>3 DEF SetPassword, WriteFile
  <2>2. file.users[u].perm # 0 /\ pw \in Stamp /\ Now \in Stamp /\ file.tag # 0
    BY <1>3 DEF SetPassword, NoUser
  <2> DEFINE user == [file.users[u] EXCEPT !.pw = pw]
  <2>3. file' = [file EXCEPT !.users = [file.users EXCEPT ![u] = user], !.tag = Now]
    BY <2>1
  <2>4. user \in [perm : Stamp, pw : Stamp] /\ user.perm # 0
    BY <2>2
  <2>5. [file.users EXCEPT ![u] = user] \in [Users -> [perm : Stamp, pw : Stamp]]
    BY <2>4
  <2>6. \A v \in Users : [file.users EXCEPT ![u] = user][v] = IF v = u THEN user ELSE file.users[v]
    OBVIOUS
  <2> HIDE DEF user
  <2>7. file'.users = [file.users EXCEPT ![u] = user] /\ file'.tag = Now
    BY <2>3
  <2>8. file' \in [tag : Stamp, info : Stamp, keys : Stamp,
                  users : [Users -> [perm : Stamp, pw : Stamp]]]
    BY <2>2, <2>3, <2>5
  <2>9. \A v \in Users : file'.users[v].perm = 0 => file'.users[v] = NoUser
    BY <2>2, <2>4, <2>6, <2>7
  <2> QED
    BY <1>3, <2>7, <2>8, <2>9
<1>4. ASSUME clock < MaxWrites, SetKeys PROVE FileTyped'
  <2>1. PICK keys \in {0, Now} : file' = [file EXCEPT !.keys = keys, !.tag = Now]
    BY <1>4 DEF SetKeys, WriteFile
  <2>2. file.tag # 0 /\ keys \in Stamp /\ Now \in Stamp
    BY <1>4 DEF SetKeys
  <2>3. /\ file'.users = file.users /\ file'.tag # 0
        /\ file' \in [tag : Stamp, info : Stamp, keys : Stamp,
                     users : [Users -> [perm : Stamp, pw : Stamp]]]
    BY <1>4, <2>1, <2>2
  <2> QED
    BY <2>2, <2>3
<1>5. CASE UNCHANGED file
  BY <1>1, <1>5
<1>6. ASSUME NEW c \in Clients, NEW r \in Resource,
             \/ Get(c, r)
             \/ \E method \in {"put", "delete"}, cond \in Conditions : Check(c, r, method, cond)
      PROVE  UNCHANGED file
  BY <1>6 DEF Get, Check
<1>7. ASSUME Restart \/ UNCHANGED vars \/ \E c \in Clients : Error(c) PROVE UNCHANGED file
  BY <1>7 DEF Restart, vars, Error
<1> HIDE DEF FileTyped
<1> QED
  BY <1>2, <1>3, <1>4, <1>5, <1>6, <1>7, AnyStep, TokenStepLeaves

LEMMA RequestsTypedStep ==
  ASSUME TokenInv, FileTyped, RequestsTyped, [Next]_vars
  PROVE  RequestsTyped'
<1> USE StampFacts DEF RequestsTyped
<1>1. Idle \in [res : Resource \cup {<<>>}, method : {"none", "put", "delete"},
               etag : Stamp, cond : {"any", "match", "none"}]
  BY DEF Idle
<1>2. Nothing \in [res : Resource \cup {<<>>}, tag : Stamp, value : Stamp]
  BY DEF Nothing
<1>3. ASSUME NEW c \in Clients, NEW r \in Resource, Get(c, r) PROVE RequestsTyped'
  BY <1>3, ValueTyped DEF Get
<1>4. ASSUME NEW c \in Clients, NEW r \in Resource, NEW method \in {"put", "delete"},
             NEW cond \in Conditions, Check(c, r, method, cond)
      PROVE  RequestsTyped'
  BY <1>4, ValueTyped, ApiAssumption DEF Check
<1>5. ASSUME NEW c \in Clients, Done(c) PROVE RequestsTyped'
  BY <1>1, <1>2, <1>5 DEF Done
<1>6. CASE Restart
  BY <1>1, <1>6 DEF Restart
<1>7. CASE UNCHANGED <<req, saw>>
  BY <1>7
<1>8. ASSUME NEW c \in Clients, Write(c) \/ Error(c) PROVE Done(c)
  BY <1>8 DEF Write, Error, PutDesc, DeleteDesc, PutUser, DeleteUser
<1>9. ASSUME SetKeys \/ \E u \in Users : SetPassword(u) PROVE UNCHANGED <<req, saw>>
  BY <1>9 DEF SetKeys, SetPassword
<1>10. CASE Ended
  BY <1>1, <1>2, <1>10 DEF Ended
<1>11. CASE UNCHANGED vars
  BY <1>7, <1>11 DEF vars
<1> HIDE DEF RequestsTyped
<1> QED
  BY <1>3, <1>4, <1>5, <1>6, <1>7, <1>8, <1>9, <1>10, <1>11, AnyStep, TokenStepLeaves

TypeInv == TokenInv /\ FileTyped /\ RequestsTyped

LEMMA TypeInvInit == ASSUME Init PROVE TypeInv
<1>1. FileTyped
  <2>1. 0 \in Stamp /\ 1 \in Stamp /\ file \in {NoFile, LeftFile}
    BY ApiAssumption DEF Stamp, Init
  <2> QED
    BY <2>1 DEF FileTyped, NoFile, LeftFile, NoUser
<1>2. RequestsTyped
  BY StampFacts DEF Init, RequestsTyped, Idle, Nothing
<1> QED
  BY <1>1, <1>2, TokenInvInit DEF TypeInv

LEMMA TypeInvStep == ASSUME TypeInv, [Next]_vars PROVE TypeInv'
BY TokenInvStep, FileTypedStep, RequestsTypedStep DEF TypeInv, TokenInv

LEMMA TypeInvHolds == Spec => []TypeInv
<1>1. Init => TypeInv
  BY TypeInvInit
<1>2. TypeInv /\ [Next]_vars => TypeInv'
  BY TypeInvStep
<1> QED
  BY <1>1, <1>2, PTL DEF Spec

(* Both stores, and what the requests hold of them, keep their shape; a    *)
(* user or a group that is gone leaves no password behind.                 *)
THEOREM TypeCorrect == Spec => []TypeOK
<1>1. TypeInv => TypeOK
  BY DEF TypeInv, TokenInv, TokensTyped, FileTyped, RequestsTyped, TypeOK
<1> QED
  BY <1>1, TypeInvHolds, PTL

-----------------------------------------------------------------------------
(* Conditional requests.  What was got under a tag stays true of the tag.  *)

Holds(r, tag, value) ==
  /\ r = <<"desc">> /\ tag = file.tag => file.info = value
  /\ \A u \in Users : r = <<"user", u>> /\ tag = file.tag => file.users[u].perm = value
  /\ \A t \in Toks :
       r = <<"token", t>> /\ tag = tokfile.tag /\ ~ raced => tokfile.tokens[t] = value

FilePast == file.tag <= clock /\ (file.tag = 0 => file.info = 0)

SawTrue(c) ==
  \/ saw[c] = Nothing
  \/ /\ saw[c].tag # 0 /\ saw[c].tag <= clock
     /\ Holds(saw[c].res, saw[c].tag, saw[c].value)

ReqTrue(c) ==
  /\ req[c].cond = "match" =>
       req[c].res = saw[c].res /\ req[c].etag = saw[c].tag /\ saw[c].tag # 0
  /\ req[c].cond = "none" => req[c].etag = 0

(* The operation of a request changes what its client saw.                 *)
OpTrue(c) ==
  c \in work.by =>
    /\ \E t \in Toks : req[c].res = <<"token", t>>
    /\ ~ raced => /\ req[c].cond = "match" => saw[c].value = work.was
                  /\ req[c].cond # "none"

CondInv ==
  TypeInv /\ FilePast /\ \A c \in Clients : SawTrue(c) /\ ReqTrue(c) /\ OpTrue(c)

(* What exists has a tag, under which it is what it is.                    *)
LEMMA GotHolds ==
  ASSUME TypeInv, FilePast, NEW r \in Resource, Value(r) # 0,
         r[1] = "token" => work = Rest
  PROVE  ETag(r) # 0 /\ ETag(r) <= clock /\ Holds(r, ETag(r), Value(r))
<1> USE DEF TypeInv, FileTyped, FilePast, Holds
<1>1. CASE r = <<"desc">>
  <2>1. Value(r) = file.info /\ ETag(r) = file.tag
    BY <1>1 DEF Value, ETag
  <2> QED
    BY <1>1, <2>1
<1>2. ASSUME NEW u \in Users, r = <<"user", u>>
      PROVE  ETag(r) # 0 /\ ETag(r) <= clock /\ Holds(r, ETag(r), Value(r))
  <2>1. Value(r) = file.users[u].perm /\ ETag(r) = file.tag
    BY <1>2 DEF Value, ETag
  <2>2. file.tag # 0
    BY <2>1 DEF NoUser
  <2> QED
    BY <1>2, <2>1, <2>2
<1>3. ASSUME NEW t \in Toks, r = <<"token", t>>
      PROVE  ETag(r) # 0 /\ ETag(r) <= clock /\ Holds(r, ETag(r), Value(r))
  <2>1. Value(r) = Load.tokens[t] /\ ETag(r) = Load.tag
    BY <1>3 DEF Value, ETag
  <2>2. ~ tokfile.torn /\ tokfile.tag # 0
    BY <2>1, FoundInFile
  <2>3. Load.tag = tokfile.tag /\ Load.tag <= clock
    BY <2>2, LoadAgrees
  <2>4. ~ raced => Load.tokens[t] = tokfile.tokens[t]
    BY <1>3, <2>1, <2>2, LoadAgrees DEF Agrees, Has
  <2> QED
    BY <1>3, <2>1, <2>2, <2>3, <2>4
<1> QED
  BY <1>1, <1>2, <1>3 DEF Resource

(* A resource that has the tag under which something was got is just that. *)
LEMMA MatchedValue ==
  ASSUME TypeInv, NEW r \in Resource, NEW value, ETag(r) # 0, Holds(r, ETag(r), value),
         r[1] = "token" => work = Rest /\ ~ raced
  PROVE  Value(r) = value
<1> USE DEF Holds
<1>1. Value(r) # 0
  BY DEF ETag
<1>2. CASE r = <<"desc">>
  BY <1>1, <1>2 DEF Value, ETag
<1>3. ASSUME NEW u \in Users, r = <<"user", u>> PROVE Value(r) = value
  BY <1>1, <1>3 DEF Value, ETag
<1>4. ASSUME NEW t \in Toks, r = <<"token", t>> PROVE Value(r) = value
  <2>1. Value(r) = Load.tokens[t] /\ ETag(r) = Load.tag
    BY <1>1, <1>4 DEF Value, ETag
  <2>2. ~ tokfile.torn
    BY <1>1, <2>1, FoundInFile DEF TypeInv
  <2>3. Load.tag = tokfile.tag /\ Load.tokens[t] = tokfile.tokens[t]
    BY <1>1, <1>4, <2>1, <2>2, LoadAgrees DEF TypeInv, Agrees, Has
  <2> QED
    BY <1>4, <2>1, <2>3
<1> QED
  BY <1>2, <1>3, <1>4 DEF Resource

(* Every write gives its file a new tag, or removes it.                    *)
LEMMA WritesRetag ==
  ASSUME TypeInv, [Next]_vars
  PROVE  /\ file' = file \/ file' = NoFile \/ (file'.tag = Now /\ clock' = Now)
         /\ \/ tokfile'.tag = tokfile.tag /\ tokfile'.tokens = tokfile.tokens
            \/ tokfile'.tag = 0
            \/ tokfile'.tag = Now /\ clock' = Now
         /\ clock' >= clock /\ (raced => raced')
<1>0. /\ clock \in Nat /\ Now \in Nat /\ Now > clock /\ clock >= clock
      /\ file \in [tag : Stamp, info : Stamp, keys : Stamp,
                   users : [Users -> [perm : Stamp, pw : Stamp]]]
      /\ tokfile \in [tag : Stamp, tokens : [Toks -> Stamp], torn : BOOLEAN]
  BY StampFacts DEF TypeInv, FileTyped, TokenInv, TokensTyped, Now
<1> USE <1>0
<1> DEFINE Goal ==
      /\ file' = file \/ file' = NoFile \/ (file'.tag = Now /\ clock' = Now)
      /\ \/ tokfile'.tag = tokfile.tag /\ tokfile'.tokens = tokfile.tokens
         \/ tokfile'.tag = 0
         \/ tokfile'.tag = Now /\ clock' = Now
      /\ clock' >= clock /\ (raced => raced')
<1>1. ASSUME UNCHANGED <<file, tokfile, raced, clock>> PROVE Goal
  BY <1>1
<1>2. ASSUME NEW c \in Clients, Write(c) PROVE Goal
  <2>1. CASE PutDesc(c)
    BY <2>1 DEF PutDesc, WriteFile, tokenvars
  <2>2. CASE DeleteDesc(c)
    BY <2>2 DEF DeleteDesc, WriteFile, tokenvars
  <2>3. ASSUME NEW u \in Users, PutUser(c, u) PROVE Goal
    BY <2>3 DEF PutUser, WriteFile, tokenvars
  <2>4. ASSUME NEW u \in Users, DeleteUser(c, u) PROVE Goal
    BY <2>4 DEF DeleteUser, WriteFile, tokenvars
  <2> QED
    BY <1>2, <2>1, <2>2, <2>3, <2>4 DEF Write
<1>3. ASSUME NEW u \in Users, SetPassword(u) PROVE Goal
  BY <1>3 DEF SetPassword, WriteFile, tokenvars
<1>4. ASSUME SetKeys PROVE Goal
  BY <1>4 DEF SetKeys, WriteFile, tokenvars
<1>5. ASSUME Tear PROVE Goal
  BY <1>5 DEF Tear
<1>6. ASSUME Remove \/ Rename PROVE Goal
  <2>1. clock' = Now /\ UNCHANGED <<file, raced>> /\ (tokfile' = NoTokfile
           \/ tokfile' = [tag |-> Now, tokens |-> mem.tokens, torn |-> FALSE])
    BY <1>6 DEF Remove, Rename, Committed
  <2> QED
    BY <2>1 DEF NoTokfile
<1>7. ASSUME Append PROVE Goal
  BY <1>7 DEF Append, Committed
<1>8. ASSUME NEW t \in Toks, NEW value \in {0, Now}, EditTokens(t, value) PROVE Goal
  <2>1. /\ UNCHANGED file /\ clock' = Now
        /\ tokfile' = [tag |-> Now, tokens |-> [tokfile.tokens EXCEPT ![t] = value], torn |-> FALSE]
    BY <1>8 DEF EditTokens
  <2>2. raced => raced'
    BY <1>8, Zenon DEF EditTokens
  <2> QED
    BY <2>1, <2>2
<1>9. ASSUME NEW c \in Clients, NEW r \in Resource,
             \/ Get(c, r)
             \/ \E method \in {"put", "delete"}, cond \in Conditions : Check(c, r, method, cond)
      PROVE  Goal
  BY <1>1, <1>9 DEF Get, Check
<1>10. ASSUME NEW c \in Clients, Error(c) PROVE Goal
  BY <1>1, <1>10 DEF Error
<1>11. ASSUME \/ Expire \/ \E t \in Toks : MakeToken(t)
              \/ \E c \in Clients, t \in Toks : WriteToken(c, t)
       PROVE  Goal
  BY <1>1, <1>11 DEF Expire, MakeToken, WriteToken, Begin
<1>12. ASSUME Relist \/ Stat \/ Fail \/ Restart \/ (\E t \in Toks : Lapse(t)) \/ UNCHANGED vars
       PROVE  Goal
  BY <1>1, <1>12 DEF Relist, Stat, Fail, Restart, Lapse, vars
<1> HIDE DEF Goal
<1>13. ASSUME TokenStep PROVE Goal
  BY <1>5, <1>6, <1>7, <1>8, <1>11, <1>12, <1>13 DEF TokenStep
<1>14. Goal
  BY <1>2, <1>3, <1>4, <1>9, <1>10, <1>12, <1>13, AnyStep
<1> QED
  BY <1>14 DEF Goal

(* So what held under a tag of the past holds under it for good.           *)
LEMMA HoldsStays ==
  ASSUME TypeInv, [Next]_vars, NEW r, NEW tag \in Stamp, NEW value,
         tag # 0, tag <= clock, Holds(r, tag, value)
  PROVE  tag <= clock' /\ Holds(r, tag, value)'
<1>1. clock \in Nat /\ tag \in Nat /\ Now \in Nat /\ tag < Now
  BY StampFacts DEF TypeInv, TokenInv, TokensTyped, Now
<1>2. clock' \in Nat
  BY TokenInvStep, StampFacts DEF TypeInv, TokenInv, TokensTyped, Stamp
<1>3. file' = file \/ tag # file'.tag
  BY <1>1, WritesRetag DEF NoFile
<1>4. \/ tokfile'.tokens = tokfile.tokens /\ tokfile'.tag = tokfile.tag
      \/ tag # tokfile'.tag
  BY <1>1, WritesRetag
<1>5. tag <= clock'
  BY <1>1, <1>2, WritesRetag
<1>6. raced => raced'
  BY WritesRetag
<1> QED
  BY <1>3, <1>4, <1>5, <1>6 DEF Holds

LEMMA FilePastStep ==
  ASSUME TypeInv, FilePast, [Next]_vars
  PROVE  FilePast'
<1>1. /\ clock \in Nat /\ Now \in Nat /\ Now # 0 /\ Now <= Now
      /\ file.tag \in Nat
  BY StampFacts DEF TypeInv, TokenInv, TokensTyped, FileTyped, Now
<1>2. clock' \in Nat
  BY TokenInvStep, StampFacts DEF TypeInv, TokenInv, TokensTyped, Stamp
<1> QED
  BY <1>1, <1>2, WritesRetag DEF FilePast, NoFile

LEMMA SawTrueStep ==
  ASSUME CondInv, [Next]_vars, NEW c \in Clients
  PROVE  SawTrue(c)'
<1> USE DEF CondInv
<1>1. /\ saw[c].tag \in Stamp
      /\ saw \in [Clients -> [res : Resource \cup {<<>>}, tag : Stamp, value : Stamp]]
  BY DEF TypeInv, RequestsTyped
<1>2. CASE saw'[c] = saw[c]
  <2>1. PICK r, tag, value : r = saw[c].res /\ tag = saw[c].tag /\ value = saw[c].value
    OBVIOUS
  <2>2. ASSUME saw[c] # Nothing PROVE tag # 0 /\ tag <= clock' /\ Holds(r, tag, value)'
    <3>1. tag \in Stamp /\ tag # 0 /\ tag <= clock /\ Holds(r, tag, value)
      BY <1>1, <2>1, <2>2 DEF SawTrue
    <3> QED
      BY <3>1, HoldsStays
  <2> QED
    BY <1>2, <2>1, <2>2 DEF SawTrue, Holds
<1>3. CASE saw'[c] = Nothing
  BY <1>3 DEF SawTrue, Nothing
<1>4. ASSUME NEW r \in Resource, Get(c, r) PROVE SawTrue(c)'
  <2>1. /\ saw'[c] = [res |-> r, tag |-> ETag(r), value |-> Value(r)]
        /\ Value(r) # 0 /\ UNCHANGED <<file, tokfile, raced, clock>>
        /\ (r[1] = "token" => work = Rest)
    BY <1>1, <1>4 DEF Get, Touch
  <2>2. ETag(r) # 0 /\ ETag(r) <= clock /\ Holds(r, ETag(r), Value(r))
    BY <2>1, GotHolds
  <2> QED
    BY <2>1, <2>2 DEF SawTrue, Holds
<1>5. saw'[c] = saw[c] \/ saw'[c] = Nothing \/ \E r \in Resource : Get(c, r)
  <2>1. ASSUME NEW d \in Clients, NEW r \in Resource, Get(d, r), d # c PROVE saw'[c] = saw[c]
    BY <1>1, <2>1 DEF Get
  <2>2. ASSUME NEW d \in Clients, Done(d) PROVE saw'[c] = saw[c] \/ saw'[c] = Nothing
    BY <1>1, <2>2 DEF Done
  <2>3. ASSUME NEW d \in Clients, Write(d) \/ Error(d) PROVE Done(d)
    BY <2>3 DEF Write, Error, PutDesc, DeleteDesc, PutUser, DeleteUser
  <2>4. ASSUME NEW d \in Clients, NEW r \in Resource, NEW method \in {"put", "delete"},
               NEW cond \in Conditions, Check(d, r, method, cond)
        PROVE  saw' = saw
    BY <2>4 DEF Check
  <2>5. ASSUME SetKeys \/ (\E u \in Users : SetPassword(u)) \/ Restart \/ UNCHANGED vars
        PROVE  saw' = saw
    BY <2>5 DEF SetKeys, Restart, vars, SetPassword
  <2>6. ASSUME TokenStep PROVE saw'[c] = saw[c] \/ saw'[c] = Nothing
    BY <2>6, TokenStepLeaves DEF Ended
  <2> HIDE DEF CondInv
  <2> QED
    BY <2>1, <2>2, <2>3, <2>4, <2>5, <2>6, AnyStep
<1> QED
  BY <1>2, <1>3, <1>4, <1>5

LEMMA NoResource == <<>> \notin Resource
BY DEF Resource

(* The second step of a request finds the tag its first step evaluated.    *)
LEMMA ReqTrueStep ==
  ASSUME CondInv, [Next]_vars, NEW c \in Clients
  PROVE  ReqTrue(c)'
<1> USE DEF CondInv
<1>1. /\ saw \in [Clients -> [res : Resource \cup {<<>>}, tag : Stamp, value : Stamp]]
      /\ req \in [Clients -> [res : Resource \cup {<<>>}, method : {"none", "put", "delete"},
                              etag : Stamp, cond : {"any", "match", "none"}]]
  BY DEF TypeInv, RequestsTyped
<1>2. CASE saw'[c] = saw[c] /\ req'[c] = req[c]
  BY <1>2 DEF ReqTrue
<1>3. CASE req'[c] = Idle
  BY <1>3 DEF ReqTrue, Idle
<1>4. ASSUME NEW r \in Resource, NEW method \in {"put", "delete"}, NEW cond \in Conditions,
             Check(c, r, method, cond)
      PROVE  ReqTrue(c)'
  <2>1. /\ req'[c] = [res |-> r, method |-> method, etag |-> ETag(r), cond |-> cond]
        /\ saw' = saw /\ Accepts(c, r, cond)
        /\ method = "delete" \/ r[1] = "token" => Value(r) # 0
    BY <1>1, <1>4 DEF Check
  <2>2. cond = "none" => ETag(r) = 0
    BY <2>1 DEF Accepts
  <2>3. cond = "match" => saw[c].res = r /\ saw[c].tag = ETag(r) /\ saw[c].tag # 0
    BY <2>1, NoResource DEF Accepts, SawTrue, Nothing
  <2> QED
    BY <2>1, <2>2, <2>3 DEF ReqTrue
<1>5. ASSUME NEW r \in Resource, Get(c, r) PROVE ReqTrue(c)'
  BY <1>1, <1>5 DEF Get, ReqTrue, Idle
<1>6. \/ saw'[c] = saw[c] /\ req'[c] = req[c]
      \/ req'[c] = Idle
      \/ \E r \in Resource :
           \/ Get(c, r)
           \/ \E method \in {"put", "delete"}, cond \in Conditions : Check(c, r, method, cond)
  <2> DEFINE Same == saw'[c] = saw[c] /\ req'[c] = req[c]
  <2>1. ASSUME NEW d \in Clients, NEW r \in Resource, Get(d, r), d # c PROVE Same
    BY <1>1, <2>1 DEF Get
  <2>2. ASSUME NEW d \in Clients, NEW r \in Resource, NEW method \in {"put", "delete"},
               NEW cond \in Conditions, Check(d, r, method, cond), d # c
        PROVE  Same
    BY <1>1, <2>2 DEF Check
  <2>3. ASSUME NEW d \in Clients, Write(d) \/ Error(d) PROVE Same \/ req'[c] = Idle
    <3>1. Done(d)
      BY <2>3 DEF Write, Error, PutDesc, DeleteDesc, PutUser, DeleteUser
    <3> QED
      BY <1>1, <3>1 DEF Done
  <2>4. ASSUME Restart PROVE req'[c] = Idle
    BY <2>4 DEF Restart
  <2>5. ASSUME SetKeys \/ (\E u \in Users : SetPassword(u)) \/ UNCHANGED vars PROVE Same
    BY <2>5 DEF SetKeys, SetPassword, vars
  <2>6. ASSUME TokenStep PROVE Same \/ req'[c] = Idle
    BY <2>6, TokenStepLeaves DEF Ended
  <2> HIDE DEF CondInv, Same
  <2>7. \/ Same \/ req'[c] = Idle
        \/ \E r \in Resource :
             \/ Get(c, r)
             \/ \E method \in {"put", "delete"}, cond \in Conditions : Check(c, r, method, cond)
    BY <2>1, <2>2, <2>3, <2>4, <2>5, <2>6, AnyStep
  <2> QED
    BY <2>7 DEF Same
<1> QED
  BY <1>2, <1>3, <1>4, <1>5, <1>6

(* What an operation is about to replace stays what the client saw: it is  *)
(* busy with this request until the operation ends.                        *)
LEMMA OpTrueStep ==
  ASSUME CondInv, [Next]_vars, NEW c \in Clients
  PROVE  OpTrue(c)'
<1> USE DEF CondInv
<1> DEFINE Same == req'[c] = req[c] /\ saw'[c] = saw[c]
           Kept == Same /\ (c \in work'.by => c \in work.by) /\ work'.was = work.was
                        /\ (raced => raced')
<1>0. /\ saw \in [Clients -> [res : Resource \cup {<<>>}, tag : Stamp, value : Stamp]]
      /\ req \in [Clients -> [res : Resource \cup {<<>>}, method : {"none", "put", "delete"},
                              etag : Stamp, cond : {"any", "match", "none"}]]
      /\ work \in [at : {"rest", "rewrite", "rename", "append", "stat"}, by : SUBSET Clients,
                   toks : SUBSET Toks, value : Stamp, was : Stamp]
  BY DEF TypeInv, RequestsTyped, TokenInv, TokensTyped
<1>1. CASE Kept
  BY <1>1 DEF OpTrue
<1>2. CASE c \notin work'.by
  BY <1>2 DEF OpTrue
<1>3. ASSUME NEW t \in Toks, WriteToken(c, t) PROVE OpTrue(c)'
  <2>1. /\ req[c].res = <<"token", t>> /\ ETag(req[c].res) = req[c].etag
        /\ work = Rest /\ work'.was = Load.tokens[t] /\ Load.tokens[t] # 0
        /\ UNCHANGED <<req, saw, raced>>
    BY <1>3 DEF WriteToken, Matches, Begin
  <2>2. req[c].res \in Resource /\ Value(req[c].res) = Load.tokens[t]
    BY <2>1 DEF Resource, Value
  <2>3. req[c].cond # "none"
    <3>1. ETag(req[c].res) # 0
      BY <2>1, <2>2, GotHolds
    <3> QED
      BY <2>1, <3>1 DEF ReqTrue
  <2>4. ASSUME req[c].cond = "match", ~ raced PROVE saw[c].value = Load.tokens[t]
    <3>1. /\ req[c].res = saw[c].res /\ req[c].etag = saw[c].tag /\ saw[c].tag # 0
          /\ SawTrue(c)
      BY <2>4 DEF ReqTrue
    <3>2. Holds(req[c].res, ETag(req[c].res), saw[c].value) /\ ETag(req[c].res) # 0
      BY <2>1, <3>1 DEF SawTrue, Nothing
    <3>3. Value(req[c].res) = saw[c].value
      BY <2>1, <2>2, <2>4, <3>2, MatchedValue
    <3> QED
      BY <2>2, <3>3
  <2> QED
    BY <2>1, <2>3, <2>4 DEF OpTrue
<1>4. ASSUME NEW d \in Clients, NEW t \in Toks, WriteToken(d, t), d # c PROVE c \notin work'.by
  BY <1>4 DEF WriteToken, Begin
<1>5. CASE Expire \/ \E t \in Toks : MakeToken(t)
  BY <1>2, <1>5 DEF Expire, MakeToken, Begin
<1>6. CASE Stat \/ Fail \/ Remove \/ Tear \/ Restart
  BY <1>2, <1>6 DEF Stat, Fail, Remove, Tear, Restart, Ended, Rest
<1>7. CASE Relist \/ Rename \/ Append
  BY <1>0, <1>1, <1>7 DEF Relist, Rename, Append, NextStep, Committed
<1>8. CASE \E t \in Toks : Lapse(t) \/ \E value \in {0, Now} : EditTokens(t, value)
  <2>1. UNCHANGED <<req, saw, work>>
    BY <1>8 DEF Lapse, EditTokens
  <2>2. raced => raced'
    BY <1>8, Zenon DEF Lapse, EditTokens
  <2> QED
    BY <1>1, <2>1, <2>2
<1>9. CASE SetKeys \/ (\E u \in Users : SetPassword(u)) \/ UNCHANGED vars
  <2>1. UNCHANGED <<req, saw, work, raced>>
    BY <1>9 DEF SetKeys, SetPassword, vars, tokenvars
  <2> QED
    BY <1>1, <2>1
<1>10. ASSUME NEW d \in Clients, Error(d) \/ Write(d) PROVE OpTrue(c)'
  <2>1. Done(d) /\ UNCHANGED <<work, raced>>
    BY <1>10 DEF Error, Write, PutDesc, DeleteDesc, PutUser, DeleteUser, tokenvars
  <2>2. CASE d # c
    BY <1>0, <1>1, <2>1, <2>2 DEF Done
  <2>3. CASE d = c
    <3>1. c \notin work.by
      <4>1. ASSUME Write(c) PROVE req[c].res[1] # "token"
        <5>1. req[c].res = <<"desc">> \/ \E u \in Users : req[c].res = <<"user", u>>
          BY <4>1 DEF Write, PutDesc, DeleteDesc, PutUser, DeleteUser
        <5> QED
          BY <5>1
      <4>2. c \in work.by => req[c].res[1] = "token"
        BY DEF OpTrue
      <4> QED
        BY <1>10, <2>3, <4>1, <4>2 DEF Error
    <3> QED
      BY <1>2, <2>1, <3>1
  <2> QED
    BY <2>2, <2>3
<1>11. ASSUME NEW d \in Clients, NEW r \in Resource,
              \/ Get(d, r)
              \/ \E method \in {"put", "delete"}, cond \in Conditions : Check(d, r, method, cond)
       PROVE  OpTrue(c)'
  <2>1. req[d] = Idle /\ UNCHANGED <<work, raced>>
    BY <1>11 DEF Get, Check
  <2>2. CASE d # c
    BY <1>0, <1>1, <1>11, <2>1, <2>2 DEF Get, Check
  <2>3. CASE d = c
    <3>1. c \notin work.by
      BY <2>1, <2>3 DEF OpTrue, Idle
    <3> QED
      BY <1>2, <2>1, <3>1
  <2> QED
    BY <2>2, <2>3
<1> HIDE DEF CondInv, Same, Kept
<1>12. CASE TokenStep
  BY <1>2, <1>3, <1>4, <1>5, <1>6, <1>7, <1>8, <1>12 DEF TokenStep
<1> QED
  BY <1>6, <1>9, <1>10, <1>11, <1>12, AnyStep

LEMMA CondInvHolds == Spec => []CondInv
<1>1. Init => CondInv
  <2>1. ASSUME Init PROVE FilePast
    BY <2>1 DEF Init, FilePast, NoFile, LeftFile
  <2>2. ASSUME Init, NEW c \in Clients PROVE SawTrue(c) /\ ReqTrue(c) /\ OpTrue(c)
    BY <2>2 DEF Init, SawTrue, ReqTrue, Idle, OpTrue, Rest
  <2>3. ASSUME Init PROVE TypeInv
    BY <2>3, TypeInvInit
  <2> QED
    BY <2>1, <2>2, <2>3 DEF CondInv
<1>2. CondInv /\ [Next]_vars => CondInv'
  BY TypeInvStep, FilePastStep, SawTrueStep, ReqTrueStep, OpTrueStep DEF CondInv
<1> QED
  BY <1>1, <1>2, PTL DEF Spec

(* A PUT or DELETE with If-Match replaces just what its client last got,   *)
(* one with If-None-Match: * replaces nothing: checkPreconditions and the  *)
(* second comparison of tags under the mutex.  Of a token this is said of  *)
(* the moment the file is replaced, unless an editor came between.         *)
THEOREM ConditionalRequests == Spec => ConditionsHold
<1>1. ASSUME CondInv, NEW c \in Clients, Write(c) PROVE AsSeen(c, Value(req[c].res))
  <2>1. req[c].res \in Resource /\ ETag(req[c].res) = req[c].etag /\ req[c].res[1] # "token"
    <3>1. CASE PutDesc(c) \/ DeleteDesc(c)
      BY <3>1 DEF PutDesc, DeleteDesc, Matches, Resource
    <3>2. ASSUME NEW u \in Users, PutUser(c, u) \/ DeleteUser(c, u)
          PROVE  req[c].res = <<"user", u>> /\ ETag(req[c].res) = req[c].etag
      BY <3>2 DEF PutUser, DeleteUser, Matches
    <3> QED
      BY <1>1, <3>1, <3>2 DEF Write, Resource
  <2>2. ASSUME req[c].cond = "match" PROVE Value(req[c].res) = saw[c].value
    <3>1. /\ req[c].res = saw[c].res /\ req[c].etag = saw[c].tag /\ saw[c].tag # 0
          /\ SawTrue(c)
      BY <1>1, <2>2 DEF CondInv, ReqTrue
    <3>2. Holds(req[c].res, ETag(req[c].res), saw[c].value) /\ ETag(req[c].res) # 0
      BY <2>1, <3>1 DEF SawTrue, Nothing
    <3> QED
      BY <1>1, <2>1, <3>2, MatchedValue DEF CondInv
  <2>3. ASSUME req[c].cond = "none" PROVE Value(req[c].res) = 0
    <3>1. ETag(req[c].res) = 0
      BY <1>1, <2>1, <2>3 DEF CondInv, ReqTrue
    <3> QED
      BY <1>1, <2>1, <3>1, GotHolds DEF CondInv
  <2> QED
    BY <2>2, <2>3 DEF AsSeen
<1>2. ASSUME CondInv, NEW c \in Clients, NEW t \in Toks, work.by = {c}, work.toks = {t},
             Remove \/ Rename, ~ raced
      PROVE  AsSeen(c, tokfile.tokens[t])
  <2>1. work.at \in {"rewrite", "rename"}
    BY <1>2 DEF Remove, Rename
  <2>2. tokfile.tokens[t] = work.was
    BY <1>2, <2>1 DEF CondInv, TypeInv, TokenInv, Working, Rewriting
  <2> QED
    BY <1>2, <2>2 DEF CondInv, OpTrue, AsSeen
<1>3. CondInv /\ [Next]_vars =>
        [\A c \in Clients :
           /\ Write(c) => AsSeen(c, Value(req[c].res))
           /\ \A t \in Toks :
                work.by = {c} /\ work.toks = {t} /\ (Remove \/ Rename) /\ ~ raced =>
                  AsSeen(c, tokfile.tokens[t])]_vars
  BY <1>1, <1>2
<1> QED
  BY <1>3, CondInvHolds, PTL DEF Spec, ConditionsHold

(* Passwords and keys change only by the requests that are for them:       *)
(* UpdateDescription and UpdateUser take them over from the file.          *)
THEOREM SecretsSurvive == Spec => SecretsKept
<1> DEFINE Kept(u) ==
      /\ file.users[u].perm # 0 /\ file'.users[u].perm # 0
           /\ file'.users[u].pw # file.users[u].pw => SetPassword(u)
      /\ file.tag # 0 /\ file'.tag # 0 /\ file'.keys # file.keys => SetKeys
<1>1. ASSUME FileTyped, [Next]_vars, NEW u \in Users PROVE Kept(u)
  <2> USE DEF FileTyped
  <2>1. CASE file' = file
    BY <2>1
  <2>2. ASSUME NEW c \in Clients, Write(c) PROVE Kept(u)
    <3>1. CASE PutDesc(c)
      BY <1>1, <3>1 DEF PutDesc, WriteFile
    <3>2. CASE DeleteDesc(c)
      BY <3>2 DEF DeleteDesc, WriteFile, NoFile, NoUser
    <3>3. ASSUME NEW v \in Users, PutUser(c, v) PROVE Kept(u)
      <4>1. file' = [file EXCEPT !.users[v] = [file.users[v] EXCEPT !.perm = Now], !.tag = Now]
        BY <3>3 DEF PutUser, WriteFile, UserUpdated
      <4>2. file'.keys = file.keys
        BY <1>1, <4>1
      <4>3. file'.users = [file.users EXCEPT ![v] = [file.users[v] EXCEPT !.perm = Now]]
        BY <1>1, <4>1
      <4>4. file'.users[u].pw = file.users[u].pw
        BY <1>1, <4>3
      <4> QED
        BY <4>2, <4>4
    <3>4. ASSUME NEW v \in Users, DeleteUser(c, v) PROVE Kept(u)
      <4>1. file' = [file EXCEPT !.users[v] = NoUser, !.tag = Now]
        BY <3>4 DEF DeleteUser, WriteFile
      <4>2. file'.keys = file.keys
        BY <1>1, <4>1
      <4>3. file'.users = [file.users EXCEPT ![v] = NoUser]
        BY <1>1, <4>1
      <4>4. file'.users[u] = file.users[u] \/ file'.users[u].perm = 0
        BY <1>1, <4>3 DEF NoUser
      <4> QED
        BY <4>2, <4>4
    <3> QED
      BY <2>2, <3>1, <3>2, <3>3, <3>4 DEF Write
  <2>3. ASSUME NEW v \in Users, SetPassword(v) PROVE Kept(u)
    <3>1. PICK pw \in {0, Now} : file' = [file EXCEPT !.users[v].pw = pw, !.tag = Now]
      BY <2>3 DEF SetPassword, WriteFile
    <3>2. file'.keys = file.keys
      BY <1>1, <3>1
    <3>3. file'.users = [file.users EXCEPT ![v].pw = pw]
      BY <1>1, <3>1
    <3>4. u # v => file'.users[u] = file.users[u]
      BY <1>1, <3>3
    <3> QED
      BY <2>3, <3>2, <3>4
  <2>4. CASE SetKeys
    <3>1. PICK keys \in {0, Now} : file' = [file EXCEPT !.keys = keys, !.tag = Now]
      BY <2>4 DEF SetKeys, WriteFile
    <3> QED
      BY <1>1, <2>4, <3>1
  <2> HIDE DEF FileTyped
  <2>5. ASSUME NEW c \in Clients, NEW r \in Resource,
               \/ Get(c, r)
               \/ \E method \in {"put", "delete"}, cond \in Conditions : Check(c, r, method, cond)
        PROVE  file' = file
    BY <2>5 DEF Get, Check
  <2>6. ASSUME (\E c \in Clients : Error(c)) \/ Restart \/ UNCHANGED vars PROVE file' = file
    BY <2>6 DEF Error, Restart, vars
  <2> HIDE DEF Kept
  <2> QED
    BY <1>1, <2>1, <2>2, <2>3, <2>4, <2>5, <2>6, AnyStep, TokenStepLeaves
<1>2. TypeInv /\ [Next]_vars => [\A u \in Users : Kept(u)]_vars
  BY <1>1 DEF TypeInv
<1> QED
  BY <1>2, TypeInvHolds, PTL DEF Spec, SecretsKept
=============================================================================
