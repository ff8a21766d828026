----------------------------------- MODULE Api -----------------------------------
(***************************************************************************)
(* The stores behind the administration API and what its requests do to    *)
(* them: the description file of one group (group/description.go) and the  *)
(* file of stateful tokens with its copy in memory (token/stateful.go), as *)
(* the handlers of webserver/api.go and the token messages of              *)
(* rtpconn/webclient.go use them.                                          *)
(*                                                                         *)
(* A handler that changes something works in two steps: it gets the ETag   *)
(* of the resource, evaluates If-Match and If-None-Match, reads the body,  *)
(* and then calls a function that takes a mutex, compares the ETag again   *)
(* and writes.  Other handlers run between the two steps.  The functions   *)
(* of the token store take several steps of their own: the mutex keeps     *)
(* other handlers out of them, but not an editor of the file.  Writes of   *)
(* files may fail, and the server may crash.                               *)
(*                                                                         *)
(* Sizes and modification times, hence ETags, are numbers that grow with   *)
(* every write; the contents written are numbers too.  Changes of the      *)
(* description by other means are in module Registry.                      *)
(***************************************************************************)
EXTENDS Naturals, FiniteSets

CONSTANTS
  Clients,     \* users of the API, and operators with the permission "token"
  Users,       \* users of the description, the wildcard user one of them
  Toks,        \* the names of tokens
  Conditions,  \* the headers requests have
  MaxWrites    \* bound on the changes of the two files

ASSUME ApiAssumption ==
  /\ MaxWrites \in Nat \ {0}
  /\ Conditions \subseteq {"any", "match", "none"}

VARIABLES
  file,      \* the description file
  tokfile,   \* the token file
  mem,       \* state: tokens, and the tag of the file they were read from
  req,       \* the request each client has in the middle of its handler
  saw,       \* the resource each client last got, with its ETag
  work,      \* the operation of the token store that has the mutex
  raced,     \* the file was edited in the middle of such an operation
  told,      \* the tokens, as of the last success anybody was told of
  old,       \* the tokens that expired a week ago
  clock

vars == <<file, tokfile, mem, work, raced, req, saw, told, old, clock>>

Resource == {<<"desc">>} \cup ({"user"} \X Users) \cup ({"token"} \X Toks)

(* A user that has perm 0 does not exist, and pw 0 is no password.         *)
NoUser == [perm |-> 0, pw |-> 0]
NoFile == [tag |-> 0, info |-> 0, keys |-> 0, users |-> [u \in Users |-> NoUser]]
NoToken == [t \in Toks |-> 0]
NoTokens == [tag |-> 0, tokens |-> NoToken]
NoTokfile == [tag |-> 0, tokens |-> NoToken, torn |-> FALSE]
Idle == [res |-> <<>>, method |-> "none", etag |-> 0, cond |-> "any"]
Nothing == [res |-> <<>>, tag |-> 0, value |-> 0]

(* An operation of the token store: whose it is (nobody's, if not that of  *)
(* a request), which token gets what value, and what it had before.        *)
Rest == [at |-> "rest", by |-> {}, toks |-> {}, value |-> 0, was |-> 0]

Now == clock + 1

(* What an earlier server left: a group with its users, their passwords    *)
(* and its keys, or none; some tokens, or none.                            *)
LeftFile == [tag |-> 1, info |-> 1, keys |-> 1, users |-> [u \in Users |-> [perm |-> 1, pw |-> 1]]]
LeftTokens(some) ==
  IF some = {} THEN NoTokfile
  ELSE [tag |-> 1, tokens |-> [t \in Toks |-> IF t \in some THEN 1 ELSE 0], torn |-> FALSE]

Init ==
  /\ file \in {NoFile, LeftFile}
  /\ \E some \in SUBSET Toks : tokfile = LeftTokens(some)
  /\ mem = NoTokens /\ told = tokfile.tokens /\ work = Rest /\ raced = FALSE
  /\ req = [c \in Clients |-> Idle] /\ saw = [c \in Clients |-> Nothing]
  /\ old = {} /\ clock = 1

-----------------------------------------------------------------------------
(* The token store, whose functions have tokens.mu.  Every one of them     *)
(* begins with load.                                                       *)

LoadCached == mem    \* mutant: what is in memory is not looked up again

Load ==
  IF tokfile.tag = 0 \/ tokfile.torn THEN NoTokens
  ELSE IF mem.tag = tokfile.tag THEN mem
  ELSE [tag |-> tokfile.tag, tokens |-> tokfile.tokens]

-----------------------------------------------------------------------------
(* What a request finds.                                                   *)

Value(r) ==
  CASE r[1] = "desc" -> file.info
    [] r[1] = "user" -> file.users[r[2]].perm
    [] r[1] = "token" -> Load.tokens[r[2]]

(* GetDescriptionTag, GetUserTag, token.Get: the tag of the file if the    *)
(* resource exists.                                                        *)
ETag(r) ==
  IF Value(r) = 0 THEN 0 ELSE IF r[1] = "token" THEN Load.tag ELSE file.tag

(* A request for a token waits for the mutex.                              *)
Touch(r) ==
  IF r[1] = "token" THEN work = Rest /\ mem' = Load ELSE mem' = mem

(* GET.                                                                    *)
Get(c, r) ==
  /\ req[c] = Idle /\ Value(r) # 0
  /\ saw' = [saw EXCEPT ![c] = [res |-> r, tag |-> ETag(r), value |-> Value(r)]]
  /\ Touch(r)
  /\ UNCHANGED <<file, tokfile, work, raced, req, told, old, clock>>

(* checkPreconditions.  Clients that got the resource first send If-Match; *)
(* the others send If-None-Match: *, or no condition.                      *)
Accepts(c, r, cond) ==
  CASE cond = "any" -> saw[c] = Nothing
    [] cond = "match" -> saw[c].res = r /\ saw[c].tag = ETag(r)
    [] cond = "none" -> saw[c] = Nothing /\ ETag(r) = 0

(* PUT and DELETE, up to the end of the body.  What does not exist cannot  *)
(* be deleted; a token that does not exist cannot be put either, since the *)
(* handler looks at the group of the token that is not there.              *)
Check(c, r, method, cond) ==
  /\ req[c] = Idle
  /\ method = "delete" \/ r[1] = "token" => Value(r) # 0
  /\ Accepts(c, r, cond)
  /\ req' = [req EXCEPT ![c] = [res |-> r, method |-> method, etag |-> ETag(r), cond |-> cond]]
  /\ Touch(r)
  /\ UNCHANGED <<file, tokfile, work, raced, saw, told, old, clock>>

-----------------------------------------------------------------------------
(* The second step, under groups.mu or the mutex of the tokens.            *)

UnmatchedIfExists(c, r) == ETag(r) = 0 => req[c].etag = 0   \* mutant

Matches(c, r) == ETag(r) = req[c].etag

Done(c) == req' = [req EXCEPT ![c] = Idle] /\ saw' = [saw EXCEPT ![c] = Nothing]

WriteFile(new) == file' = new /\ clock' = Now

tokenvars == <<tokfile, mem, work, raced, told, old>>

(* UpdateDescription: users and keys are those of the file.                *)
PutDesc(c) ==
  /\ req[c].res = <<"desc">> /\ req[c].method = "put" /\ Matches(c, req[c].res)
  /\ WriteFile([file EXCEPT !.info = Now, !.tag = Now])
  /\ Done(c) /\ UNCHANGED tokenvars

(* DeleteDescription.                                                      *)
DeleteDesc(c) ==
  /\ req[c].res = <<"desc">> /\ req[c].method = "delete" /\ Matches(c, req[c].res)
  /\ file.tag # 0
  /\ WriteFile(NoFile)
  /\ Done(c) /\ UNCHANGED tokenvars

UserFromScratch(u) == [perm |-> Now, pw |-> 0]     \* mutant: the password is lost
UserUpdated(u) == [file.users[u] EXCEPT !.perm = Now]

(* UpdateUser: the password is that of the file.                           *)
PutUser(c, u) ==
  /\ req[c].res = <<"user", u>> /\ req[c].method = "put" /\ Matches(c, req[c].res)
  /\ file.tag # 0
  /\ WriteFile([file EXCEPT !.users[u] = UserUpdated(u), !.tag = Now])
  /\ Done(c) /\ UNCHANGED tokenvars

DeleteUser(c, u) ==
  /\ req[c].res = <<"user", u>> /\ req[c].method = "delete" /\ Matches(c, req[c].res)
  /\ Value(req[c].res) # 0
  /\ WriteFile([file EXCEPT !.users[u] = NoUser, !.tag = Now])
  /\ Done(c) /\ UNCHANGED tokenvars

(* SetUserPassword and SetKeys, unconditional and in one step.             *)
SetPasswordOfAny(u) ==     \* mutant: whether the user exists is not checked
  /\ file.tag # 0
  /\ \E pw \in {0, Now} : WriteFile([file EXCEPT !.users[u].pw = pw, !.tag = Now])
  /\ UNCHANGED <<req, saw>> /\ UNCHANGED tokenvars

SetPassword(u) ==
  /\ file.users[u].perm # 0
  /\ \E pw \in {0, Now} : WriteFile([file EXCEPT !.users[u].pw = pw, !.tag = Now])
  /\ UNCHANGED <<req, saw>> /\ UNCHANGED tokenvars

SetKeys ==
  /\ file.tag # 0
  /\ \E keys \in {0, Now} : WriteFile([file EXCEPT !.keys = keys, !.tag = Now])
  /\ UNCHANGED <<req, saw>> /\ UNCHANGED tokenvars

(* A mismatch, a resource or a group that is gone, or a write that failed: *)
(* the client gets an error.                                               *)
Error(c) ==
  /\ req[c] # Idle /\ c \notin work.by
  /\ Touch(req[c].res) /\ Done(c)
  /\ UNCHANGED <<file, tokfile, work, raced, told, old, clock>>

-----------------------------------------------------------------------------
(* Operations of the token store begin, with the mutex and load: memory is *)
(* changed before the file is, except for a new token.                     *)

Begin(at, by, toks, value, was) ==
  /\ work = Rest
  /\ work' = [at |-> at, by |-> by, toks |-> toks, value |-> value, was |-> was]
  /\ UNCHANGED <<file, tokfile, raced, req, saw, told, old, clock>>

(* state.Update of a token that exists, state.Delete.                      *)
WriteToken(c, t) ==
  LET value == IF req[c].method = "put" THEN Now ELSE 0
  IN
  /\ req[c].res = <<"token", t>> /\ Matches(c, req[c].res) /\ Load.tokens[t] # 0
  /\ mem' = [Load EXCEPT !.tokens[t] = value]
  /\ Begin("rewrite", {c}, {t}, value, Load.tokens[t])

(* owly.go's ticker calls Expire, which forgets old tokens.                *)
Forgotten == [t \in Toks |-> IF t \in old THEN 0 ELSE Load.tokens[t]]

Expire ==
  /\ Forgotten # Load.tokens
  /\ mem' = [Load EXCEPT !.tokens = Forgotten]
  /\ Begin("rewrite", {}, {}, 0, 0)

(* Tokens come from POST and from the message "maketoken", under a random  *)
(* name: Update calls add.                                                 *)
MakeToken(t) ==
  /\ ~ tokfile.torn /\ Load.tokens[t] = 0 /\ tokfile.tokens[t] = 0
  /\ mem' = Load
  /\ Begin("append", {}, {t}, Now, 0)

-----------------------------------------------------------------------------
(* They go on: rewrite writes memory, as its list loads it once more, into *)
(* a file that it then renames, or removes the file when there is nothing  *)
(* to write; add appends a line.  The tag comes from a stat that follows.  *)

Given(tokens) == [t \in Toks |-> IF t \in work.toks THEN work.value ELSE tokens[t]]

(* The change is in the file: whoever asked for it will hear of a success. *)
Committed ==
  /\ told' = Given(told) /\ old' = old \ work.toks
  /\ clock' = Now
  /\ UNCHANGED <<file, raced>>

Ended ==
  /\ work' = Rest
  /\ req' = [c \in Clients |-> IF c \in work.by THEN Idle ELSE req[c]]
  /\ saw' = [c \in Clients |-> IF c \in work.by THEN Nothing ELSE saw[c]]

NextStep(at) == work' = [work EXCEPT !.at = at] /\ UNCHANGED <<req, saw>>

Remove ==
  /\ work.at = "rewrite" /\ mem.tokens = NoToken
  /\ tokfile' = NoTokfile
  /\ Committed /\ Ended /\ UNCHANGED mem

Relist ==
  /\ work.at = "rewrite" /\ mem.tokens # NoToken
  /\ mem' = Load
  /\ NextStep("rename") /\ UNCHANGED <<file, tokfile, raced, told, old, clock>>

Rename ==
  /\ work.at = "rename"
  /\ tokfile' = [tag |-> Now, tokens |-> mem.tokens, torn |-> FALSE]
  /\ Committed /\ NextStep("stat") /\ UNCHANGED mem

Append ==
  /\ work.at = "append"
  /\ tokfile' = [tokfile EXCEPT !.tokens = Given(@), !.tag = Now]
  /\ mem' = [mem EXCEPT !.tokens = Given(@)]
  /\ Committed /\ NextStep("stat")

(* The line of the new token is cut short: no space left, or a crash.      *)
Tear ==
  /\ work.at = "append"
  /\ tokfile' = [tokfile EXCEPT !.torn = TRUE, !.tag = Now]
  /\ clock' = Now
  /\ Ended /\ UNCHANGED <<file, mem, raced, told, old>>

Stat ==
  /\ work.at = "stat"
  /\ mem' = [mem EXCEPT !.tag = tokfile.tag]
  /\ Ended /\ UNCHANGED <<file, tokfile, raced, told, old, clock>>

(* A failed write leaves the file, and Update and Delete put the memory    *)
(* back; Expire does not.                                                  *)
NotPutBack == mem    \* mutant: memory keeps what could not be written

PutBack == [mem EXCEPT !.tokens = [t \in Toks |-> IF t \in work.toks THEN work.was ELSE @[t]]]

Fail ==
  /\ work.at \in {"rewrite", "rename", "append"}
  /\ mem' = PutBack
  /\ Ended /\ UNCHANGED <<file, tokfile, raced, told, old, clock>>

-----------------------------------------------------------------------------
(* A week after it expired.                                                *)
Lapse(t) ==
  /\ tokfile.tokens[t] # 0 /\ old' = old \cup {t}
  /\ UNCHANGED <<file, tokfile, mem, work, raced, req, saw, told, clock>>

(* An administrator edits the token file, and mends it, at any time.       *)
EditTokens(t, value) ==
  /\ tokfile.tag # 0
  /\ tokfile' = [tag |-> Now, tokens |-> [tokfile.tokens EXCEPT ![t] = value], torn |-> FALSE]
  /\ told' = [told EXCEPT ![t] = value] /\ old' = old \ {t}
  /\ raced' = (raced \/ work # Rest)
  /\ clock' = Now
  /\ UNCHANGED <<file, mem, work, req, saw>>

Restart ==
  /\ mem' = NoTokens /\ work' = Rest
  /\ req' = [c \in Clients |-> Idle]
  /\ UNCHANGED <<file, tokfile, raced, saw, told, old, clock>>

-----------------------------------------------------------------------------
(* A request of a client changes the group's file.                         *)
Write(c) ==
  \/ PutDesc(c) \/ DeleteDesc(c)
  \/ \E u \in Users : PutUser(c, u) \/ DeleteUser(c, u)

Next ==
  \/ \E c \in Clients, r \in Resource :
       \/ Get(c, r)
       \/ \E method \in {"put", "delete"}, cond \in Conditions : Check(c, r, method, cond)
  \/ \E c \in Clients : Error(c)
  \/ Expire \/ Relist \/ Stat \/ Fail \/ Restart
  \/ \E t \in Toks : Lapse(t)
  \/ /\ clock < MaxWrites
     /\ \/ \E c \in Clients : Write(c) \/ \E t \in Toks : WriteToken(c, t)
        \/ \E u \in Users : SetPassword(u)
        \/ SetKeys \/ Remove \/ Rename \/ Append \/ Tear
        \/ \E t \in Toks : MakeToken(t) \/ \E value \in {0, Now} : EditTokens(t, value)

Spec == Init /\ [][Next]_vars

-----------------------------------------------------------------------------
Stamp == 0..MaxWrites

TypeOK ==
  /\ file \in [tag : Stamp, info : Stamp, keys : Stamp,
               users : [Users -> [perm : Stamp, pw : Stamp]]]
  /\ \A u \in Users : file.tag = 0 \/ file.users[u].perm = 0 => file.users[u] = NoUser
  /\ tokfile \in [tag : Stamp, tokens : [Toks -> Stamp], torn : BOOLEAN]
  /\ mem \in [tag : Stamp, tokens : [Toks -> Stamp]]
  /\ work \in [at : {"rest", "rewrite", "rename", "append", "stat"}, by : SUBSET Clients,
               toks : SUBSET Toks, value : Stamp, was : Stamp]
  /\ raced \in BOOLEAN
  /\ req \in [Clients -> [res : Resource \cup {<<>>}, method : {"none", "put", "delete"},
                          etag : Stamp, cond : {"any", "match", "none"}]]
  /\ saw \in [Clients -> [res : Resource \cup {<<>>}, tag : Stamp, value : Stamp]]
  /\ told \in [Toks -> Stamp] /\ old \subseteq Toks /\ clock \in Stamp

(* A PUT or DELETE with If-Match replaces just what its client last got,   *)
(* and one with If-None-Match: * replaces nothing, although the headers    *)
(* are evaluated before the body is read and the mutex taken.  For a token *)
(* this is said of the moment the file is replaced or removed, unless an   *)
(* editor came between.                                                    *)
AsSeen(c, value) ==
  /\ req[c].cond = "match" => value = saw[c].value
  /\ req[c].cond = "none" => value = 0

ConditionsHold ==
  [][\A c \in Clients :
       /\ Write(c) => AsSeen(c, Value(req[c].res))
       /\ \A t \in Toks :
            work.by = {c} /\ work.toks = {t} /\ (Remove \/ Rename) /\ ~ raced =>
              AsSeen(c, tokfile.tokens[t])]_vars

(* No request changes the password of a user, or the keys, but the ones    *)
(* that are for it, and those that delete the user or the group.           *)
(* UpdateDescription and UpdateUser take them over from the file.          *)
SecretsKept ==
  [][\A u \in Users :
       /\ file.users[u].perm # 0 /\ file'.users[u].perm # 0
            /\ file'.users[u].pw # file.users[u].pw => SetPassword(u)
       /\ file.tag # 0 /\ file'.tag # 0 /\ file'.keys # file.keys => SetKeys]_vars

(* stateful.go: "A set of stateful tokens, kept in sync with a JSONL       *)
(* representation in a file".  Memory has the tag of the file only if the  *)
(* tokens are the same, those set aside that are to be forgotten anyway.   *)
(* The comment goes on: "The synchronisation is slightly racy"; an edit in *)
(* the middle of an operation is overwritten, or goes unnoticed, and the   *)
(* two properties say nothing of a store that had one.                     *)
InSync ==
  work = Rest /\ ~ raced /\ mem.tag # 0 /\ mem.tag = tokfile.tag =>
    \A t \in Toks \ old : mem.tokens[t] = tokfile.tokens[t]

(* The file holds every token as it was last successfully made, changed or *)
(* edited until it is long expired, and none that was deleted: what is     *)
(* written is what is in memory, so memory must not be older than the file *)
(* when an operation begins, nor keep what could not be written.           *)
AsTold == ~ raced => \A t \in Toks \ old : tokfile.tokens[t] = told[t]
=============================================================================
