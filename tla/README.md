# A TLA+ model of Owly

Owly (a fork of Galene) is a videoconference server: a Go process that keeps
*groups* in memory, a websocket per browser, and an SFU that forwards the RTP
packets of each sender to the receivers; and a JavaScript client,
`protocol.js`, on which the user interface `owly.js` is built.  This directory
holds TLA+ modules translated from that code, the TLC configurations that check
them, and proofs that TLAPS checks.  `PROJECT.json` is the index: the runs, the
lines each definition stands for, the hazards the properties are aimed at, the
disagreements found between code and comments, the theorems.

Paths below are relative to `src/`.

## 1. The system

### 1.1 Components, their state, and what makes them correct

| Component | State | Operations | Hard behaviour | Correct when |
|---|---|---|---|---|
| unbounded channel (`unbounded/unbounded.go`) | a slice under a mutex, a wake-up channel of capacity one | `Put`, `Get` | the signal is sent after the unlock | no wake-up is lost, order is kept |
| group membership (`group/group.go`: `AddClient`, `DelClient`, `autoLockKick`, `SetLocked`) | `g.clients`, `g.locked` under `g.mu` | join, leave, replacement with a resume token, locks, autokick | everybody is told after `g.mu` is released, some of it by goroutines | the table of users of each browser is the group; limits hold; replaced sessions go |
| session loop (`rtpconn/webclient.go`: `clientLoop`, `handleAction`, `handleClientMessage`) | `c.group`, `c.permissions`, the queue of actions, streams | one message or one action at a time | queued actions outlive what they speak of | a stray notification is harmless |
| browser side (`static/protocol.js`) | table of users, stored resume token, streams | apply messages | messages arrive late, or not at all | it shows what the server knows |
| session of a page (`protocol.js`, `owly.js`) | `serverConnection`, sockets, `reconnectPending`, timers, kept credentials | log in, join, be kicked, time out, reconnect | connections outlive their place in the global; timers, awaits | no socket is left behind; "Reconnecting..." ends |
| identity of a tab (`protocol.js`) | `window.name`, local and session storage, probes on a channel | open, reload, duplicate, probe, split | two tabs share one storage; answers come late | one client id per tab; a token only where it is valid |
| file transfer (`protocol.js`, `owly.js`) | a `TransferredFile` on either page, a data channel | offer, accept, candidates, chunks, cancel | each side may end it in every `await` of the other | Done means received; both sides end |
| camera (`owly.js`) | up streams, captures, operation tokens, filters | present, replace, filter, mute, stop, disconnect | the user's answer, a filter's start and the socket come in any order | no capture unseen; the server follows; the overtaken is silent |
| filters and worker (`owly.js`, `background-blur-worker.js`) | timer, worker, timeouts | start, draw, restart, hide, stop | requests to a worker that was terminated meanwhile | no worker beside the filter's |
| what a page receives and sends (`owly.js`, `webclient.go`) | requests, tracks, bitrate | choose, resize, measure | refreshes are deferred and merged | what flows is what was last asked |
| participants (`owly.js`) | rows, tiles, presence, grace timers | roster and stream events, layout | roster and streams arrive independently | one row per user; nobody who left comes back |
| recovery of streams (`owly.js`) | alarms, steps, cooldowns | restart ICE, republish, give up | cooldowns overlap | a stream does not stay failed; giving up is last |
| group registry (`group/group.go`: `Add`, `Delete`, `Update`; `group/description.go`) | `groups.groups`, `g.description`, `g.timestamp` | load, reload, expire, publish | a pointer returned by `Add` outlives the registration | memory follows the files; no group vanishes under its clients |
| files and administration API (`group/description.go`, `webserver/api.go`, `precondition.go`) | one JSON file per group, ETags | conditional GET, PUT, DELETE of groups, users, keys, passwords | read, check, read the body, check again and write | no update is lost; passwords and keys survive an edit |
| stateful tokens (`token/stateful.go`) | a map, its file, the file's tag | add, update, delete, expire | append or rewrite may fail in the middle | memory is in sync with the file |
| cryptographic tokens (`token/jwt.go`, `token/token.go`) | none | parse, check | none | pure |
| permissions (`group/description.go`, `webclient.go`) | slices shared by clients | `setPermissions`, `add`, `remove` | slices edited in place, from other goroutines | one client's change does not reach another |
| chat history, group data | a list bounded to 50, data maps | add, expire, clear, reactions | bound, deletion while listing | history is a suffix of what was said |
| configuration | a cached file | `GetConfiguration`, `UpdateConfiguration` | size, time and hash | reload on change |
| stream distribution (`rtpconn.go`, `webclient.go`) | up and down connections of a session | push, replace, request, close | pushed 200 ms late, and again on request | every subscriber gets every stream, once |
| offer/answer (`webclient.go`, `static/protocol.js`) | one negotiation at a time, a flag, queued candidates | offer, answer, renegotiate, abort | answers late or never; the page awaits its peer connection and goes on receiving | the last state of the tracks is negotiated |
| packet forwarding (`rtpreader.go`, `rtpwriter.go`) | a pool of goroutines with bounded queues | add, delete, write | a writer dies while it is being used | each packet reaches each track that stays |
| packet cache (`packetcache/packetcache.go`) | a ring, a loss bitmap | store, get, resize | indices survive a resize, 16-bit wrap | a packet found is the packet asked for |
| sequence number map (`packetmap/packetmap.go`) | delta, a ring of intervals | `Map`, `Drop`, `Reverse` | late packets, wrap, retransmissions in between | one number per packet, for good |
| congestion control, statistics, codecs | targets, counters | RTCP, reports | floating targets | no stated invariant |
| recording (`diskwriter/diskwriter.go`) | a client that writes files | push, kick, close | it takes `g.mu` when kicked under `g.mu` | no deadlock |
| WHIP (`webserver/whip.go`, `rtpconn/whipclient.go`) | one up connection with an ETag | POST, PATCH, DELETE | restart against trickled candidates | as the API |
| web server, TURN, ICE, main, `owlyctl`, pages, deployment | little | | sequential | |

How they meet: the HTTP handlers and the websocket handshake get a group from
the registry (`group.Add`) and join it (`AddClient`); a session is told of
other sessions by *actions* put into its unbounded channel; an up track hands
packets to writers through bounded channels and to RTCP listeners through the
packet cache; down tracks renumber them with a packet map; the browser applies
what the session writes to its websocket.  The API and editors change files
that the registry reads again, at most once a minute and in `Update`.  In the
page, everything runs in one thread: what interleaves are the continuations
of `await`, timers, events of sockets and peer connections, and what the user
does meanwhile; handlers find out by comparing `this` with a global, or a token
with the newest one.

### 1.2 Hazards

`PROJECT.json` lists them at their lines.  Those with properties are covered
by the runs below; those without have a note saying why.

## 2. The modules

| Module | What it is | Code |
|---|---|---|
| `Unbounded` | the channel with its producers and its consumer loop | `unbounded.go`, `webclient.go` 1078–1107 |
| `Mailbox` | abstract: a FIFO mailbox | what `Unbounded` implements |
| `Membership`, `MCMembership` | sessions, group, browsers | `group.go` 639–891, `webclient.go` 996–1584, `protocol.js` |
| `Registry`, `MCRegistry` | one group name, its file, its instances | `group.go` 191–640, 1473–1551, `description.go` |
| `PacketMap` | renumbering of packets on a down track | `packetmap.go`, `rtpconn.go` 225–310, 792–836 |
| `Api`, `MCApi` | the description file and the token store under the administration API | `api.go`, `precondition.go`, `description.go` 325–439, 588–783, `stateful.go` |
| `FileTransfer` | one file from page to page | `protocol.js` 2014–2761, and its rows in `owly.js` |
| `TabIdentity` | keys, ids and tokens of tabs | `protocol.js` 29–398 |
| `Reconnect` | login, socket, watchdog, reconnection | `owly.js`, `protocol.js` 413–1015 |
| `Camera` | up streams and captures of a page | `owly.js`, `protocol.js` 1052–1863 |
| `Filter` | one video filter and its worker | `owly.js` 4759–6970, `background-blur-worker.js` |
| `ReceiveRate`, `SendRate` | what is asked for, pushed and encoded | `owly.js`, `webclient.go` 780–1190 |
| `Participants` | user list and tiles | `owly.js`, `protocol.js` |
| `Recovery` | revival of a failed stream | `owly.js` 4345–7481 |
| `Negotiation` | one stream between server and page | `webclient.go` 594–1686, `protocol.js` 811–1903 |
| `MCParts` | the parts without common state, in one run | |
| `UnboundedProofs`, `MembershipProofs`, `RegistryProofs`, `ApiProofs`, `FilesProofs`, `PageProofs`, `NegotiationProofs`, `PartsProofs` | theorems | |

Mutants sit beside the definition they change, marked as such; each is a bug
that the code could plausibly have, and breaks the property it is listed with.

### 2.1 Unbounded and Mailbox

Variables are the fields of `Channel` (`queue`, and the wake-up channel `Ch`
as a Boolean), the elements a producer is putting, and where the consumer
stands.  `Put` is two steps, the critical section and the signal, because the
code unlocks in between.  The consumer is `clientLoop`: poll at the top of the
loop, wake, `Get`, handle one element after the other.

`Mailbox` is the contract: what was put and not handled is a sequence;
handling takes its head.  `Unbounded` is shown to implement it by the
refinement mapping *batch being handled, then the slice*.

### 2.2 Membership

A *session* is a `*webClient`, one websocket connection; a browser (an *id*)
may have several over time.  The steps are those between which another
goroutine may run: `Join` (the call of `Add`), `Insert` (the critical section
of `AddClient`), `Greet`, `Look` and `Announce` (one turn of the loop over the
snapshot of the others: the permissions of the other are read, and pushed a
step later), `Enter`; `Leave`/`Disconnect` (the first critical section of
`DelClient`), `TellLeft`, `Left` (`autoLockKick`); `Handle` (one queued
action); the messages of operators; `Push` (one turn of a goroutine started
by a permission change or by autokick).  The map of clients, the lock and the
browser's side (`roster`, `view`, `stored`) are variables of their own, so
that "the browser knows what the server knows" can be said.

Abstracted: credentials are the users' names, and only the permission "op" is
kept; a token is a fresh number.  A join that fails has no effect here.

### 2.3 Registry

One name.  The file has a version (which stands for size and modification
time), it may be unreadable or absent; `registered` is `groups.groups[name]`;
instances that were removed from the map but are still pointed to stay.  `Add`
is atomic (it holds both mutexes); `AddClient` is `Join` and `Insert`, two
steps.  `Update` is the walk of the code, one step per critical section.

Membership and Registry share `AddClient`: in `Membership` the group is there
and `Add` only runs `autoLockKick`; in `Registry` what happens to members is
reduced to their presence.

### 2.4 PacketMap

The fields of `Map` modulo a small number space `W`, all constants in the
code's proportion (`Far` is an eighth of `W`).  Two writers, the loop of the
track and a retransmission, each in the middle of `Write` at most once.  `due`
is a history: the number owed to each recent packet, its own less the packets
dropped before it.  Picture ids change with `delta` and are left out.

### 2.5 Api

`file` is the description of one group, with its users, their passwords and
its keys; `tokfile` is the token file and `mem` the fields of `state` in
`stateful.go`.  A `PUT` or `DELETE` is two steps, as in the handlers of
`api.go`: `Check` takes the ETag, evaluates the conditions and reads the body;
then one of `PutDesc`, `DeleteDesc`, `PutUser`, `DeleteUser`, `WriteToken`
runs under the mutex and compares the tag again, or `Error` ends the request.
`edittoken` of `webclient.go` is such a request on a token, `maketoken` and
`POST` are `MakeToken`.  Passwords and keys are set in one step, without
conditions.

A function of the token store is a chain of steps, because the mutex keeps
other handlers out but not an editor of the file: `WriteToken`, `Expire` and
`MakeToken` load and change memory (`Begin`); `rewrite` then removes the file
(`Remove`), or loads it once more for its list (`Relist`), renames the new file
into its place (`Rename`) and takes its tag (`Stat`); `add` appends (`Append`)
and takes the tag.  `work` is the operation that has the mutex.  Any of the
writes may fail (`Fail`, with `PutBack` for those who undo their change), an
append may be cut short (`Tear`), the server may restart in the middle.  An
administrator edits the file at any time, and `raced` remembers that it was in
the middle of an operation: such an edit is overwritten, or goes unnoticed
("The synchronisation is slightly racy", `stateful.go` 46), and `InSync` and
`AsTold` say nothing of a store that had one.

A modification time with a size is a number that no other write has; contents
are numbers too, zero for what is not there.  `saw`, `told` are histories: what
a client last got, and the tokens as anybody was last told.  `old` is the
clock's part: tokens whose date is a week past.

### 2.6 The page's modules

In all of them a step is what a page runs between two waits: an `await` on
something outside of it, a timer, an event.  Handlers that touch several
fields are operators on a record, composed in the order of the calls.

* `FileTransfer`: `f` is the `TransferredFile` of either page with the
  function that is suspended in it (`busy`) and its row (`shown`); `wire` the
  user messages the server forwards, `chan` the data channel.  A file is a
  number of chunks.
* `TabIdentity`: `tab` is a browsing context (window name, session storage,
  page), `local` the storage all tabs share, `probes` and `acks` the channel.
  A page remembers what it last asked to join with (`auth` and `asked`, which
  are `reconnectState`): a reconnection uses it, a join that is refused, unless
  for its authorisation, or given up leaves it behind, and the next connection
  from the login form prepares its identity for that name (`Prepared`) while it
  joins with the form's.
  Random values are fresh numbers; one number may be a key, an id, a token.
* `Reconnect`: `serverConnection` is the global and `conn` every connection
  object, with its socket, whether its handlers still see it as the global's,
  the reason it closes with, and its join.  `probing`, `auth`, `method` and
  `ui` are the login; `media` the wish to present.
* `Camera`: `strm` are the up streams, `live` the tracks of captures that run,
  `chain` the operations in the order of their tokens (`version` is the newest
  token) and where the first of them waits, `starts` the filters that are
  starting, and `server` the streams the server has.
* `Filter`: the fields of one `Filter`, its owner, its workers, and where
  `start` and `draw` wait (`starting`, `drawing`).  A worker that was
  terminated never answers: the request ends by its timer.
* `ReceiveRate`: the user's choice and the size of the tile give a request;
  the server picks the tracks (`pushDownConn`).  `SendRate`: choice, device,
  filter and load give the encoder's limit.
* `Participants`: `pg` is the page (roster, streams, presence, rows, tiles,
  layout), `net` the session.  Grace periods are timers that may fire at any
  time.
* `Recovery`: of time, which of a cooldown and an alarm comes first.
* `Negotiation`: what is agreed on is a version of the tracks and a generation
  of ICE.  Both ends, both directions of messages, queued candidates; either
  direction of the stream is an initial state.

`MCParts` chooses a part at the start, runs it, and leaves the variables of
the others at one initial value; each invariant of a part is required only
where the part runs.  That explores each part by itself, not their products:
they share no variable.  `PacketMap` is one of them.

## 3. The runs

| Run | Question | Instance | States |
|---|---|---|---|
| `unbounded` | is a wake-up or an element ever lost, is it a mailbox, with delivery | 3 producers, 5 puts | small |
| `membership` | do browsers know the group, the lock, their rights; does autolock hold | an operator and two users, one join each, one unlock (the group is locked until then) or demotion, room for two | 450 000 |
| `membership_resume` | are replaced sessions closed and gone, tokens usable, limits kept | one browser with two sessions and another user, two joins each, room for one | 93 000 |
| `membership_operators` | does the promoted user learn of it; does autokick empty a group without operators | an operator and a user, one message of any kind but demotion | 296 000 |
| `roster_ghost` | *violation*: a ghost in the table of users | an operator and two users | |
| `redirect_crash` | *violation*: a join that ends in a redirect | two users | |
| `registry` | does memory follow the file; do groups with clients stay | a file that changes three times, one client, HTTP handlers | 175 000 |
| `registry_join` | *violation*: joined to a group that is no longer registered | as above | |
| `parts` | what each page module, `Negotiation` and `PacketMap` promise: see 3.3 | one part per behaviour, bounds below | 376 000 |
| `packets_longrun` | *violation*: no drop for almost the whole number space | one drop, 31 packets | |
| `api` | are conditional requests, secrets and tokens safe between check and write, in the middle of an operation, and when writes fail | two clients, one user, two tokens, two writes after any start | 1 480 000 |
| `camera_frozen` | *violation*: the server keeps a camera that is gone | three streams, two captures, three operations | |

Why the bounds are enough. *Unbounded*: a lost wake-up needs two puts and a
`Get`; three producers give every overlap. *Membership*: the hazards involve a
newcomer, somebody who leaves, and a third who watches or acts; two sessions of
one browser are the only replacement there is, and a chain of them repeats it.
One message of an operator (`MaxActs`) meets every step of the joins and
departures of the other; with three sessions and privileges that change at any
time a run is too long, and `ViewsAreExact` is proved for every number.
*Registry*: three changes allow absent–present–absent and a change during each
step of `Update`; sessions are independent except through presence.
*PacketMap*: seven packets fill a ring of three intervals and overwrite it, and
cross the wrap from the second start; lateness (`Recent`) stays below the ring
size, as the cache's (at most 1024 packets, usually much fewer) need not: with
one drop per packet the ring of 128 covers 256 packets, older ones are refused.
*Api*: two writes from a start with files of every kind put a foreign write
between any two steps of a request; two tokens show whether a rewrite keeps the
other one; a third client would only be another foreign write. *FileTransfer*:
two chunks put a cancel between chunks, one candidate per page fills each
queue. *TabIdentity*: two tabs share a key; six acts allow a duplicate, a
reload, a reconnection and a change of name in a row, or a refused join and two
more under either name. *Reconnect*: of two connections one is in use and one
lingers; two attempts are a first, a last and giving up. *Camera*: three
operations let one be overtaken twice, or once by a disconnection; three
streams are a replacement of a replacement. *ReceiveRate*: three pushes replace
a stream, a replaced one, and one while a request is due. *Participants*: one
user with two streams of both kinds gives every overlap of roster and stream;
users meet only in the layout. *Recovery*: seven failures go through all steps
twice. *Negotiation*: one change of tracks, one restart of ICE and one
candidate of each side, at any time of an offer, two messages under way; the
part also passes with two of each (189 000 states), too slow to keep beside the
others. *Filter*: one worker is alive at a time, which is what `WorkersKnown`
says, so that three identities leave room to be wrong. Theorems hold without
the bounds.

Deadlock is not checked where joins, puts or messages are bounded and the
system then stops (`CHECK_DEADLOCK FALSE`), nor in `parts`, where a transfer
that is over or a bound that is reached leaves nothing to do; it is in
`Registry`.

### 3.1 Fairness

*Unbounded*: weak fairness of the signal step of a `Put` that has begun and of
the consumer. The Go scheduler runs every runnable goroutine; nobody is made to
put. *Membership*: the goroutine of a session proceeds once it has started
something, the goroutines it starts run, and a session whose close frame is
queued is disconnected: `clientWriter` stops at the close frame and a
connection on which nothing arrives dies after `deadClientTimeout`. Nobody is
made to join, leave or act. *Registry*: `Update` runs for ever (the ticker in
`owly.go` starts it every fifteen minutes) and a minute passes. *PacketMap* and
*Api* have no liveness. In the parts, `Progress` names what is fair:
*FileTransfer*, messages of an open socket arrive, promises settle, timers
fire, and chunks flow through an open channel (that the channel opens is NOT
assumed: the peer connections of a transfer have neither a handler of a failed
ICE state nor a timeout); *Reconnect*, sockets open or close, the watchdog and
the reconnection timer fire; *Recovery*, alarms fire and operations of the
camera end; *Negotiation*, messages are received and the peer connection's
promises settle; *Filter*, a request to a worker ends by its answer or by its
timer (`workerSendReceive` always sets one), videos play or fail, images load
or fail. Weak fairness of the whole disjunction is enough and is all that is
assumed. No user need act, and ICE need not recover.

### 3.2 What the violations show

* `roster_ghost`: `AddClient` announces a snapshot after releasing `g.mu`; a
  member that leaves first is deleted, then added, in the newcomer's queue.
* `redirect_crash`: `AddClient` succeeds, `handleClientMessage` returns on the
  redirect before `c.group = g`, and the notification already queued
  dereferences `c.group`.
* `registry_join`: between `Add` and the insertion the empty group may expire.
* `packets_longrun`: `count` of the newest interval passes half the number
  space.  With the constants of the code: 32 771 packets after the last drop
  requests for retransmission and late packets begin to be refused, and from
  57 346 to 65 538 they are answered with the packet before.  A stream whose
  layers change rarely, like a camera that steps down once, gets there in
  under a minute of video at a thousand packets per second.

* `camera_frozen`: reopening the camera closes the old stream as replaced and
  then waits for `getUserMedia`; when that is refused, or overtaken, no offer
  names the old stream and the server keeps it.

### 3.3 What `parts` shows

* `Files_Safe`, `Files_Ends`: Done means received, once; no candidate is lost;
  what ended stays ended, and ends on the other side too; an accepted transfer
  ends once its pages have found each other, or its sender has left.
* `Identity_Own`: no two connected tabs share an id; a token is presented only
  for the id and name it was given for, whatever name the identity was prepared
  for; and an id survives reloads and reconnections, from a connection whose
  identity was prepared for the name it joined with to the next such one.
* `Session_NoStray`, `Session_Settles`: no second socket; a page that says
  Reconnecting... has a cause, and gets to the group or to the login form.
* `Camera_Accounted`: every running capture is one the page shows; one camera
  stream; what the server has is sent, about to be replaced, or forgotten by
  an operation that failed (which `camera_frozen` is about); a filter in use
  draws while the page is seen and knows its only worker.
* `Camera_OvertakenIsSilent`: an overtaken operation never puts a stream up.
* `Rates_Follow`: requests, pushed tracks and encoder are what the choices,
  layout and load call for, in whatever order they came.
* `Participants_Consistent`: rows are the roster with current status, tiles
  have streams, nobody who left reappears.
* `Streams_Negotiated`, `Streams_Recover`: one offer at a time, the last state
  agreed on, candidates kept; offers answered, failures ended, the connection
  given up last, no filter waits for ever for its worker.
* `Packets_Sent`: one number per packet, retransmissions included.

## 4. The proofs

For every value of the constants, under the named assumptions of the modules
(finite sets, bounds that are naturals).

* `UnboundedProofs`: `TypeCorrect`, `WakeupSafe`, `OrderKept`,
  `ChannelIsMailbox`.
  `NoLostWakeup` is inductive with `TypeOK` as it is stated, since it counts
  the signals still on their way.  The refinement is proved step by step: each
  action puts, handles, or stutters.
* `MembershipProofs`: `TypeCorrect` needs that the set of goroutines is finite
  (a fresh name must exist: `NumberLeft`, `FreshIsToken`).  `CapacityHolds`
  follows from `MembersChange`: an insertion adds at most one ordinary member,
  and only where `Full` was tested in the same step.  `ReplacedAreClosed` is
  strengthened with what is known of a session between its insertion and its
  entry: its victim is the session it replaced.  `NoGhosts` uses that and
  assumes `~Redirected`: with a redirect it is false.

  What the others are told is proved from what may be in a queue, and who put
  it there: `QueueSteps` and `AsyncSteps` say once for all actions why a
  session is sent an action (`Source`), `PcSteps` where its goroutine goes
  next, `LoopsTell` that a loop over pushes forgets nobody.  On these rest:
  - `PanicFree`: nobody tells a session anything before it is in the group,
    nor after (`Untold`).  It needs that no join ends in a redirect
    (`redirect_crash` is what happens otherwise) and that no client sends
    "leave" and joins again.
  - `LastOpAlwaysLocks`: an operator that believes to be in the group is in it
    (`Privileged`, `Seated`), so that nobody unlocks a group without
    operators.  It needs that an operator is not replaced while it acts, or
    else that nobody unlocks (`OneOperatorPerId`): a session that has been
    replaced goes on handling messages until it sees its close frame, and may
    unlock after the last operator's departure has locked.
  - `NewcomersAreSpared`: whom the description appoints is an operator as soon
    as it is in the map (`Appointed`), so that no snapshot taken without an
    operator holds one, nor the queue of one a kick of the goroutine
    (`KicksOrdinary`).  It needs that nobody takes privileges away by hand:
    somebody demoted is in the snapshot like any other member.  No run checks
    it: a newcomer needs a second session of the operator, with which TLC takes
    too long beside liveness (1 390 000 states, no error, with `Sessions` =
    {a1, o, o2} and no messages).
  - `ViewsAreExact`: a browser that is told it is in the group knows the lock
    and its privileges, or a notification that will make it read them again is
    in its queue, or `SetLocked` has not reached it yet (`Informed`).
  - `RostersAreComplete`: of two members, each is in the other's table, or in
    its queue, or one of the two is about to announce (`Acquainted`), and only
    those that go are deleted (`Departures`).  It needs `OneSessionPerId`: a
    browser that is back before its departure was announced is deleted.
  - `TokensAreStored` (`Resumable`): all sessions of an id that may still write
    to its browser have the token of the member (`Shared`), because one that
    replaces another takes over its token and closes it; and while somebody may
    still be inserted under an id that has no member, which would mint a new
    token, nobody writes (`Silent`).  It needs `AtMostThreePerId`, and three is
    exact: TLC shows a counterexample with four (see 5).
* `RegistryProofs`: `TypeCorrect` (the clients of an instance are the sessions
  in it; no description is newer than the file) and `OccupiedRemains`, an
  action property that rests on it.
* `ApiProofs`: all five properties of `Api`. `InSync` and `AsTold` are
  inductive together (`TokenInv`) once it is known that no tag is of the
  future, so that the tag of a write is a new one (`TagsPast`), and that memory
  under the tag of the file only lacks old tokens (`UpToDate`). In the middle
  of an operation they say by its step what memory and file hold: the change is
  in memory and not in the file (`Rewriting`), in neither (`Appending`), or in
  both but for the tag (`Retagging`). `ConditionsHold` needs that what was got
  under a tag stays true of the tag (`Holds`, `HoldsStays`), and that a request
  in the middle remembers the tag its condition was evaluated on (`ReqTrue`).
* `FilesProofs` (for `PartsProofs.FilesAreSafe`): the two ends and the socket
  between them are in step.  `FilesInv` says for every state of the sender
  which states of the receiver and which messages under way go with it
  (`Rows`, `Handshake`, `Channel`), that a candidate is applied, queued or
  under way (`Kept`), and that the offer leads whatever the sender sends
  (`OfferLeads`).  `EndedForGood` proves that what ended stays ended, the
  action property within `Files_Ends`.
* `PageProofs`, on two parts of the page.  Tabs (for `TokensAreOurs`,
  `IdentitiesAreOwn`): a token is shown only for the id and the name a page
  joins with, whatever the delays and whatever name its identity was prepared
  for (`IdentityInv`: one prepared for another name has lost its token);
  that two connected tabs share no id
  needs that an answer comes within the 150 ms a tab waits for it (`Timely`;
  `OwnerInv`).  People (for `PeopleAreShown`): `PageInv` says of each user
  what the row, the tiles and the layout show, by the state of the connection
  (`SettledFor`: `RowOk`, `TileOk`, `ShownOk`), of the streams that a local id
  is inherited with its owner (`Ids`), and of the grace periods that a timer
  is that of a stream under its local id (`TimersOk`).  Every handler is a
  chain of small changes, each described by what it does and leaves alone
  (`Refreshed`, `MediaSet`, `Deleted`, `ClosedIn`, `OnlyOf`), and a step on one
  user is looked at for that user only.  Loops over the streams are recursive
  functions over the numbers of the offers: that such a function is defined,
  and keeps what each of its steps keeps, is proved once (`RunsOn`,
  `StaysIn`), by induction as a fact about sets of numbers, from the
  well-foundedness of their order.
* `NegotiationProofs` (for `StreamsNegotiated`): one token goes round, the
  offer on its way, the promise it waits for, or its answer (`Token`), and the
  offering side knows that it is somewhere.  What the place of the token says
  of both sides' terms is `DownTerms` and `UpTerms`; a restart that is owed is
  remembered until the answer (`Remembered`).  The first offer leads
  (`DownFirst`, `UpFirst`), which is why a candidate never reaches an end that
  does not exist yet, and `ServersAre` and `PagesAre` say where each candidate
  is.  Flushing candidates in any order loses none because they are finitely
  many (`NegotiationAssumption`, `FlushedAre`).
* `PartsProofs`: the steps of `MCParts` are those of one part or leave its
  variables alone, so what is proved of a part holds of the run
  (`SessionSteps` and the like; `SameFilesNext` and the like where the part is
  proved about in a module of its own: the two instances of it define the same,
  for `Participants` operator by operator).
  `SessionsAreOurs`: `NoStraySocket` and `PendingHasCause` are inductive
  together with the shape of the connections (`SessionInv`).  Most handlers
  only take connections down, which `Lower` says once for all of them: no
  socket comes up, none is forgotten before it has closed.
  `OvertakenEnds` rests on `CameraInv`: only the first operation of the chain
  has begun (`Lined`), and a filter that an operation waits for is that of the
  first (`Awaited`).  `GivenUpLast` follows from `RestartFirst`: beyond the
  first step, ICE was restarted since it last worked.
  `CamerasAccounted` proves what `Camera_Accounted` says of captures, streams
  and server, from `CameraOk`: whatever operation is not overtaken is the last
  of the chain and of the connection in use, and has closed the stream it
  replaces by the time it asks for the camera (`OpsOk`); what the server has
  was offered, and is up, replaced, about to be, or forgotten (`ServerOk`).
  `FiltersAccounted` proves what it says of filters, from
  `FilterInv`: beside the properties, that a filter in use no longer starts,
  that one of the past awaits no frame (`PastIsOver`), and that its timer and
  its pause are opposites of each other, as the page is seen (`FollowsPage`).
  `Receiving` and `Sending` are the inductive invariants of `ReceiveRate` and
  `SendRate`; `RatesFollow` follows from both.

Only model-checked: liveness (`ReplacedGoes`, `LastOpKicks`, `CatchesUp`,
`Forgets`, `PublicServed`, delivery in `Mailbox`), for which the prover has no
means, and the same of the parts (`Files_Ends`, `Session_Settles` and
`Streams_Recover`, but for the conjuncts that `EndedForGood` and `GivenUpLast`
prove); `TypeOK` of `MCParts`; and `Packets_Sent`, whose
arithmetic is modulo a parameter, and which needs a ring that is long enough
and a stream that does not go on for ever (run `packets_longrun`).

## 5. Known limits

True of the code, met while modelling, and kept out of the passing runs by
their bounds:

* The kind "leave" of a join message is handled by the server and never sent
  by the client of the repository.  With it, a session that leaves and joins
  again meets notifications of its earlier membership: `NeverPanics` and
  `Resumable` fail.  Only `membership_operators` allows it.  Nor do the passing
  runs have joins that end in a redirect (`redirect_crash`).
* A browser that is back under its id before its old session's departure was
  announced is deleted from the others' tables, for as long as it stays:
  `DelClient` announces by the id, after `g.mu` was released, and the new
  session has been announced by then (`RosterComplete` with `Sessions` =
  {a1, a2, b}).
* A member promoted between the snapshot of autokick and its kick, by an
  operator who has come back, is kicked.
* What a browser shows of the OTHERS' privileges may stay wrong, and no property
  speaks of it: two changes are announced by two goroutines, in any order; the
  "add" of a newcomer carries the permissions of the moment before (`Look`);
  and a change of a user's data (`webclient.go` 2145-2160) is announced by a
  third goroutine with the permissions of its moment.  The server never asks
  the tables; what a browser knows of its own rights is `ViewExact`.
* An operator's session that has been replaced handles messages until it sees
  its close frame: it may unlock a group whose last operator has left
  (`LastOpLocks` with two sessions of one operator and "lock").
* With four sessions of one id in turn and a change of the lock or of the
  privileges (or with five, and none), one whose successor is still announcing
  when it is itself replaced, and its replacement leaves, is not closed yet:
  what it is told then stores its old token after a later one has joined anew
  (`Resumable`, which holds of three sessions of an id).
* A resume into an autolock group whose operator has left is refused.
* In `PacketMap`: the third caller of the map, `sendSequence`
  (`rtpwriter.go` 209-224, 262), which sends a new track its keyframe, is left
  out; a writer that sleeps between `Reverse` and `Map` while the
  stream advances by 8192 starts the map anew (`InTime` excludes it); after
  8192 drops in a row a missing packet is not covered (`MaxDrops` < `Far`).
* In `Api`: two writes of the same size within one tick of the file system's
  clock have the same ETag; the model gives each its own.  An append cut short
  makes the whole token file unreadable until it is mended (`Tear`).  `PUT` of
  a token that does not exist dereferences the missing token and ends in a
  recovered panic; the model has no such request.  An edit of the token file in
  the middle of an operation is lost, or makes the operation be lost although
  it was answered with success, or gets the tag of memory that does not hold it
  (`raced` excludes what follows it); an editor does not come within one
  reading of the file.  A `rewrite` whose second load fails puts the token back
  into a nil map; in the model that load does not fail.
* `FileTransfer`: an empty file never completes. `cancel` throws when the
  socket is closed, so that the transfer is never closed; nor does the end of
  the socket close transfers. The peer connections of a transfer have no
  handler of a failed ICE state and no timeout, so that an accepted transfer
  whose pages find no way to each other stays until somebody cancels it. A
  receiver that is done may be shown Cancelled.
* `TabIdentity`: an answer that takes more than 150 ms leaves two tabs with one
  id (`Timely`); of two duplicated tabs, one loses its id (`cloned`).  After a
  join that was refused, otherwise than for authorisation, a user who logs in
  under another name has the identity prepared for the first name and the
  connection made under the second (`owly.js` 499), so that the next login or
  reconnection under the second name draws another id, although
  `protocol.js` 169 calls it stable (`SurvivesRefresh` fails without its
  premises about `as`).
* `Reconnect`: `PresentationKept`, `FailsItself` and `ProbeAnswered` fail and
  are not checked: several failures in a row may forget that the user was
  presenting, a failing join may close the connection after its own, and
  a probe may end without an answer.
* `Camera`: `gotJoined` puts the camera up when no operation is under way,
  where the code has no such guard; the camera button takes no token (`left`);
  a stream closed while its filter starts leaks the filter; a capture that is
  granted to `addShareMedia` after the disconnection goes on running; a change
  of device during the first opening is ignored; a change of filter during
  `replaceUpStream` is lost.
* `Filter`: a filter removed while a frame is with its worker gets a new worker
  when the frame's timer fires, and nobody terminates that one
  (`WorkersAlwaysEnd` fails; `outlived` marks it).  The fallback for repeated
  timeouts cannot be reached: a restarted worker that loads resets the count,
  and without one no frame is sent; after a restart that failed the filter
  stays on and sends nothing (`NeverBlank` fails).  Unplugging a camera with a
  filter stops the filter and leaves the stream, and hiding and showing the
  page starts it again (`ended`).  A `beforeunload` that is cancelled leaves
  filters paused (`unloading`).  Pixels, the order in which two background
  images finish, and the guards against two restarts at once (a draw waits, so
  there never are two) are left out.
* `ReceiveRate`: when the sender replaces its stream, the new one is sent with
  the tracks of the old request, which nobody asks to change
  (`LargeIsAlwaysFull`, `ChoiceObeyed` fail; `unasked`).  `forceDownRate` is
  never called.  `SendRate`: `setParameters` does not fail, and is not awaited.
* `Participants`: `TrackLost` also fires for a stream whose tracks' listeners
  were removed (`clearDownstreamTrackLifecycle`), which only refreshes a row
  once more; a placeholder may outlive a deleted user whose stream lasts
  longer than its grace; a user who is deleted and comes back while the stream
  is open has no tile until its next event (`orphan`); `offline` is never
  shown; several cameras of a user, screen shares, spotlight and solo layouts,
  playback and the streams of an abandoned connection are left out.
* `Recovery`: a stream that stays "disconnected" is not revived, as its health
  is not yet poor when the event comes; a republished camera starts with a
  fresh record, so that its escalation starts again.
* `Negotiation`: a server candidate written between the snapshot of a new
  stream's offer and its write is ignored by the page; `abort` throws when the
  connection is gone; the fallback for old browsers and the replace id lost
  when a negotiation is postponed are left out.
* Read only, not modelled: `remove` edits slices that clients share;
  `deleteFunc` deletes the last element when nothing matches;
  `Shutdown` kicks recordings while holding the locks they take.

## 6. Not modelled

* Distribution of streams in a group (`pushConn`, its 200 ms timer, the lists
  of connections of several sessions): one receiver's side is in `ReceiveRate`
  and one stream's negotiation in `Negotiation`; a group of sessions with
  streams is beyond what a run of `Membership`'s size leaves room for.
* Forwarding (`rtpreader.go`, `rtpwriter.go`) and the packet cache: what they
  hand to a down track is renumbered in `PacketMap`.
* Recording: its lock order against `Shutdown` is a hazard without a property.
* Permissions as slices: the hazard is their aliasing, which values do not have.
* Chat history, group data, configuration: bounded lists and caches under one
  mutex, sequential.
* Chat, settings, screen sharing, spotlight and solo layouts, speakers and
  moderation menus of the page; the administration pages: presentation and
  forms over what is modelled.
* Codecs, statistics, rate and time arithmetic, congestion control: numbers
  without a stated invariant.  Tokens by signature: pure.
* WHIP, web server, TURN, ICE configuration, `main`, `owlyctl`, deployment:
  sequential, or I/O.
