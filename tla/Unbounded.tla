------------------------------ MODULE Unbounded ------------------------------
(***************************************************************************)
(* The unbounded channel of unbounded/unbounded.go and the loops that      *)
(* drain it (clientLoop in rtpconn/webclient.go, readLoop in               *)
(* rtpconn/rtpreader.go).                                                  *)
(*                                                                         *)
(* A channel is a mutex-protected slice plus a Go channel Ch of capacity   *)
(* one whose only purpose is to wake the consumer.  Put appends inside the *)
(* critical section but signals AFTER leaving it, so another Put, or the   *)
(* consumer's Get, may run between the two halves.  What has to be right   *)
(* is that no element is ever left in the slice with nobody left to wake   *)
(* the consumer.                                                           *)
(***************************************************************************)
EXTENDS Naturals, Sequences

CONSTANTS
  Producers,   \* goroutines that call Put
  MaxPuts      \* bound on the number of Puts in a behaviour

ASSUME MaxPutsAssumption == MaxPuts \in Nat

VARIABLES
  queue,       \* Channel.queue, guarded by Channel.mu
  signal,      \* number of tokens in Channel.Ch, a chan struct{} of capacity 1
  pending,     \* producers that have unlocked mu and not yet reached the select
  consumer,    \* where the consumer's loop stands: "select", "get" or "handle"
  batch,       \* the elements the consumer got and has not handled yet
  accepted,    \* history: every element, in the order Put appended it
  handled      \* history: every element, in the order the consumer handled it

vars == <<queue, signal, pending, consumer, batch, accepted, handled>>

(***************************************************************************)
(* Elements are told apart by their position in the order of the Puts and  *)
(* by the producer that put them.                                          *)
(***************************************************************************)
Element == [by : Producers, n : 1..MaxPuts]

Init ==
  /\ queue = <<>>
  /\ signal = 0
  /\ pending = {}
  /\ consumer = "select"
  /\ batch = <<>>
  /\ accepted = <<>>
  /\ handled = <<>>

(* Put's `empty`, read under the lock before the append.                   *)
EmptyReadAfterAppend(q) == FALSE   \* mutant: the test made after the append

Empty(q) == q = <<>>

(* Put up to mu.Unlock(): only a producer that found the slice empty goes  *)
(* on to signal.                                                           *)
Put(p) ==
  LET e == [by |-> p, n |-> Len(accepted) + 1] IN
  /\ p \notin pending
  /\ Len(accepted) < MaxPuts
  /\ queue' = Append(queue, e)
  /\ accepted' = Append(accepted, e)
  /\ pending' = IF Empty(queue) THEN pending \cup {p} ELSE pending
  /\ UNCHANGED <<signal, consumer, batch, handled>>

(* The non-blocking send on Ch: if it already holds its one token, the     *)
(* default branch drops the new one.                                       *)
SendWithoutDefault(tokens) == tokens + 1   \* mutant: an unbounded Ch
SendNeverReady(tokens) == tokens           \* mutant: Ch made without a buffer

Send(tokens) == 1

Signal(p) ==
  /\ p \in pending
  /\ pending' = pending \ {p}
  /\ signal' = Send(signal)
  /\ UNCHANGED <<queue, consumer, batch, accepted, handled>>

(* The consumer's select takes the token.                                  *)
Wake ==
  /\ consumer = "select"
  /\ signal = 1
  /\ signal' = 0
  /\ consumer' = "get"
  /\ UNCHANGED <<queue, pending, batch, accepted, handled>>

(* Get "may be called at any time": a consumer need not wait for a token.  *)
(* The two loops of the server always do, but the channel must not depend  *)
(* on it, and it is what makes the default branch of Put reachable.        *)
Poll ==
  /\ consumer = "select"
  /\ consumer' = "get"
  /\ UNCHANGED <<queue, signal, pending, batch, accepted, handled>>

(* Get takes the whole slice and leaves nil behind.                        *)
Kept(q) == q         \* mutant: ch.queue is not cleared

Cleared(q) == <<>>

Get ==
  /\ consumer = "get"
  /\ batch' = queue
  /\ queue' = Cleared(queue)
  /\ consumer' = "handle"
  /\ UNCHANGED <<signal, pending, accepted, handled>>

(* One iteration of the range over the elements that Get returned.         *)
Handle ==
  /\ consumer = "handle"
  /\ batch # <<>>
  /\ handled' = Append(handled, Head(batch))
  /\ batch' = Tail(batch)
  /\ UNCHANGED <<queue, signal, pending, consumer, accepted>>

(* The range is exhausted and the loop goes back to its select.            *)
Resume ==
  /\ consumer = "handle"
  /\ batch = <<>>
  /\ consumer' = "select"
  /\ UNCHANGED <<queue, signal, pending, batch, accepted, handled>>

Next ==
  \/ \E p \in Producers : Put(p) \/ Signal(p)
  \/ Wake
  \/ Poll
  \/ Get
  \/ Handle
  \/ Resume

(* A producer past its critical section, and a running consumer, are       *)
(* goroutines the Go scheduler does not starve.  Nothing makes anyone      *)
(* call Put.                                                               *)
Fairness ==
  /\ \A p \in Producers : WF_vars(Signal(p))
  /\ WF_vars(Wake) /\ WF_vars(Get) /\ WF_vars(Handle) /\ WF_vars(Resume)

Spec == Init /\ [][Next]_vars /\ Fairness

-----------------------------------------------------------------------------

TypeOK ==
  /\ queue \in Seq(Element)
  /\ signal \in {0, 1}
  /\ pending \subseteq Producers
  /\ consumer \in {"select", "get", "handle"}
  /\ batch \in Seq(Element)
  /\ accepted \in Seq(Element)
  /\ handled \in Seq(Element)

(* Put's promise "If ch was previously empty, it triggers ch.Ch": whenever *)
(* the slice is non-empty there is a token in Ch, or a producer about to   *)
(* send one, or a consumer that already took one and has not called Get.   *)
NoLostWakeup ==
  queue # <<>> => \/ signal = 1
                  \/ pending # {}
                  \/ consumer = "get"

(* Nothing is lost, duplicated or reordered on the way from Put to the     *)
(* consumer: what was handled, followed by what is in flight, is what was  *)
(* put.                                                                    *)
Fifo == handled \o batch \o queue = accepted

(* The channel and its consumer implement the reliable mailbox that the    *)
(* rest of the server takes them for: the order is kept and every element  *)
(* put is eventually handled, the wake-up protocol notwithstanding.        *)
Box == INSTANCE Mailbox WITH sent <- accepted, received <- handled

IsMailbox == Box!Spec

(* The part of it that does not depend on fairness.                        *)
IsSafeMailbox == Box!SafeSpec

=============================================================================
