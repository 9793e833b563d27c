----------------------------- MODULE Publisher -----------------------------
(***************************************************************************)
(* The RabbitMQ publisher, rabbitmq/publisher.go: producers call           *)
(* Broadcast, BroadcastRevert and BroadcastFinalized, which are sends on   *)
(* three unbuffered channels; the Run loop receives one message at a time  *)
(* and publishes it to the fanout exchange configured for its stream, or   *)
(* skips it when that exchange name is empty.  Marshalling and publishing  *)
(* may fail; the failure is logged and the message dropped.                *)
(*                                                                         *)
(* A message is abstracted to who sent it, its position among that         *)
(* producer's calls and its stream; the exchanges record what the broker   *)
(* has accepted.                                                           *)
(***************************************************************************)
EXTENDS Naturals, Sequences, SequencesExt, FiniteSets

CONSTANTS Producers,               \* goroutines calling Broadcast*
          EventsExchange,          \* cfg.EventsExchange ("" disables)
          RevertEventsExchange,    \* cfg.RevertEventsExchange
          FinalizedEventsExchange, \* cfg.FinalizedEventsExchange
          MaxCalls                 \* bound on Broadcast* calls per producer

ASSUME MaxCalls \in Nat

Streams == {"broadcast", "broadcastRevert", "broadcastFinalized"}

\* The exchange each stream is configured to publish to.
ExchangeOf(c) ==
    CASE c = "broadcast"          -> EventsExchange
      [] c = "broadcastRevert"    -> RevertEventsExchange
      [] c = "broadcastFinalized" -> FinalizedEventsExchange

ExchangeNames == {EventsExchange, RevertEventsExchange, FinalizedEventsExchange}

Message == [from: Producers, n: 1..MaxCalls, stream: Streams]

NoMsg == [from |-> "none", n |-> 0, stream |-> "none"]

\* Outcomes of publishing one message: json.Marshal fails, client.Publish
\* fails, or the broker takes it.
Outcomes == {"marshalError", "publishError", "ok"}

VARIABLES
    running,    \* Run has been called on its goroutine
    chans,      \* stream -> producers' messages blocked on its channel, FIFO
    busy,       \* the message Run received and is publishing, or NoMsg
    exchanges,  \* exchange name -> messages the broker accepted, in order
    calls       \* producer -> Broadcast* calls made so far

vars == <<running, chans, busy, exchanges, calls>>

Blocked(p) == \E c \in Streams : \E i \in 1..Len(chans[c]) : chans[c][i].from = p

-----------------------------------------------------------------------------

\* NewRabbitMqPublisher (with a non-nil client), before Run.
Init ==
    /\ running = FALSE
    /\ chans = [c \in Streams |-> <<>>]
    /\ busy = NoMsg
    /\ exchanges = [x \in ExchangeNames |-> <<>>]
    /\ calls = [p \in Producers |-> 0]

\* go publisher.Run()
Run ==
    /\ ~running
    /\ running' = TRUE
    /\ UNCHANGED <<chans, busy, exchanges, calls>>

\* Mutant: the send is made asynchronous, the caller does not wait.
BroadcastAsync(p, c) ==
    /\ calls[p] < MaxCalls
    /\ calls' = [calls EXCEPT ![p] = @ + 1]
    /\ chans' = [chans EXCEPT ![c] =
                   Append(@, [from |-> p, n |-> calls[p] + 1, stream |-> c])]
    /\ UNCHANGED <<running, busy, exchanges>>

\* Broadcast, BroadcastRevert, BroadcastFinalized: a blocking send.
Broadcast(p, c) ==
    /\ ~Blocked(p)
    /\ calls[p] < MaxCalls
    /\ calls' = [calls EXCEPT ![p] = @ + 1]
    /\ chans' = [chans EXCEPT ![c] =
                   Append(@, [from |-> p, n |-> calls[p] + 1, stream |-> c])]
    /\ UNCHANGED <<running, busy, exchanges>>

\* Mutant: the select has lost its broadcastFinalized case.
ReceiveNoFinalizedCase(c) ==
    /\ c # "broadcastFinalized"
    /\ running
    /\ busy = NoMsg
    /\ chans[c] # <<>>
    /\ busy' = Head(chans[c])
    /\ chans' = [chans EXCEPT ![c] = Tail(@)]
    /\ UNCHANGED <<running, exchanges, calls>>

\* Run: the select takes the head sender of one ready channel.
Receive(c) ==
    /\ running
    /\ busy = NoMsg
    /\ chans[c] # <<>>
    /\ busy' = Head(chans[c])
    /\ chans' = [chans EXCEPT ![c] = Tail(@)]
    /\ UNCHANGED <<running, exchanges, calls>>

\* Mutant: the empty-name check is lost and the stream is always published.
PublishEnabledAlways(c) == TRUE

\* publishToExchanges / publishRevertToExchange / publishFinalizedToExchange:
\* the stream is published only when its exchange name is not empty.
PublishEnabled(c) == ExchangeOf(c) # ""

\* publishFanout: client.Publish on the exchange with an empty routing key.
PublishFanout(x, m) == exchanges' = [exchanges EXCEPT ![x] = Append(@, m)]

\* The three publish* handlers: skip a disabled stream; otherwise marshal,
\* return on a marshal error, publish, and only log a publish error.
Publish ==
    /\ busy # NoMsg
    /\ \E outcome \in Outcomes :
          IF PublishEnabled(busy.stream) /\ outcome = "ok"
          THEN PublishFanout(ExchangeOf(busy.stream), busy)
          ELSE UNCHANGED exchanges
    /\ busy' = NoMsg
    /\ UNCHANGED <<running, chans, calls>>

\* Every producer has made its calls and the loop idles in its select: an
\* explicit stuttering step, so that any other end state is a deadlock.
Quiescent ==
    /\ running /\ busy = NoMsg
    /\ \A c \in Streams : chans[c] = <<>>
    /\ \A p \in Producers : calls[p] = MaxCalls
    /\ UNCHANGED vars

Next ==
    \/ Run
    \/ \E p \in Producers, c \in Streams : Broadcast(p, c)
    \/ \E c \in Streams : Receive(c)
    \/ Publish
    \/ Quiescent

\* The Run loop takes ready channels with Go's random select and finishes each
\* publish; main starts Run.  Producers owe nothing.
Fairness ==
    /\ WF_vars(Run)
    /\ \A c \in Streams : SF_vars(Receive(c))
    /\ WF_vars(Publish)

Spec == Init /\ [][Next]_vars
FairSpec == Spec /\ Fairness

-----------------------------------------------------------------------------
(* Properties *)

TypeOK ==
    /\ running \in BOOLEAN
    /\ \A c \in Streams : chans[c] \in Seq(Message)
                         /\ Len(chans[c]) <= Cardinality(Producers)
    /\ busy \in Message \cup {NoMsg}
    /\ \A x \in ExchangeNames : exchanges[x] \in Seq(Message)
    /\ calls \in [Producers -> 0..MaxCalls]

\* What each stream still owes: the message Run is publishing, then the
\* senders blocked on the channel, in the order Go's channel serves them.
Owed(c) == IF busy # NoMsg /\ busy.stream = c THEN <<busy>> \o chans[c] ELSE chans[c]

PA == INSTANCE PublisherAbstract WITH queue <- [c \in Streams |-> Owed(c)]

\* The publisher implements PublisherAbstract: per stream, messages leave in
\* the order the producers' sends were queued (across producers, not only
\* per producer), each is published at most once and only to its stream's
\* exchange, none to a disabled one, and nothing is published that was not
\* sent (spec 4.6 and 5).
PublisherRefinesAbstract == PA!ASpec

\* Every producer blocked in Broadcast* eventually returns.
CallsEventuallyReturn == \A p \in Producers : Blocked(p) ~> ~Blocked(p)
=============================================================================
