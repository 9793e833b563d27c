------------------------- MODULE PublisherAbstract -------------------------
(***************************************************************************)
(* What the RabbitMQ publisher promises (spec 4.6 and 5): each stream is  *)
(* a FIFO of the messages producers handed over; the messages leave it    *)
(* one at a time from its head, each either published once to the        *)
(* exchange configured for the stream or dropped (a failure, or a stream  *)
(* whose exchange name is empty).  Nothing else reaches an exchange.      *)
(***************************************************************************)
EXTENDS Naturals, Sequences

CONSTANTS Producers, EventsExchange, RevertEventsExchange,
          FinalizedEventsExchange, MaxCalls

VARIABLES queue,      \* stream -> messages handed over and not yet gone
          exchanges,  \* exchange name -> messages published, in order
          calls       \* producer -> messages handed over so far

Streams == {"broadcast", "broadcastRevert", "broadcastFinalized"}

ExchangeOf(c) ==
    CASE c = "broadcast"          -> EventsExchange
      [] c = "broadcastRevert"    -> RevertEventsExchange
      [] c = "broadcastFinalized" -> FinalizedEventsExchange

ExchangeNames == {EventsExchange, RevertEventsExchange, FinalizedEventsExchange}

AInit ==
    /\ queue = [c \in Streams |-> <<>>]
    /\ exchanges = [x \in ExchangeNames |-> <<>>]
    /\ calls = [p \in Producers |-> 0]

\* A producer hands the next of its messages to a stream.
ASend(p, c) ==
    /\ calls[p] < MaxCalls
    /\ calls' = [calls EXCEPT ![p] = @ + 1]
    /\ queue' = [queue EXCEPT ![c] = Append(@, [from |-> p, n |-> calls[p] + 1,
                                                 stream |-> c])]
    /\ UNCHANGED exchanges

\* The head of a stream leaves it: published to its exchange, or dropped.
ADeliver(c) ==
    /\ queue[c] # <<>>
    /\ queue' = [queue EXCEPT ![c] = Tail(@)]
    /\ \/ /\ ExchangeOf(c) # ""
          /\ exchanges' = [exchanges EXCEPT ![ExchangeOf(c)] = Append(@, Head(queue[c]))]
       \/ UNCHANGED exchanges
    /\ UNCHANGED calls

ANext ==
    \/ \E p \in Producers, c \in Streams : ASend(p, c)
    \/ \E c \in Streams : ADeliver(c)

ASpec == AInit /\ [][ANext]_<<queue, exchanges, calls>>
=============================================================================
