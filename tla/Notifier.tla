------------------------------ MODULE Notifier ------------------------------
(***************************************************************************)
(* The notifier end to end: at startup CreatePublisher (factory/           *)
(* pubsubFactory.go) picks the egress by apiType; then the websocket host  *)
(* hands each upstream frame to ProcessPayload (PayloadHandler), whose     *)
(* data processor decodes it and calls the egress: the hub for the         *)
(* "notifier" api type, the RabbitMQ publisher (Publisher) for             *)
(* "rabbit-api".  The other egress is the disabled one, whose Broadcast*   *)
(* do nothing.                                                             *)
(*                                                                         *)
(* The data processor and the facade are not among the sources; they      *)
(* follow spec 2 and 4.5: a decoded frame becomes one Broadcast* call on   *)
(* the stream of its topic.  The hub's own steps are checked by Hub; here *)
(* a hub broadcast is one step, recorded in hubIn.                         *)
(***************************************************************************)
EXTENDS Naturals, Sequences, SequencesExt

CONSTANTS APITypes,       \* apiType values the configuration may hold
          Versions, DPVersions, UnknownTopics, MaxFrames,
          EventsExchange, RevertEventsExchange, FinalizedEventsExchange

\* common.MessageQueueAPIType and common.WSAPIType.
MessageQueueAPIType == "rabbit-api"
WSAPIType == "notifier"

Ingest == "ingest"   \* the websocket host's goroutine, the only producer

VARIABLES
    apiType,        \* the configured api type
    phase,          \* "init", "running" or "aborted" (startup error)
    publisherKind,  \* what CreatePublisher returned: "none", "rabbit", "disabled"
    handled,        \* PayloadHandler: the frames handled so far
    hubIn,          \* the streams handed to the hub's Broadcast*, in order
    running, chans, busy, exchanges, calls   \* Publisher

pubVars == <<running, chans, busy, exchanges, calls>>
vars == <<apiType, phase, publisherKind, handled, hubIn, pubVars>>

PH == INSTANCE PayloadHandler
Pub == INSTANCE Publisher WITH Producers <- {Ingest}, MaxCalls <- MaxFrames

\* The broadcast stream of each block topic (spec 2, 4.4).
StreamOfTopic ==
    [t \in {PH!TopicSaveBlock, PH!TopicRevertIndexedBlock, PH!TopicFinalizedBlock} |->
        CASE t = PH!TopicSaveBlock          -> "broadcast"
          [] t = PH!TopicRevertIndexedBlock -> "broadcastRevert"
          [] OTHER                          -> "broadcastFinalized"]

\* The data processor method a frame reached and which stream it feeds.
StreamOfMethod ==
    [SaveBlock |-> "broadcast", RevertIndexedBlock |-> "broadcastRevert",
     FinalizedBlock |-> "broadcastFinalized"]

\* A handled frame whose processor call decoded it: the facade broadcasts it.
Broadcasts(f) == f.call # PH!NoCall /\ f.err = PH!Nil

-----------------------------------------------------------------------------

Init ==
    /\ apiType \in APITypes
    /\ phase = "init"
    /\ publisherKind = "none"
    /\ PH!Init
    /\ hubIn = <<>>
    /\ Pub!Init

\* Mutant: the rabbit branch is taken for any api type but the websocket one.
CreatePublisherDefaultRabbit(clientOk) ==
    /\ phase = "init"
    /\ IF apiType = WSAPIType
       THEN phase' = "running" /\ publisherKind' = "disabled"
       ELSE IF clientOk THEN phase' = "running" /\ publisherKind' = "rabbit"
            ELSE phase' = "aborted" /\ UNCHANGED publisherKind
    /\ UNCHANGED <<apiType, handled, hubIn, pubVars>>

\* CreatePublisher and createRabbitMqPublisher.  NewRabbitMQClient may fail
\* to connect; NewRabbitMqPublisher then gets a non-nil client and cannot
\* fail.  Every error aborts the startup (spec 7).
CreatePublisher(clientOk) ==
    /\ phase = "init"
    /\ CASE apiType = MessageQueueAPIType ->
              IF clientOk THEN phase' = "running" /\ publisherKind' = "rabbit"
              ELSE phase' = "aborted" /\ UNCHANGED publisherKind
         [] apiType = WSAPIType ->
              phase' = "running" /\ publisherKind' = "disabled"
         [] OTHER -> phase' = "aborted" /\ UNCHANGED publisherKind
    /\ UNCHANGED <<apiType, handled, hubIn, pubVars>>

\* main starts the rabbit publisher's Run goroutine.
StartPublisher ==
    /\ phase = "running" /\ publisherKind = "rabbit"
    /\ Pub!Run
    /\ UNCHANGED <<apiType, phase, publisherKind, handled, hubIn>>

\* The host delivers a frame; ProcessPayload runs and, when the processor
\* decoded it, the facade calls Broadcast* on the hub and on the publisher.
\* The rabbit publisher's call is a blocking send: the host's goroutine
\* stays in it until Run receives.
HandleFrame(topic, version, decodes) ==
    LET out == PH!ProcessPayload(topic, version, decodes)
        frame == [topic |-> topic, version |-> version, decodes |-> decodes] @@ out
        stream == StreamOfMethod[out.call.method]
    IN
    /\ phase = "running"
    /\ ~Pub!Blocked(Ingest)
    /\ PH!HandleFrame(topic, version, decodes)
    /\ IF Broadcasts(frame) /\ apiType = WSAPIType
       THEN hubIn' = Append(hubIn, stream) ELSE UNCHANGED hubIn
    /\ IF Broadcasts(frame) /\ publisherKind = "rabbit"
       THEN Pub!Broadcast(Ingest, stream)
       ELSE UNCHANGED pubVars
    /\ UNCHANGED <<apiType, phase, publisherKind>>

\* One step of the publisher's Run loop.
PublisherStep ==
    /\ \/ \E c \in Pub!Streams : Pub!Receive(c)
       \/ Pub!Publish
    /\ UNCHANGED <<apiType, phase, publisherKind, handled, hubIn>>

\* Startup failed, or every frame of the bound is through the pipeline.
Quiescent ==
    /\ \/ phase = "aborted"
       \/ /\ Len(handled) = MaxFrames
          /\ ~Pub!Blocked(Ingest) /\ busy = Pub!NoMsg
          /\ publisherKind = "rabbit" => running
    /\ UNCHANGED vars

Next ==
    \/ \E ok \in BOOLEAN : CreatePublisher(ok)
    \/ StartPublisher
    \/ \E t \in PH!Topics, v \in Versions, ok \in BOOLEAN : HandleFrame(t, v, ok)
    \/ PublisherStep
    \/ Quiescent

Spec == Init /\ [][Next]_vars

-----------------------------------------------------------------------------
(* Properties *)

\* The frames the facade broadcast, in the order the host delivered them.
Accepted == SelectSeq(handled, Broadcasts)

\* End to end: only the egress apiType names carries anything; the hub is
\* handed the stream of every decoded frame in frame order; each exchange
\* holds messages of decoded frames whose topic belongs to its stream, each
\* at most once and in frame order (a failed publish may drop one).
EgressFaithful ==
    /\ apiType # WSAPIType => hubIn = <<>>
    /\ apiType = WSAPIType =>
         hubIn = [i \in 1..Len(Accepted) |-> StreamOfTopic[Accepted[i].topic]]
    /\ \A x \in Pub!ExchangeNames :
         LET s == exchanges[x] IN
         /\ s # <<>> => apiType = MessageQueueAPIType
         /\ \A i \in 1..Len(s) :
              /\ s[i].n <= Len(Accepted)
              /\ s[i].stream = StreamOfTopic[Accepted[s[i].n].topic]
              /\ i > 1 => s[i-1].n < s[i].n
=============================================================================
