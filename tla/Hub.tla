-------------------------------- MODULE Hub --------------------------------
(***************************************************************************)
(* The websocket event hub, dispatcher/hub/commonHub.go, together with the *)
(* goroutines that talk to it:                                             *)
(*   - the hub loop (run), which selects over ctx.Done() and five          *)
(*     unbuffered channels and then handles the message it received;       *)
(*   - the owner, which calls Run and Close;                               *)
(*   - producers (the facade behind the payload handler) calling           *)
(*     Broadcast, BroadcastRevert and BroadcastFinalized;                  *)
(*   - dispatchers, i.e. subscriber connections, calling RegisterEvent,   *)
(*     Subscribe and UnregisterEvent, and draining their outbound queue.   *)
(*                                                                         *)
(* An unbuffered channel is the FIFO of the goroutines blocked sending on  *)
(* it: a send appends the sender, the loop's receive takes the head and    *)
(* so returns from that sender's call.  Receiving and handling are two     *)
(* steps, as they are two statements of the loop.                          *)
(*                                                                         *)
(* The subscription mapper, the event filter and the dispatcher are not    *)
(* among the sources; they follow spec sections 4.1-4.3.                   *)
(***************************************************************************)
EXTENDS Naturals, Sequences, SequencesExt, FiniteSets, TLC

CONSTANTS Dispatchers,      \* dispatcher ids (uuid.UUID)
          Producers,        \* goroutines that call Broadcast*
          Addresses, Identifiers, Topics,
          Batches,          \* BlockEvents.Events values the producers send
          RevertBlocks,     \* data.RevertBlock values
          FinalizedBlocks,  \* data.FinalizedBlock values
          Entries,          \* subscription entries a subscribe message may carry
          QueueCap,         \* capacity of a dispatcher's outbound queue
          MaxBroadcasts,    \* bound on Broadcast* calls, over all producers
          MaxSubscribes,    \* bound on Subscribe calls per dispatcher
          WithClose         \* whether the owner ever calls Close

INSTANCE EventFilter

ASSUME /\ Dispatchers \cap Producers = {}
       /\ Entries \subseteq SubscriptionEntry
       /\ QueueCap \in Nat \ {0}
       /\ MaxBroadcasts \in Nat /\ MaxSubscribes \in Nat
       /\ WithClose \in BOOLEAN

Channels == {"register", "unregister", "broadcast", "broadcastRevert",
             "broadcastFinalized"}

NoMsg == [ch |-> "none", val |-> "none"]

\* States of a subscriber connection (spec 4.3 and its lifecycle in 3):
\* "init" created, "registering" blocked in RegisterEvent, "open" delivering,
\* "closing" slow or failed and about to unregister, "unregistering"
\* blocked in UnregisterEvent, "gone" unregistered.
DStates == {"init", "registering", "open", "closing", "unregistering", "gone"}

\* Outbound queue item, the {type, data} frame of spec section 6.
Frame == [type: {"block_events"}, data: Seq(Event)]
         \cup [type: {"revert_event"}, data: RevertBlocks]
         \cup [type: {"finalized_event"}, data: FinalizedBlocks]

VARIABLES
    hubState,       \* "new" before Run, "running", "stopped" once run returned
    cancelFunc,     \* wh.cancelFunc != nil
    ctxDone,        \* the context has been cancelled
    closeCalled,    \* Close has been called
    busy,           \* the message the loop received and is handling, or NoMsg
    chans,          \* channel -> senders blocked on it, in FIFO order
    dispatchers,    \* the keys of wh.dispatchers
    subscriptions,  \* the mapper: set of [dispatcherID, entry]
    dstate,         \* dispatcher -> DStates
    queue,          \* dispatcher -> outbound queue of frames
    pushed,         \* history: dispatcher -> every event handed to PushEvents
    sent,           \* Broadcast* calls made so far
    subCount        \* dispatcher -> Subscribe calls made so far

vars == <<hubState, cancelFunc, ctxDone, closeCalled, busy, chans, dispatchers,
          subscriptions, dstate, queue, pushed, sent, subCount>>

-----------------------------------------------------------------------------
(* Helpers *)

\* Is goroutine x blocked in a send on one of the hub's channels?
Blocked(x) == \E c \in Channels : \E i \in 1..Len(chans[c]) : chans[c][i].sender = x

SubsOf(d) == {s.entry : s \in {x \in subscriptions : x.dispatcherID = d}}

Send(c, x, v) == chans' = [chans EXCEPT ![c] = Append(@, [sender |-> x, val |-> v])]

\* mapEventToDispatcher: append e to the list of id, creating it if absent.
MapAppend(m, id, e) ==
    IF id \in DOMAIN m THEN [m EXCEPT ![id] = Append(@, e)] ELSE m @@ (id :> <<e>>)

-----------------------------------------------------------------------------
(* Mapper, filter and dispatcher operations (spec 4.1-4.3) *)

\* SubscriptionMapper.MatchSubscribeEvent: adds every entry of the event under
\* its dispatcher; entries are kept as a set, so a structurally equal entry
\* of the same dispatcher is idempotent.
MatchSubscribeEvent(subs, d, entries) ==
    subs \cup {[dispatcherID |-> d, entry |-> en] : en \in entries}

\* SubscriptionMapper.RemoveSubscriptions
RemoveSubscriptions(subs, d) == {s \in subs : s.dispatcherID # d}

\* Mutant: the capacity check is dropped, the queue grows past its bound.
PushEventsQueueUnbounded(d, frame) ==
    IF dstate[d] = "open" THEN Append(queue[d], frame) ELSE queue[d]

\* EventDispatcher.PushEvents, non-blocking: a full queue closes the
\* dispatcher and drops the batch, a dispatcher that is not open drops it.
PushEventsQueue(d, frame) ==
    IF dstate[d] = "open" /\ Len(queue[d]) < QueueCap
    THEN Append(queue[d], frame) ELSE queue[d]

PushEventsState(d) ==
    IF dstate[d] = "open" /\ Len(queue[d]) = QueueCap THEN "closing" ELSE dstate[d]

-----------------------------------------------------------------------------
(* commonHub *)

\* Mutant: the two loops swapped, subscriptions outside and events inside.
DispatchersMapSubsFirst(batch, subs) ==
    FoldSet(LAMBDA s, acc :
                FoldLeft(LAMBDA m, e :
                            IF MatchEvent(s.entry, e) THEN MapAppend(m, s.dispatcherID, e)
                            ELSE m,
                         acc, batch),
            <<>>, subs)

\* handleBroadcast, lines 111-124: for each event, for each subscription of
\* the snapshot, append the event to the dispatcher's list when it matches.
DispatchersMap(batch, subs) ==
    FoldLeft(LAMBDA m, e :
                FoldSet(LAMBDA s, acc :
                            IF MatchEvent(s.entry, e) THEN MapAppend(acc, s.dispatcherID, e)
                            ELSE acc,
                        m, subs),
             <<>>, batch)

\* NewCommonHub, plus subscribers and producers that have not acted yet.
Init ==
    /\ hubState = "new"
    /\ cancelFunc = FALSE
    /\ ctxDone = FALSE
    /\ closeCalled = FALSE
    /\ busy = NoMsg
    /\ chans = [c \in Channels |-> <<>>]
    /\ dispatchers = {}
    /\ subscriptions = {}
    /\ dstate = [d \in Dispatchers |-> "init"]
    /\ queue = [d \in Dispatchers |-> <<>>]
    /\ pushed = [d \in Dispatchers |-> <<>>]
    /\ sent = 0
    /\ subCount = [d \in Dispatchers |-> 0]

\* Run: store the cancel function and start the loop goroutine.
Run ==
    /\ hubState = "new"
    /\ hubState' = "running"
    /\ cancelFunc' = TRUE
    /\ UNCHANGED <<ctxDone, closeCalled, busy, chans, dispatchers, subscriptions,
                   dstate, queue, pushed, sent, subCount>>

\* Close: cancel the context if Run has stored a cancel function.
Close ==
    /\ WithClose
    /\ ~closeCalled
    /\ closeCalled' = TRUE
    /\ ctxDone' = (ctxDone \/ cancelFunc)
    /\ UNCHANGED <<hubState, cancelFunc, busy, chans, dispatchers, subscriptions,
                   dstate, queue, pushed, sent, subCount>>

\* Mutant: the loop returns without its context having been cancelled.
StopUncancelled ==
    /\ hubState = "running"
    /\ busy = NoMsg
    /\ hubState' = "stopped"
    /\ UNCHANGED <<cancelFunc, ctxDone, closeCalled, busy, chans, dispatchers,
                   subscriptions, dstate, queue, pushed, sent, subCount>>

\* run: the select picks the ctx.Done() case.
Stop ==
    /\ hubState = "running"
    /\ busy = NoMsg
    /\ ctxDone
    /\ hubState' = "stopped"
    /\ UNCHANGED <<cancelFunc, ctxDone, closeCalled, busy, chans, dispatchers,
                   subscriptions, dstate, queue, pushed, sent, subCount>>

\* run: the select picks channel c; the receive returns from the blocked
\* sender's call (a dispatcher's RegisterEvent/UnregisterEvent moves on).
Receive(c) ==
    /\ hubState = "running"
    /\ busy = NoMsg
    /\ chans[c] # <<>>
    /\ LET m == Head(chans[c]) IN
       /\ busy' = [ch |-> c, val |-> m.val]
       /\ dstate' = CASE c = "register"   -> [dstate EXCEPT ![m.sender] = "open"]
                      [] c = "unregister" -> [dstate EXCEPT ![m.sender] = "gone"]
                      [] OTHER            -> dstate
    /\ chans' = [chans EXCEPT ![c] = Tail(@)]
    /\ UNCHANGED <<hubState, cancelFunc, ctxDone, closeCalled, dispatchers,
                   subscriptions, queue, pushed, sent, subCount>>

\* Subscribe with a SubscribeEvent of d carrying the given entries: straight
\* into the mapper, not through the loop.
Subscribe(d, entries) ==
    /\ dstate[d] \notin {"init", "registering"}
    /\ subCount[d] < MaxSubscribes
    /\ subscriptions' = MatchSubscribeEvent(subscriptions, d, entries)
    /\ subCount' = [subCount EXCEPT ![d] = @ + 1]
    /\ UNCHANGED <<hubState, cancelFunc, ctxDone, closeCalled, busy, chans,
                   dispatchers, dstate, queue, pushed, sent>>

\* Broadcast, BroadcastRevert, BroadcastFinalized: a blocking send by a
\* producer that is not already blocked.
ProducerSend(p, c, v) ==
    /\ ~Blocked(p)
    /\ sent < MaxBroadcasts
    /\ sent' = sent + 1
    /\ Send(c, p, v)
    /\ UNCHANGED <<hubState, cancelFunc, ctxDone, closeCalled, busy, dispatchers,
                   subscriptions, dstate, queue, pushed, subCount>>

Broadcast(p, batch) == ProducerSend(p, "broadcast", batch)
BroadcastRevert(p, r) == ProducerSend(p, "broadcastRevert", r)
BroadcastFinalized(p, f) == ProducerSend(p, "broadcastFinalized", f)

\* RegisterEvent by a freshly created dispatcher.
RegisterEvent(d) ==
    /\ dstate[d] = "init"
    /\ dstate' = [dstate EXCEPT ![d] = "registering"]
    /\ Send("register", d, d)
    /\ UNCHANGED <<hubState, cancelFunc, ctxDone, closeCalled, busy, dispatchers,
                   subscriptions, queue, pushed, sent, subCount>>

\* UnregisterEvent, by an open dispatcher whose subscriber went away or by a
\* closing one (slow consumer or write error).
UnregisterEvent(d) ==
    /\ dstate[d] \in {"open", "closing"}
    /\ dstate' = [dstate EXCEPT ![d] = "unregistering"]
    /\ Send("unregister", d, d)
    /\ UNCHANGED <<hubState, cancelFunc, ctxDone, closeCalled, busy, dispatchers,
                   subscriptions, queue, pushed, sent, subCount>>

\* handleBroadcast: route the batch through the snapshot of the mapper and
\* push each registered dispatcher its list.
HandleBroadcast ==
    /\ busy.ch = "broadcast"
    /\ LET m       == DispatchersMap(busy.val, subscriptions)
           targets == DOMAIN m \cap dispatchers
       IN  /\ queue' = [d \in Dispatchers |->
                          IF d \in targets
                          THEN PushEventsQueue(d, [type |-> "block_events", data |-> m[d]])
                          ELSE queue[d]]
           /\ dstate' = [d \in Dispatchers |->
                           IF d \in targets THEN PushEventsState(d) ELSE dstate[d]]
           /\ pushed' = [d \in Dispatchers |->
                           IF d \in targets THEN pushed[d] \o m[d] ELSE pushed[d]]
    /\ busy' = NoMsg
    /\ UNCHANGED <<hubState, cancelFunc, ctxDone, closeCalled, chans, dispatchers,
                   subscriptions, sent, subCount>>

\* handleRevertBroadcast and handleFinalizedBroadcast have empty bodies.
HandleRevertBroadcast ==
    /\ busy.ch = "broadcastRevert"
    /\ busy' = NoMsg
    /\ UNCHANGED <<hubState, cancelFunc, ctxDone, closeCalled, chans, dispatchers,
                   subscriptions, dstate, queue, pushed, sent, subCount>>

HandleFinalizedBroadcast ==
    /\ busy.ch = "broadcastFinalized"
    /\ busy' = NoMsg
    /\ UNCHANGED <<hubState, cancelFunc, ctxDone, closeCalled, chans, dispatchers,
                   subscriptions, dstate, queue, pushed, sent, subCount>>

\* registerDispatcher: an id already present is left alone.
RegisterDispatcher ==
    /\ busy.ch = "register"
    /\ dispatchers' = dispatchers \cup {busy.val}
    /\ busy' = NoMsg
    /\ UNCHANGED <<hubState, cancelFunc, ctxDone, closeCalled, chans, subscriptions,
                   dstate, queue, pushed, sent, subCount>>

\* Mutant: the call to RemoveSubscriptions is missing.
UnregisterDispatcherKeepSubs ==
    /\ busy.ch = "unregister"
    /\ dispatchers' = dispatchers \ {busy.val}
    /\ busy' = NoMsg
    /\ UNCHANGED <<hubState, cancelFunc, ctxDone, closeCalled, chans, subscriptions,
                   dstate, queue, pushed, sent, subCount>>

\* unregisterDispatcher: delete the id if present, then drop its
\* subscriptions in any case.
UnregisterDispatcher ==
    /\ busy.ch = "unregister"
    /\ dispatchers' = dispatchers \ {busy.val}
    /\ subscriptions' = RemoveSubscriptions(subscriptions, busy.val)
    /\ busy' = NoMsg
    /\ UNCHANGED <<hubState, cancelFunc, ctxDone, closeCalled, chans, dstate,
                   queue, pushed, sent, subCount>>

-----------------------------------------------------------------------------
(* Dispatcher delivery loop (spec 4.3) *)

\* The delivery goroutine writes the head frame to the transport.
Deliver(d) ==
    /\ dstate[d] = "open"
    /\ queue[d] # <<>>
    /\ queue' = [queue EXCEPT ![d] = Tail(@)]
    /\ UNCHANGED <<hubState, cancelFunc, ctxDone, closeCalled, busy, chans,
                   dispatchers, subscriptions, dstate, pushed, sent, subCount>>

\* The write fails: the dispatcher is closing and will unregister.
WriteError(d) ==
    /\ dstate[d] = "open"
    /\ queue[d] # <<>>
    /\ dstate' = [dstate EXCEPT ![d] = "closing"]
    /\ UNCHANGED <<hubState, cancelFunc, ctxDone, closeCalled, busy, chans,
                   dispatchers, subscriptions, queue, pushed, sent, subCount>>

-----------------------------------------------------------------------------

\* The bounded producers and subscribers are done and the loop idles in its
\* select: an explicit stuttering step, so that any other end state, such as
\* a goroutine stuck in a send, is reported as a deadlock.
Quiescent ==
    /\ hubState = "running" /\ busy = NoMsg
    /\ \A c \in Channels : chans[c] = <<>>
    /\ sent = MaxBroadcasts
    /\ \A d \in Dispatchers : dstate[d] = "gone" /\ subCount[d] = MaxSubscribes
    /\ UNCHANGED vars

Next ==
    \/ Run \/ Close \/ Stop
    \/ \E c \in Channels : Receive(c)
    \/ HandleBroadcast \/ HandleRevertBroadcast \/ HandleFinalizedBroadcast
    \/ RegisterDispatcher \/ UnregisterDispatcher
    \/ \E p \in Producers :
          \/ \E b \in Batches : Broadcast(p, b)
          \/ \E r \in RevertBlocks : BroadcastRevert(p, r)
          \/ \E f \in FinalizedBlocks : BroadcastFinalized(p, f)
    \/ \E d \in Dispatchers :
          \/ RegisterEvent(d) \/ UnregisterEvent(d)
          \/ Deliver(d) \/ WriteError(d)
          \/ \E es \in SUBSET Entries \ {{}} : Subscribe(d, es)
    \/ Quiescent

\* Go's select picks uniformly among ready cases and a channel serves its
\* blocked senders in FIFO order, so a receive that stays possible now and
\* again is eventually taken (strong fairness); the loop goroutine always
\* finishes a handler; main calls Run; a closing dispatcher goes on to
\* unregister.  Producers and subscribers owe nothing.
Fairness ==
    /\ WF_vars(Run)
    /\ \A c \in Channels : SF_vars(Receive(c))
    /\ SF_vars(Stop)
    /\ WF_vars(HandleBroadcast \/ HandleRevertBroadcast \/ HandleFinalizedBroadcast
               \/ RegisterDispatcher \/ UnregisterDispatcher)
    /\ \A d \in Dispatchers : WF_vars(dstate[d] = "closing" /\ UnregisterEvent(d))

Spec == Init /\ [][Next]_vars
FairSpec == Spec /\ Fairness

-----------------------------------------------------------------------------
(* Properties *)

TypeOK ==
    /\ hubState \in {"new", "running", "stopped"}
    /\ cancelFunc \in BOOLEAN /\ ctxDone \in BOOLEAN /\ closeCalled \in BOOLEAN
    /\ busy \in {NoMsg} \cup [ch: Channels, val: Dispatchers \cup Batches
                                             \cup RevertBlocks \cup FinalizedBlocks]
    /\ \A c \in Channels : chans[c] \in Seq([sender: Producers \cup Dispatchers,
                                             val: Dispatchers \cup Batches
                                                  \cup RevertBlocks \cup FinalizedBlocks])
    /\ dispatchers \subseteq Dispatchers
    /\ subscriptions \subseteq [dispatcherID: Dispatchers, entry: Entries]
    /\ dstate \in [Dispatchers -> DStates]
    /\ \A d \in Dispatchers : queue[d] \in Seq(Frame) /\ Len(queue[d]) <= QueueCap
    /\ pushed \in [Dispatchers -> Seq(Event)]
    /\ sent \in 0..MaxBroadcasts
    /\ subCount \in [Dispatchers -> 0..MaxSubscribes]

\* The hub implements what spec sections 3 and 4.4 promise: register is
\* idempotent, unregister drops the dispatcher and its subscriptions, every
\* broadcast batch reaches each registered dispatcher event by event in batch
\* order, once per matching subscription, nothing reaches an unregistered
\* dispatcher and nothing is handed out once run has returned.
HA == INSTANCE HubAbstract
        WITH registered <- dispatchers,
             subs <- [d \in Dispatchers |-> SubsOf(d)],
             inbox <- pushed,
             stopped <- (hubState = "stopped")

HubRefinesAbstract == HA!ASpec

\* Every goroutine blocked in Broadcast*, RegisterEvent or UnregisterEvent
\* eventually returns (spec 4.4: sends after shutdown must not hang).
SendersEventuallyReturn ==
    \A x \in Producers \cup Dispatchers : Blocked(x) ~> ~Blocked(x)

\* A slow or failed dispatcher is eventually removed from the hub with all
\* of its subscriptions (spec 7, SLOW_SUBSCRIBER).
SlowSubscriberRemoved ==
    \A d \in Dispatchers :
        dstate[d] = "closing" ~> (d \notin dispatchers /\ SubsOf(d) = {})

\* Once Close has been called, no dispatcher is handed further events
\* (spec 8.5).
NoDeliveryAfterClose == [][closeCalled => pushed' = pushed]_vars

\* Handling a revert pushes it to every open dispatcher with room that holds
\* a REVERT_EVENTS or ALL subscription (spec 4.4, scenario S5).
RevertRouted ==
    [][busy.ch = "broadcastRevert" /\ busy' = NoMsg =>
         \A d \in dispatchers :
            (/\ \E en \in SubsOf(d) : WantsStream(en, "REVERT_EVENTS")
             /\ dstate[d] = "open" /\ Len(queue[d]) < QueueCap)
            => [type |-> "revert_event", data |-> busy.val] \in Range(queue'[d])]_vars

\* Once its unregistration has been handled, the mapper holds no
\* subscription of a dispatcher (spec invariants 2 and 8.1).
NoSubscriptionsAfterUnregister ==
    \A d \in Dispatchers :
        (dstate[d] = "gone" /\ busy # [ch |-> "unregister", val |-> d])
        => SubsOf(d) = {}

\* Once Close has been called the loop eventually returns (spec 4.4: shutdown
\* stops the hub), whenever Close comes relative to Run.
CloseEventuallyStops == closeCalled ~> (hubState = "stopped")
=============================================================================
