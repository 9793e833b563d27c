--------------------------- MODULE PayloadHandler ---------------------------
(***************************************************************************)
(* The payload handler of the process package (src/unnamed/part_002): the *)
(* websocket host hands it one frame (payload, topic, version) at a time;  *)
(* ProcessPayload looks the topic up in the actions table and the version  *)
(* up in the data processor table, and calls the processor method of that *)
(* topic, whose result it returns.  The processor decodes the payload and *)
(* may fail to.                                                            *)
(*                                                                         *)
(* Payload bytes are left out; a frame is its topic, its version and      *)
(* whether the processor can decode it.                                    *)
(***************************************************************************)
EXTENDS Naturals, Sequences, Functions, TLC

CONSTANTS Versions,      \* version strings the upstream may send
          DPVersions,    \* keys of the data processor map given to NewPayloadHandler
          UnknownTopics, \* topics that are not in the actions table
          MaxFrames      \* bound on the frames handled

\* outport topic constants.
TopicSaveBlock == "SaveBlock"
TopicRevertIndexedBlock == "RevertIndexedBlock"
TopicFinalizedBlock == "FinalizedBlock"
NoOpTopics == {"SaveRoundsInfo", "SaveValidatorsRating", "SaveValidatorsPubKeys",
               "SaveAccounts"}

\* Mutant: the revert and finalized entries of the table are swapped.
ActionsSwapped ==
    [t \in {TopicSaveBlock, TopicRevertIndexedBlock, TopicFinalizedBlock} \cup NoOpTopics |->
        CASE t = TopicSaveBlock          -> "saveBlock"
          [] t = TopicRevertIndexedBlock -> "finalizedBlock"
          [] t = TopicFinalizedBlock     -> "revertIndexedBlock"
          [] OTHER                       -> "noop"]

\* initActionsMap: topic -> handler.
Actions ==
    [t \in {TopicSaveBlock, TopicRevertIndexedBlock, TopicFinalizedBlock} \cup NoOpTopics |->
        CASE t = TopicSaveBlock          -> "saveBlock"
          [] t = TopicRevertIndexedBlock -> "revertIndexedBlock"
          [] t = TopicFinalizedBlock     -> "finalizedBlock"
          [] OTHER                       -> "noop"]

\* The DataProcessor method each versioned handler ends in.
ProcessorMethod ==
    [saveBlock |-> "SaveBlock", revertIndexedBlock |-> "RevertIndexedBlock",
     finalizedBlock |-> "FinalizedBlock"]

Topics == DOMAIN Actions \cup UnknownTopics

ASSUME /\ DPVersions # {} /\ DPVersions \subseteq Versions
       /\ UnknownTopics \cap DOMAIN Actions = {}
       /\ MaxFrames \in Nat

NoCall == [version |-> "none", method |-> "none"]
Nil == "nil"

\* Error values: the handler's own two, and whatever the processor returns
\* when it cannot decode.
Errors == {Nil, "ErrInvalidPayloadType", "ErrInvalidPayloadVersion", "ErrDecode"}

VARIABLE handled   \* the frames handled so far, each with its call and result

-----------------------------------------------------------------------------

\* Mutant: the ok of the dataProcessors lookup is not checked.
VersionedHandlerNoCheck(handler, version, decodes) ==
    [call |-> [version |-> version, method |-> ProcessorMethod[handler]],
     err  |-> IF decodes THEN Nil ELSE "ErrDecode"]

\* saveBlock / revertIndexedBlock / finalizedBlock: an unknown version is
\* refused, otherwise the processor of that version decodes the payload.
VersionedHandler(handler, version, decodes) ==
    IF version \notin DPVersions
    THEN [call |-> NoCall, err |-> "ErrInvalidPayloadType"]
    ELSE [call |-> [version |-> version, method |-> ProcessorMethod[handler]],
          err  |-> IF decodes THEN Nil ELSE "ErrDecode"]

\* ProcessPayload: an unknown topic is only logged; a no-op topic returns nil.
ProcessPayload(topic, version, decodes) ==
    IF topic \notin DOMAIN Actions THEN [call |-> NoCall, err |-> Nil]
    ELSE IF Actions[topic] = "noop" THEN [call |-> NoCall, err |-> Nil]
    ELSE VersionedHandler(Actions[topic], version, decodes)

Init == handled = <<>>

\* The websocket host delivers one frame to ProcessPayload.
HandleFrame(topic, version, decodes) ==
    /\ Len(handled) < MaxFrames
    /\ handled' = Append(handled,
                    [topic |-> topic, version |-> version, decodes |-> decodes]
                    @@ ProcessPayload(topic, version, decodes))

\* The host has delivered every frame of the bound.
Done == Len(handled) = MaxFrames /\ UNCHANGED handled

Next ==
    \/ \E t \in Topics, v \in Versions, ok \in BOOLEAN : HandleFrame(t, v, ok)
    \/ Done

Spec == Init /\ [][Next]_handled

-----------------------------------------------------------------------------
(* Properties *)

TypeOK ==
    \A i \in 1..Len(handled) :
        /\ handled[i].topic \in Topics /\ handled[i].version \in Versions
        /\ handled[i].call \in {NoCall} \cup [version: DPVersions,
                                             method: Range(ProcessorMethod)]
        /\ handled[i].err \in Errors

\* What spec 4.5 and 7 say one frame does: an unknown topic is ignored and
\* succeeds, a no-op topic is discarded, a block topic with an unregistered
\* version fails with INVALID_PAYLOAD_VERSION, and a registered version is
\* decoded by its own decoder, a decode failure being returned.
SpecOutcome(topic, version, decodes) ==
    CASE topic \in UnknownTopics \cup NoOpTopics ->
            [call |-> NoCall, err |-> Nil]
      [] version \notin DPVersions ->
            [call |-> NoCall, err |-> "ErrInvalidPayloadVersion"]
      [] OTHER ->
            [call |-> [version |-> version,
                       method |-> CASE topic = TopicSaveBlock -> "SaveBlock"
                                    [] topic = TopicRevertIndexedBlock -> "RevertIndexedBlock"
                                    [] OTHER -> "FinalizedBlock"],
             err |-> IF decodes THEN Nil ELSE "ErrDecode"]

\* Every handled frame reached exactly the decoder spec 4.5 names for its
\* topic and version (or none), over every sequence of frames.
DispatchMatchesSpec ==
    \A i \in 1..Len(handled) :
        handled[i].call = SpecOutcome(handled[i].topic, handled[i].version,
                                      handled[i].decodes).call

\* Every handled frame returned the error spec 4.5 names for it (scenario
\* S6: an unknown version returns INVALID_PAYLOAD_VERSION).
ErrorsMatchSpec ==
    \A i \in 1..Len(handled) :
        handled[i].err = SpecOutcome(handled[i].topic, handled[i].version,
                                     handled[i].decodes).err
=============================================================================
