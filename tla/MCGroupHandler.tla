--------------------------- MODULE MCGroupHandler ---------------------------
EXTENDS GroupHandler

\* Two handlers of the events group, as the proxy's handlers declare them.
HPush == [Method |-> "POST", Path |-> "/push", HandlerFunc |-> "pushEvents"]
HRevert == [Method |-> "POST", Path |-> "/revert", HandlerFunc |-> "revertEvents"]

MCRoutes == {"/events", "/hub"}
MCHandlerLists == {<<HPush>>, <<HRevert>>, <<HPush, HRevert>>}
=============================================================================
