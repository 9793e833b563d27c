SPECIFICATION Spec
CONSTANTS
    Routes <- MCRoutes
    HandlerLists <- MCHandlerLists
    MaxAdds = 3
INVARIANT TypeOK
