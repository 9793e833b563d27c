---------------------------- MODULE GroupHandler ----------------------------
(***************************************************************************)
(* The HTTP group handler, proxy/handlers/base.go.  The setup code calls   *)
(* AddEndpointHandlers once per route group and then RegisterEndpoints,    *)
(* which walks endpointHandlersMap and registers every handler of every    *)
(* group on the gin engine.  A handler is its method, path and function;   *)
(* the engine is the set of (route, handler) pairs it serves.  The order   *)
(* in which Go ranges over the map is not observable in that set and is    *)
(* left out.  JsonResponse only formats a reply and is not modelled.      *)
(***************************************************************************)
EXTENDS Naturals, Sequences, Functions, TLC

CONSTANTS Routes,        \* base paths of route groups
          HandlerLists,  \* the []EndpointHandler values callers pass
          MaxAdds        \* bound on AddEndpointHandlers calls

ASSUME MaxAdds \in Nat

VARIABLES
    endpointHandlersMap, \* route -> []EndpointHandler (a function on the routes present)
    engine,              \* the (route, handler) pairs gin serves
    registered,          \* RegisterEndpoints has run
    adds                 \* history: every AddEndpointHandlers call, in order

vars == <<endpointHandlersMap, engine, registered, adds>>

-----------------------------------------------------------------------------

\* NewGroupHandler: an empty map; nothing served yet.
Init ==
    /\ endpointHandlersMap = <<>>
    /\ engine = {}
    /\ registered = FALSE
    /\ adds = <<>>

\* Mutant: the new handlers are appended to those already under the route.
AddEndpointHandlersAppend(route, handlers) ==
    /\ Len(adds) < MaxAdds
    /\ endpointHandlersMap' =
         IF route \in DOMAIN endpointHandlersMap
         THEN [endpointHandlersMap EXCEPT ![route] = @ \o handlers]
         ELSE (route :> handlers) @@ endpointHandlersMap
    /\ adds' = Append(adds, [route |-> route, handlers |-> handlers])
    /\ UNCHANGED <<engine, registered>>

\* AddEndpointHandlers: g.endpointHandlersMap[route] = handlers.  Nothing
\* stops a call after RegisterEndpoints; it changes only the map.
AddEndpointHandlers(route, handlers) ==
    /\ Len(adds) < MaxAdds
    /\ endpointHandlersMap' = (route :> handlers) @@ endpointHandlersMap
    /\ adds' = Append(adds, [route |-> route, handlers |-> handlers])
    /\ UNCHANGED <<engine, registered>>

\* RegisterEndpoints: r.Group(route).Handle(...) for every handler of every
\* group in the map.  The setup code calls it once.
RegisterEndpoints ==
    /\ ~registered
    /\ registered' = TRUE
    /\ engine' = UNION {{[route |-> r, handler |-> h] : h \in Range(endpointHandlersMap[r])} :
                          r \in DOMAIN endpointHandlersMap}
    /\ UNCHANGED <<endpointHandlersMap, adds>>

\* Setup is over: every call of the bound made and the endpoints registered.
Serving ==
    /\ registered /\ Len(adds) = MaxAdds
    /\ UNCHANGED vars

Next ==
    \/ \E r \in Routes, hs \in HandlerLists : AddEndpointHandlers(r, hs)
    \/ RegisterEndpoints
    \/ Serving

Spec == Init /\ [][Next]_vars

-----------------------------------------------------------------------------
(* Properties *)

Handlers == UNION {Range(hs) : hs \in HandlerLists}

TypeOK ==
    /\ DOMAIN endpointHandlersMap \subseteq Routes
    /\ \A r \in DOMAIN endpointHandlersMap : endpointHandlersMap[r] \in HandlerLists
    /\ engine \subseteq [route: Routes, handler: Handlers]
    /\ registered \in BOOLEAN
    /\ Len(adds) <= MaxAdds
=============================================================================
