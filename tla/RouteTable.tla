------------------------------- MODULE RouteTable -------------------------------
(***************************************************************************)
(* The route table of route.c: an array that is filled from the front,     *)
(* searched from the front, and emptied by resetting its counter.          *)
(***************************************************************************)
EXTENDS Naturals, FiniteSets

CONSTANTS
    Paths, Handlers, \* what applications register
    NoHandler,       \* NULL
    MaxRoutes        \* WRD_MAX_ROUTES

ASSUME MaxRoutesAssumption == MaxRoutes \in Nat
ASSUME NoHandlerAssumption == NoHandler \notin Handlers

VARIABLES
    routes,       \* config->routes, with what it held before a reset
    routes_count,
    result        \* the path of the last call, and what it returned

vars == <<routes, routes_count, result>>

Slots == 1..MaxRoutes
Used == 1..routes_count
Route == [path : Paths, handler : Handlers]
Unused == [path |-> NoHandler, handler |-> NoHandler]
Returned(path, code) == result' = [path |-> path, code |-> code]

Init ==
    /\ routes = [k \in Slots |-> Unused]
    /\ routes_count = 0
    /\ result = [path |-> NoHandler, code |-> "WRD_OK"]

\* wrd_route_add (of a path and a handler that are not NULL): replace the
\* handler of a registered path ...
Replace(path, handler) ==
    /\ \E k \in Used :
         /\ routes[k].path = path
         /\ \A j \in 1..(k - 1) : routes[j].path # path
         /\ routes' = [routes EXCEPT ![k].handler = handler]
    /\ Returned(path, "WRD_OK")
    /\ UNCHANGED routes_count

\* Slips: the bound is off by one; the path is not looked for first.
TakeSlotBeyond(path, handler) ==
    /\ \A k \in Used : routes[k].path # path
    /\ routes_count <= MaxRoutes
    /\ routes' = [k \in Slots |-> IF k = routes_count + 1
                                  THEN [path |-> path, handler |-> handler]
                                  ELSE routes[k]]
    /\ routes_count' = routes_count + 1
    /\ Returned(path, "WRD_OK")
TakeSlotBlindly(path, handler) ==
    /\ routes_count < MaxRoutes
    /\ routes' = [routes EXCEPT ![routes_count + 1] =
                     [path |-> path, handler |-> handler]]
    /\ routes_count' = routes_count + 1
    /\ Returned(path, "WRD_OK")

\* ... or take the next slot ...
TakeSlot(path, handler) ==
    /\ \A k \in Used : routes[k].path # path
    /\ routes_count < MaxRoutes
    /\ routes' = [routes EXCEPT ![routes_count + 1] =
                     [path |-> path, handler |-> handler]]
    /\ routes_count' = routes_count + 1
    /\ Returned(path, "WRD_OK")

\* Slip: the bound is checked before the path is looked for.
TableFullFirst(path) ==
    /\ routes_count >= MaxRoutes
    /\ Returned(path, "WRD_ERROR")
    /\ UNCHANGED <<routes, routes_count>>

\* ... or fail when there is none.
TableFull(path) ==
    /\ \A k \in Used : routes[k].path # path
    /\ routes_count >= MaxRoutes
    /\ Returned(path, "WRD_ERROR")
    /\ UNCHANGED <<routes, routes_count>>

\* wrd_config_init_defaults, when a configuration is loaded again.
Reset ==
    /\ routes_count' = 0
    /\ Returned(NoHandler, "WRD_OK")
    /\ UNCHANGED routes

Next ==
    \/ \E path \in Paths :
         TableFull(path) \/ \E handler \in Handlers :
                                Replace(path, handler) \/ TakeSlot(path, handler)
    \/ Reset

Spec == Init /\ [][Next]_vars

\* wrd_route_find: the first slot with the path decides.
FoundAt(path) ==
    {k \in Used : routes[k].path = path /\ \A j \in 1..(k - 1) : routes[j].path # path}
Find(path) ==
    IF FoundAt(path) = {} THEN NoHandler
    ELSE routes[CHOOSE k \in FoundAt(path) : TRUE].handler

-------------------------------------------------------------------------------
\* Every variable stays in its set; the slots in use hold routes.
TypeOK ==
    /\ routes_count \in 0..MaxRoutes
    /\ routes \in [Slots -> Route \cup {Unused}]
    /\ \A k \in Used : routes[k] \in Route
    /\ result \in [path : Paths \cup {NoHandler}, code : {"WRD_OK", "WRD_ERROR"}]

\* No path is in two slots: replacing one handler never leaves another,
\* older one for the same path behind it.
NoDuplicatePath ==
    \A j, k \in Used : routes[j].path = routes[k].path => j = k

\* The array with its linear search is the map of RouteMap: a lookup returns
\* what was registered last under that very path, a path is refused only if
\* it is new and WRD_MAX_ROUTES others are registered, and a reset forgets
\* everything.
Map == INSTANCE RouteMap WITH handlers <- [p \in Paths |-> Find(p)]
ImplementsMap == Map!Spec
=============================================================================
