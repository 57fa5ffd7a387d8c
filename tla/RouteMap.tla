-------------------------------- MODULE RouteMap --------------------------------
(***************************************************************************)
(* What wrd_route_add and wrd_route_find promise: a map from paths to      *)
(* handlers that holds at most MaxRoutes paths.                            *)
(***************************************************************************)
EXTENDS Naturals, FiniteSets

CONSTANTS Paths, Handlers, NoHandler, MaxRoutes

VARIABLES
    handlers, \* the handler of every path, NoHandler for most
    result    \* the path of the last call, and what it returned

Registered == {p \in Paths : handlers[p] # NoHandler}

Returned(p, code) == result' = [path |-> p, code |-> code]

Empty == [p \in Paths |-> NoHandler]

Init == handlers = Empty /\ result = [path |-> NoHandler, code |-> "WRD_OK"]

Register(p, h) ==
    /\ p \in Registered \/ Cardinality(Registered) < MaxRoutes
    /\ handlers' = [handlers EXCEPT ![p] = h]
    /\ Returned(p, "WRD_OK")

\* Only a new path, and only when the map is full.
Refuse(p) ==
    /\ p \notin Registered /\ Cardinality(Registered) >= MaxRoutes
    /\ Returned(p, "WRD_ERROR")
    /\ UNCHANGED handlers

Clear == handlers' = Empty /\ Returned(NoHandler, "WRD_OK")

Next ==
    \/ \E p \in Paths : Refuse(p) \/ \E h \in Handlers : Register(p, h)
    \/ Clear

Spec == Init /\ [][Next]_<<handlers, result>>
=============================================================================
