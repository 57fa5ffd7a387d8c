--------------------------- MODULE RouteTable_proofs ---------------------------
(***************************************************************************)
(* The route table implements the map, for any paths, handlers and size.   *)
(***************************************************************************)
EXTENDS RouteTable, Functions, FiniteSetTheorems, TLAPS

Inv == TypeOK /\ NoDuplicatePath

LEMMA InvInit == Init => Inv
BY MaxRoutesAssumption DEF Init, Inv, TypeOK, NoDuplicatePath, Slots, Used

LEMMA InvStep == Inv /\ [Next]_vars => Inv'
<1> SUFFICES ASSUME Inv, [Next]_vars PROVE Inv'
  OBVIOUS
<1> USE MaxRoutesAssumption DEF Inv, TypeOK, NoDuplicatePath, Slots, Used, Returned
<1>1. ASSUME NEW path \in Paths, TableFull(path) PROVE Inv'
  BY <1>1 DEF TableFull
<1>2. ASSUME NEW path \in Paths, NEW handler \in Handlers, Replace(path, handler)
      PROVE  Inv'
  <2>1. PICK k \in Used : /\ routes[k].path = path
                          /\ routes' = [routes EXCEPT ![k].handler = handler]
    BY <1>2 DEF Replace
  <2>2. routes_count' = routes_count /\ result' = [path |-> path, code |-> "WRD_OK"]
    BY <1>2 DEF Replace
  <2>3. routes'[k] = [path |-> path, handler |-> handler]
    BY <2>1 DEF Route
  <2>4. \A j \in Slots : j # k => routes'[j] = routes[j]
    BY <2>1
  <2>5. routes'[k] \in Route
    BY <2>3 DEF Route
  <2>6. routes' \in [Slots -> Route \cup {Unused}]
    BY <2>1, <2>4, <2>5
  <2>7. \A j \in Used : routes'[j] \in Route /\ routes'[j].path = routes[j].path
    BY <2>1, <2>3, <2>4, <2>5
  <2> QED BY <2>2, <2>6, <2>7
<1>3. ASSUME NEW path \in Paths, NEW handler \in Handlers, TakeSlot(path, handler)
      PROVE  Inv'
  <2> DEFINE k == routes_count + 1
  <2>1. /\ k \in Slots
        /\ routes'[k] = [path |-> path, handler |-> handler]
        /\ \A j \in Slots : j # k => routes'[j] = routes[j]
        /\ routes_count' = k /\ result' = [path |-> path, code |-> "WRD_OK"]
        /\ \A j \in Used : routes[j].path # path
    BY <1>3 DEF TakeSlot
  <2>2. routes'[k] \in Route
    BY <2>1 DEF Route
  <2>3. routes' \in [Slots -> Route \cup {Unused}]
    BY <1>3, <2>1, <2>2 DEF TakeSlot
  <2>4. TypeOK'
    BY <2>1, <2>2, <2>3
  <2>5. \A j \in Used : j \in Slots /\ j # k /\ routes'[j].path # routes'[k].path
    BY <2>1
  <2>6. \A j \in Used' : j = k \/ j \in Used
    BY <2>1
  <2>7. \A i, j \in Used : routes'[i].path = routes'[j].path => i = j
    BY <2>1, <2>5
  <2>8. NoDuplicatePath'
    BY <2>5, <2>6, <2>7
  <2> QED BY <2>4, <2>8
<1>4. CASE Reset
  BY <1>4 DEF Reset
<1>5. CASE UNCHANGED vars
  BY <1>5 DEF vars
<1> QED BY <1>1, <1>2, <1>3, <1>4, <1>5 DEF Next

\* The table keeps its type: the count never leaves 0..MaxRoutes, the slots
\* below it hold whole routes and those above it none, whatever is added,
\* replaced or refused.
THEOREM TypeCorrect == Spec => []TypeOK
BY InvInit, InvStep, PTL DEF Spec, Inv

\* The slots in use hold routes with distinct paths.
THEOREM TableCorrect == Spec => [](TypeOK /\ NoDuplicatePath)
BY InvInit, InvStep, PTL DEF Spec, Inv

-------------------------------------------------------------------------------
(* What a lookup finds.                                                    *)

\* What the lookup of a path that is in use returns, and of one that is not.
Lookup == \A k \in Used : Find(routes[k].path) = routes[k].handler
Miss == \A p \in Paths : (\A k \in Used : routes[k].path # p) => Find(p) = NoHandler

LEMMA FoundUsed == Inv => Lookup
<1> SUFFICES ASSUME Inv, NEW k \in Used
             PROVE  Find(routes[k].path) = routes[k].handler
  BY DEF Lookup
<1>1. FoundAt(routes[k].path) = {k}
  BY MaxRoutesAssumption DEF FoundAt, Inv, TypeOK, NoDuplicatePath, Used, Slots
<1> QED BY <1>1 DEF Find

LEMMA FoundNone == Inv => Miss
BY DEF Miss, Find, FoundAt

LEMMA SameCardinality == \A S : Map!Cardinality(S) = Cardinality(S)
BY DEF Map!Cardinality, Cardinality

\* The registered paths are those of the slots in use, one for each.
LEMMA RegisteredPaths ==
    ASSUME Inv
    PROVE  /\ Map!Registered = {routes[k].path : k \in Used}
           /\ Cardinality(Map!Registered) = routes_count
<1>1. Map!Registered = {routes[k].path : k \in Used}
  <2>1. \A k \in Used : routes[k].path \in Paths /\ routes[k].handler \in Handlers
    BY DEF Inv, TypeOK, Route
  <2>2. \A k \in Used : routes[k].path \in Map!Registered
    BY <2>1, FoundUsed, NoHandlerAssumption DEF Map!Registered, Lookup
  <2>3. \A p \in Map!Registered : \E k \in Used : routes[k].path = p
    BY FoundNone DEF Map!Registered, Miss
  <2> QED BY <2>2, <2>3
<1> DEFINE f == [k \in Used |-> routes[k].path]
<1>2. f \in Bijection(Used, Map!Registered)
  <2>1. f \in [Used -> Map!Registered]
    BY <1>1
  <2>2. \A j, k \in Used : f[j] = f[k] => j = k
    BY DEF Inv, NoDuplicatePath
  <2>3. \A p \in Map!Registered : \E k \in Used : f[k] = p
    BY <1>1
  <2> QED BY <2>1, <2>2, <2>3 DEF Bijection, Injection, IsInjective, Surjection
<1>3. IsFiniteSet(Used) /\ Cardinality(Used) = routes_count
  <2>1. routes_count \in Nat
    BY MaxRoutesAssumption DEF Inv, TypeOK
  <2> QED BY <2>1, FS_Interval DEF Used
<1>4. Cardinality(Map!Registered) = Cardinality(Used)
  BY <1>2, <1>3, FS_Bijection DEF ExistsBijection
<1> QED BY <1>1, <1>3, <1>4

-------------------------------------------------------------------------------
(* Refinement: the initial states and the steps map.                       *)

LEMMA MapInit == Init => Map!Init
BY InvInit, FoundNone DEF Init, Map!Init, Map!Empty, Used, Miss

LEMMA MapStep == Inv /\ [Next]_vars => [Map!Next]_<<[p \in Paths |-> Find(p)], result>>
<1> SUFFICES ASSUME Inv, [Next]_vars
             PROVE  [Map!Next]_<<[p \in Paths |-> Find(p)], result>>
  OBVIOUS
<1> DEFINE found == [p \in Paths |-> Find(p)]
<1>0. /\ Lookup /\ Miss /\ Lookup' /\ Miss'
      /\ routes_count \in Nat /\ Used \subseteq Slots
  <2>1. Inv'
    BY InvStep
  <2>2. Lookup' /\ Miss'
    BY <2>1, FoundUsed, FoundNone, PTL
  <2>3. routes_count \in Nat /\ Used \subseteq Slots
    BY MaxRoutesAssumption DEF Inv, TypeOK, Used, Slots
  <2> QED BY <2>2, <2>3, FoundUsed, FoundNone
<1>1. ASSUME NEW path \in Paths, TableFull(path) PROVE Map!Refuse(path)
  <2>1. found' = found
    BY <1>1 DEF TableFull, Find, FoundAt, Used
  <2>2. path \notin Map!Registered /\ Cardinality(Map!Registered) >= MaxRoutes
    BY <1>1, RegisteredPaths DEF TableFull
  <2>3. Map!Returned(path, "WRD_ERROR")
    BY <1>1 DEF TableFull, Returned, Map!Returned
  <2> QED BY <2>1, <2>2, <2>3, SameCardinality DEF Map!Refuse
<1>2. ASSUME NEW path \in Paths, NEW handler \in Handlers, Replace(path, handler)
      PROVE  Map!Register(path, handler)
  <2>1. PICK k \in Used : /\ routes[k].path = path
                          /\ routes' = [routes EXCEPT ![k].handler = handler]
    BY <1>2 DEF Replace
  <2>2. Used' = Used /\ Map!Returned(path, "WRD_OK")
    BY <1>2 DEF Replace, Used, Returned, Map!Returned
  <2>3. /\ routes'[k].path = path /\ routes'[k].handler = handler
        /\ \A j \in Used : j # k => routes'[j] = routes[j]
    BY <1>0, <2>1 DEF Inv, TypeOK, Route
  <2>4. Find(path)' = handler
    BY <1>0, <2>2, <2>3 DEF Lookup
  <2>5. ASSUME NEW p \in Paths, p # path PROVE Find(p)' = Find(p)
    <3>1. CASE \E j \in Used : routes[j].path = p
      BY <1>0, <2>1, <2>2, <2>3, <2>5, <3>1 DEF Lookup
    <3>2. CASE ~ \E j \in Used : routes[j].path = p
      <4>1. \A j \in Used : routes'[j].path # p
        BY <2>3, <2>5, <3>2
      <4> QED BY <1>0, <2>2, <3>2, <4>1 DEF Miss
    <3> QED BY <3>1, <3>2
  <2>6. path \in Map!Registered
    BY <2>1, RegisteredPaths
  <2>7. found' = [found EXCEPT ![path] = handler]
    BY <2>4, <2>5
  <2> QED BY <2>2, <2>6, <2>7 DEF Map!Register
<1>3. ASSUME NEW path \in Paths, NEW handler \in Handlers, TakeSlot(path, handler)
      PROVE  Map!Register(path, handler)
  <2> DEFINE k == routes_count + 1
  <2>1. /\ k \in Used' /\ Used' = Used \cup {k} /\ k \notin Used
        /\ Map!Returned(path, "WRD_OK")
    BY <1>0, <1>3 DEF TakeSlot, Used, Returned, Map!Returned
  <2>2. /\ routes'[k].path = path /\ routes'[k].handler = handler
        /\ \A j \in Used : routes'[j] = routes[j]
        /\ \A j \in Used : routes[j].path # path
    <3>1. /\ routes \in [Slots -> Route \cup {Unused}] /\ k \in Slots
          /\ routes' = [routes EXCEPT ![k] = [path |-> path, handler |-> handler]]
      BY <1>0, <1>3, MaxRoutesAssumption DEF TakeSlot, Inv, TypeOK, Slots
    <3>2. routes'[k] = [path |-> path, handler |-> handler]
      BY <3>1
    <3>3. \A j \in Used : routes'[j] = routes[j]
      BY <1>0, <2>1, <3>1
    <3> QED BY <1>3, <3>2, <3>3 DEF TakeSlot
  <2>3. Find(path)' = handler
    BY <1>0, <2>1, <2>2 DEF Lookup
  <2>4. ASSUME NEW p \in Paths, p # path PROVE Find(p)' = Find(p)
    <3>1. CASE \E j \in Used : routes[j].path = p
      BY <1>0, <2>1, <2>2, <3>1 DEF Lookup
    <3>2. CASE ~ \E j \in Used : routes[j].path = p
      <4>1. \A j \in Used' : routes'[j].path # p
        BY <2>1, <2>2, <2>4, <3>2
      <4> QED BY <1>0, <3>2, <4>1 DEF Miss
    <3> QED BY <3>1, <3>2
  <2>5. found' = [found EXCEPT ![path] = handler]
    BY <2>3, <2>4
  <2>6. Cardinality(Map!Registered) < MaxRoutes
    BY <1>3, RegisteredPaths DEF TakeSlot
  <2> QED BY <2>1, <2>5, <2>6, SameCardinality DEF Map!Register
<1>4. CASE Reset
  <2>1. Used' = {} /\ Map!Returned(NoHandler, "WRD_OK")
    BY <1>4 DEF Reset, Used, Returned, Map!Returned
  <2>2. found' = Map!Empty
    BY <1>0, <2>1 DEF Miss, Map!Empty
  <2> QED BY <2>1, <2>2 DEF Map!Next, Map!Clear
<1>5. CASE UNCHANGED vars
  BY <1>5 DEF vars, Find, FoundAt, Used
<1> QED BY <1>1, <1>2, <1>3, <1>4, <1>5 DEF Next, Map!Next

\* The array with its linear search is the map: what the run RouteTable
\* checks for four paths holds for any paths, handlers and table size.
THEOREM TableImplementsMap == Spec => ImplementsMap
<1>1. Spec => []Inv
  BY InvInit, InvStep, PTL DEF Spec
<1> QED BY <1>1, MapInit, MapStep, PTL DEF Spec, ImplementsMap, Map!Spec
=============================================================================
