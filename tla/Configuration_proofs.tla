------------------------- MODULE Configuration_proofs -------------------------
(***************************************************************************)
(* For any settings, files, environments and number of loads: every string *)
(* of the configuration is owned, nothing is freed twice, what is lost is  *)
(* known, and each setting has the value of its strongest source.          *)
(*                                                                         *)
(* The close frees by the status; OwnedStrings says that the status tells  *)
(* constants from blocks, in both directions.  A struct that is not loaded *)
(* is initialised without a close, so the inductive invariant says that it *)
(* owns nothing (Emptied), whichever way it came to be not loaded.         *)
(***************************************************************************)
EXTENDS Configuration, TLAPS

Emptied == status = "not loaded" => \A f \in Strings : block[f] = NoBlock

IInv == TypeOK /\ OwnedStrings /\ OnlyOverriddenLost /\ Emptied

LEMMA NoBlockIsNone == NoBlock \notin Blocks
  BY DEF NoBlock, Blocks

LEMMA FreedOwned ==
    ASSUME TypeOK, OwnedStrings
    PROVE  Freed(Current) = {f \in Strings : block[f] # NoBlock}
<1> SUFFICES ASSUME NEW f \in Strings
             PROVE  (value[f] # "null" /\ origin[f] # "default") <=> block[f] # NoBlock
  BY DEF Freed, Current
<1>1. value[f] \in Origins \cup {"null"}
  BY DEF TypeOK, Current, Struct, Settings
<1>2. NoBlock \notin heap
  BY NoBlockIsNone DEF TypeOK
<1> QED
  BY <1>1, <1>2 DEF OwnedStrings, Origins

\* What a close frees is what the pointers own: no constant, no freed block.
LEMMA Owned ==
    ASSUME TypeOK, OwnedStrings
    PROVE  /\ FreedBlocks(Current) = {block[f] : f \in {g \in Strings : block[g] # NoBlock}}
           /\ FreedBlocks(Current) \subseteq heap
<1>1. Freed(Current) = {f \in Strings : block[f] # NoBlock}
  BY FreedOwned
<1> QED
  BY <1>1 DEF FreedBlocks, Current, OwnedStrings

LEMMA InitInv ==
    ASSUME Init
    PROVE  IInv
<1>1. NothingAsked \in Request
  BY DEF NothingAsked, Request, FileKinds, Entries
<1>2. Current \in Struct
  BY DEF Init, Current, Struct, Origins
<1>3. /\ status = "not loaded" /\ heap = {} /\ badFrees = {} /\ overridden = {}
      /\ inits = 0 /\ asked = NothingAsked
      /\ \A f \in Strings : block[f] = NoBlock /\ origin[f] = "default" /\ value[f] = "null"
  BY DEF Init, Settings
<1>4. inits \in 0..MaxInits
  <2>1. MaxInits \in Nat
    BY ConfigAssumption
  <2>2. inits = 0
    BY <1>3
  <2> QED
    BY <2>1, <2>2
<1>5. TypeOK
  BY <1>1, <1>2, <1>3, <1>4 DEF TypeOK
<1> QED
  BY <1>3, <1>5 DEF IInv, OwnedStrings, OnlyOverriddenLost, Emptied

\* What wrd_config_init frees of the struct it was given, and what is then lost.
LEMMA Reopened ==
    ASSUME IInv
    PROVE  /\ ReopenFrees \subseteq heap
           /\ heap \ ReopenFrees \subseteq overridden
<1> USE DEF IInv
<1>1. CASE status = "loaded"
  <2>1. /\ ReopenFrees = {block[f] : f \in {g \in Strings : block[g] # NoBlock}}
        /\ ReopenFrees \subseteq heap
    BY <1>1, Owned DEF ReopenFrees
  <2>2. NoBlock \notin heap
    BY NoBlockIsNone DEF TypeOK
  <2> QED
    BY <2>1, <2>2 DEF OnlyOverriddenLost
<1>2. CASE status # "loaded"
  <2>1. ReopenFrees = {} /\ \A f \in Strings : block[f] = NoBlock
    BY <1>2 DEF ReopenFrees, Emptied, TypeOK
  <2>2. NoBlock \notin heap
    BY NoBlockIsNone DEF TypeOK
  <2> QED
    BY <2>1, <2>2 DEF OnlyOverriddenLost
<1> QED
  BY <1>1, <1>2

LEMMA DefaultsType == Defaults \in Struct
  BY DEF Defaults, Struct, Origins

LEMMA NextInit ==
    ASSUME TypeOK, inits < MaxInits
    PROVE  inits + 1 \in 1..MaxInits /\ inits + 1 \in 0..MaxInits
<1>1. inits \in 0..MaxInits /\ MaxInits \in Nat
  BY ConfigAssumption DEF TypeOK
<1> QED
  BY <1>1

LEMMA NewBlocksType ==
    ASSUME NEW settings, NEW source \in {"file", "environment"}, TypeOK, inits < MaxInits
    PROVE  NewBlocks(settings, source) \subseteq Blocks
<1>1. inits + 1 \in 1..MaxInits
  BY NextInit
<1> QED
  BY <1>1 DEF NewBlocks, Blocks

LEMMA LoadedType ==
    ASSUME NEW s \in Struct, NEW settings, NEW source \in {"file", "environment"},
           TypeOK, inits < MaxInits
    PROVE  Loaded(s, settings, source) \in Struct
<1>1. inits + 1 \in 1..MaxInits
  BY NextInit
<1>2. \A f \in Strings : <<inits + 1, source, f>> \in Blocks
  BY <1>1 DEF Blocks
<1> QED
  BY <1>2 DEF Loaded, Struct, Origins

LEMMA InitKeeps ==
    ASSUME IInv, NEW r \in Request, ConfigInit(r)
    PROVE  IInv'
<1> USE DEF IInv
<1>1. inits < MaxInits /\ inits' = inits + 1 /\ asked' = r
  BY DEF ConfigInit
<1>2. inits' \in 0..MaxInits
  BY <1>1, NextInit
<1>3. ReopenFrees \subseteq heap /\ heap \ ReopenFrees \subseteq overridden
  BY Reopened
<1>4. badFrees' = {}
  BY <1>3 DEF ConfigInit, OwnedStrings
<1>5. CASE r.kind # "valid"
  <2>1. /\ Become(Defaults) /\ heap' = heap \ ReopenFrees /\ overridden' = overridden
        /\ status' \in {"loaded", "not loaded"}
    BY <1>5 DEF ConfigInit
  <2>2. Current' \in Struct
    BY <2>1, DefaultsType DEF Current, Become, Struct
  <2>3. TypeOK'
    BY <1>1, <1>2, <1>4, <2>1, <2>2 DEF TypeOK
  <2>4. OwnedStrings' /\ Emptied'
    <3>1. \A f \in Strings :
             block'[f] = NoBlock /\ value'[f] = "default" /\ origin'[f] = "default"
      BY <2>1 DEF Become, Defaults, Settings
    <3> QED
      BY <1>4, <3>1 DEF OwnedStrings, Emptied
  <2>5. OnlyOverriddenLost'
    BY <1>3, <2>1 DEF OnlyOverriddenLost
  <2> QED
    BY <2>3, <2>4, <2>5
<1>6. CASE r.kind = "valid"
  <2> DEFINE inFile == InFile(r.entries)
             file == NewBlocks(inFile, "file")
             environment == NewBlocks(r.env, "environment")
             given == WithEnvironment(FromFile(r.entries), r.env)
  <2>1. /\ Become(given)
        /\ status' = "loaded"
        /\ heap' = (heap \ ReopenFrees) \cup file \cup environment
        /\ overridden' = overridden \cup NewBlocks(inFile \cap r.env, "file")
    BY <1>6 DEF ConfigInit
  <2>2. file \subseteq Blocks /\ environment \subseteq Blocks
        /\ NewBlocks(inFile \cap r.env, "file") \subseteq Blocks
    BY <1>1, NewBlocksType
  <2>3. given \in Struct
    <3>1. Loaded(Defaults, inFile, "file") \in Struct
      BY <1>1, DefaultsType, LoadedType
    <3>2. FromFile(r.entries) \in Struct
      BY <3>1 DEF FromFile, Struct, Origins
    <3> QED
      BY <1>1, <3>2, LoadedType DEF WithEnvironment
  <2>4. Current' = given
    BY <2>1, <2>3 DEF Current, Become, Struct
  <2>5. TypeOK'
    <3>1. heap' \subseteq Blocks /\ overridden' \subseteq Blocks
      BY <2>1, <2>2 DEF TypeOK
    <3> QED
      BY <1>1, <1>2, <1>4, <2>1, <2>3, <2>4, <3>1 DEF TypeOK
  <2>6. ASSUME NEW f \in Strings
        PROVE  /\ block'[f] = IF f \in r.env THEN <<inits + 1, "environment", f>>
                              ELSE IF f \in inFile THEN <<inits + 1, "file", f>> ELSE NoBlock
               /\ origin'[f] = IF f \in r.env THEN "environment"
                               ELSE IF f \in inFile THEN "file" ELSE "default"
               /\ value'[f] = origin'[f]
    BY <2>1 DEF Become, WithEnvironment, FromFile, Loaded, Defaults, Settings
  <2>7. \A f \in Strings : f \in r.env => <<inits + 1, "environment", f>> \in environment
    BY DEF NewBlocks
  <2>8. \A f \in Strings : f \in inFile => <<inits + 1, "file", f>> \in file
    BY DEF NewBlocks
  <2> HIDE DEF inFile, file, environment, given
  <2>9. OwnedStrings'
    <3>1. ASSUME NEW f \in Strings
          PROVE  /\ value'[f] = "default" => origin'[f] = "default"
                 /\ value'[f] \in {"file", "environment"} =>
                       block'[f] \in heap' /\ origin'[f] # "default"
                 /\ block'[f] # NoBlock => value'[f] \in {"file", "environment"}
      <4>1. CASE f \in r.env
        BY <2>1, <2>2, <2>6, <2>7, <4>1, NoBlockIsNone
      <4>2. CASE f \notin r.env /\ f \in inFile
        BY <2>1, <2>2, <2>6, <2>8, <4>2, NoBlockIsNone
      <4>3. CASE f \notin r.env /\ f \notin inFile
        BY <2>6, <4>3
      <4> QED
        BY <4>1, <4>2, <4>3
    <3> QED
      BY <1>4, <3>1 DEF OwnedStrings
  <2>10. OnlyOverriddenLost'
    <3> SUFFICES ASSUME NEW b \in heap', \A f \in Strings : b # block'[f]
                 PROVE  b \in overridden'
      BY DEF OnlyOverriddenLost
    <3>1. CASE b \in heap \ ReopenFrees
      BY <1>3, <2>1, <3>1
    <3>2. CASE b \in file
      <4>1. PICK f \in inFile \cap Strings : b = <<inits + 1, "file", f>>
        BY <3>2 DEF file, NewBlocks
      <4>2. f \in r.env
        BY <2>6, <4>1
      <4> QED
        BY <2>1, <4>1, <4>2 DEF NewBlocks
    <3>3. CASE b \in environment
      <4>1. PICK f \in r.env \cap Strings : b = <<inits + 1, "environment", f>>
        BY <3>3 DEF environment, NewBlocks
      <4> QED
        BY <2>6, <4>1
    <3> QED
      BY <2>1, <3>1, <3>2, <3>3
  <2>11. Emptied'
    BY <2>1 DEF Emptied
  <2> QED
    BY <2>5, <2>9, <2>10, <2>11
<1> QED
  BY <1>5, <1>6

LEMMA CloseKeeps ==
    ASSUME IInv, ConfigClose
    PROVE  IInv'
<1> USE DEF IInv
<1>1. /\ status = "loaded" /\ status' = "not loaded"
      /\ Become(Closed(Current))
      /\ heap' = heap \ FreedBlocks(Current)
      /\ UNCHANGED <<inits, asked, overridden>>
  BY DEF ConfigClose
<1>2. /\ FreedBlocks(Current) = {block[f] : f \in {g \in Strings : block[g] # NoBlock}}
      /\ FreedBlocks(Current) \subseteq heap
  BY Owned
<1>3. badFrees' = {}
  BY <1>2 DEF ConfigClose, OwnedStrings
<1>4. Freed(Current) = {f \in Strings : block[f] # NoBlock}
  BY FreedOwned
<1>5. Current \in Struct
  BY DEF TypeOK
<1>6. /\ origin' = origin
      /\ value' = [f \in Settings |-> IF f \in Freed(Current) THEN "null" ELSE value[f]]
      /\ block' = [f \in Strings |-> IF f \in Freed(Current) THEN NoBlock ELSE block[f]]
  BY <1>1, <1>5 DEF Become, Closed, Current, Struct
<1>7. \A f \in Strings : block'[f] = NoBlock
  BY <1>4, <1>6
<1>8. Current' \in Struct
  <2>1. /\ origin \in [Settings -> Origins] /\ value \in [Settings -> Origins \cup {"null"}]
        /\ block \in [Strings -> Blocks \cup {NoBlock}]
    BY <1>5 DEF Current, Struct
  <2>2. /\ value' \in [Settings -> Origins \cup {"null"}]
        /\ block' \in [Strings -> Blocks \cup {NoBlock}]
    BY <1>6, <2>1
  <2> QED
    BY <1>6, <2>1, <2>2 DEF Current, Struct
<1>9. TypeOK'
  BY <1>1, <1>3, <1>8 DEF TypeOK
<1>10. OwnedStrings'
  <2>1. ASSUME NEW f \in Strings
        PROVE  /\ value'[f] \in {"default", "null"}
               /\ value'[f] = "default" => origin'[f] = "default"
    <3>1. f \in Settings /\ value[f] \in Origins \cup {"null"}
      BY <1>5 DEF Settings, Current, Struct
    <3>2. CASE f \in Freed(Current)
      BY <1>6, <3>1, <3>2
    <3>3. CASE f \notin Freed(Current)
      <4>1. block[f] = NoBlock /\ value'[f] = value[f] /\ origin'[f] = origin[f]
        BY <1>4, <1>6, <3>1, <3>3
      <4>2. NoBlock \notin heap
        BY NoBlockIsNone DEF TypeOK
      <4> QED
        BY <3>1, <4>1, <4>2 DEF OwnedStrings, Origins
    <3> QED
      BY <3>2, <3>3
  <2> QED
    BY <1>3, <1>7, <2>1 DEF OwnedStrings
<1>11. OnlyOverriddenLost'
  <2>1. NoBlock \notin heap
    BY NoBlockIsNone DEF TypeOK
  <2>2. heap' \subseteq overridden
    BY <1>1, <1>2, <2>1 DEF OnlyOverriddenLost
  <2> QED
    BY <1>1, <2>2 DEF OnlyOverriddenLost
<1>12. Emptied'
  BY <1>7 DEF Emptied
<1> QED
  BY <1>9, <1>10, <1>11, <1>12

LEMMA InvAlways == Spec => []IInv
<1>1. Init => IInv
  BY InitInv
<1>2. IInv /\ [Next]_vars => IInv'
  <2>1. CASE UNCHANGED vars
    BY <2>1 DEF vars, IInv, TypeOK, Current, OwnedStrings, OnlyOverriddenLost, Emptied
  <2> QED
    BY <2>1, InitKeeps, CloseKeeps DEF Next
<1> QED
  BY <1>1, <1>2, PTL DEF Spec

\* The struct and the heap keep their types.
THEOREM TypeCorrect == Spec => []TypeOK
  BY InvAlways, PTL DEF IInv

\* wrd_config_init and wrd_config_close, in any order and whatever fails, free
\* no constant and no string twice, and leave none that points to freed memory:
\* the status of a string is that of a default exactly when it is a constant.
THEOREM OwnershipCorrect == Spec => []OwnedStrings
  BY InvAlways, PTL DEF IInv

\* The only memory they lose is the text of the file for a setting that the
\* environment gave too.
THEOREM LossCorrect == Spec => []OnlyOverriddenLost
  BY InvAlways, PTL DEF IInv

\* After a file was read, each setting is the environment's, or else the file's,
\* or else the default.
THEOREM PrecedenceCorrect == Spec => []Precedence
<1>1. Init => Precedence
  BY DEF Init, Precedence
<1>2. IInv /\ Precedence /\ [Next]_vars => Precedence'
  <2>1. CASE UNCHANGED vars
    BY <2>1 DEF vars, Precedence, Given
  <2>2. CASE ConfigClose
    BY <2>2 DEF ConfigClose, Precedence
  <2>3. ASSUME NEW r \in Request, ConfigInit(r) PROVE Precedence'
    <3>1. CASE r.kind # "valid"
      BY <2>3, <3>1 DEF ConfigInit, Precedence
    <3>2. CASE r.kind = "valid"
      <4>1. Become(WithEnvironment(FromFile(r.entries), r.env)) /\ asked' = r
        BY <2>3, <3>2 DEF ConfigInit
      <4>2. ASSUME NEW f \in Settings
            PROVE  /\ origin'[f] = value'[f]
                   /\ value'[f] = IF f \in asked'.env THEN "environment"
                                  ELSE IF Given(f)' THEN "file" ELSE "default"
        <5>1. f \in InFile(r.entries) <=> Given(f)'
          BY <4>1 DEF InFile, Given
        <5> QED
          BY <4>1, <5>1 DEF Become, WithEnvironment, FromFile, Loaded, Defaults
      <4> QED
        BY <4>2 DEF Precedence
    <3> QED
      BY <3>1, <3>2
  <2> QED
    BY <2>1, <2>2, <2>3 DEF Next
<1> QED
  BY <1>1, <1>2, InvAlways, PTL DEF Spec
===============================================================================
