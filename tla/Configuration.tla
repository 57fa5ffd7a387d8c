---------------------------- MODULE Configuration ----------------------------
(***************************************************************************)
(* The settings of the server (conf.c, env.c): defaults, a JSON5 file and  *)
(* the environment, loaded and closed again and again in one struct, and   *)
(* who owns the memory of the strings.                                     *)
(*                                                                         *)
(* What matters of a setting is where its value is from.  A string that is *)
(* no default lives in a block of the heap of its own.                     *)
(***************************************************************************)
EXTENDS Naturals, FiniteSets

CONSTANTS
    Strings, Integers,  \* the settings, by type
    MaxInits            \* bound: calls of wrd_config_init

Settings == Strings \cup Integers

ASSUME ConfigAssumption ==
    /\ Strings \cap Integers = {}
    /\ MaxInits \in Nat

\* The file: no path, a file that cannot be read, an empty one, one that is not
\* JSON5, and one that is.  entries: what a valid one has for each setting.
FileKinds == {"no path", "unreadable", "empty", "malformed", "valid"}
Entries == {"none", "empty text", "text", "number"}

Blocks == (1..MaxInits) \X {"file", "environment"} \X Strings
\* The pointer points to no block: it is NULL, or to a constant.
NoBlock == <<>>

VARIABLES
    status,    \* config->status
    origin,    \* config->config_status
    value,     \* of each setting: where its value is from, or "null"
    block,     \* of each string: the block that its pointer points to
    heap,      \* the blocks that are allocated
    badFrees,  \* what was freed and was no allocated block (NoBlock: a constant)
    inits,     \* calls of wrd_config_init
    asked,     \* history: what the last call was given
    overridden \* history: blocks of the file that the environment replaced

vars == <<status, origin, value, block, heap, badFrees, inits, asked,
          overridden>>

Origins == {"default", "file", "environment"}

\* A call: its file, and the settings that the environment has.
Request == {r \in [kind : FileKinds, entries : [Settings -> Entries], env : SUBSET Settings] :
              r.kind # "valid" => \A f \in Settings : r.entries[f] = "none"}
NothingAsked == [kind |-> "no path", entries |-> [f \in Settings |-> "none"], env |-> {}]

\* The struct, as the steps of wrd_config_init hand it on.
Struct == [origin : [Settings -> Origins], value : [Settings -> Origins \cup {"null"}],
           block : [Strings -> Blocks \cup {NoBlock}]]
Current == [origin |-> origin, value |-> value, block |-> block]

Init ==
    /\ status = "not loaded"
    /\ origin = [f \in Settings |-> "default"]
    /\ value = [f \in Settings |-> "null"]
    /\ block = [f \in Strings |-> NoBlock]
    /\ heap = {} /\ badFrees = {} /\ inits = 0
    /\ asked = NothingAsked /\ overridden = {}

-------------------------------------------------------------------------------
\* FREE_CONFIG_STRING: every pointer that is not NULL and whose status is not
\* that of a default, wherever it points.
Freed(s) == {f \in Strings : s.value[f] # "null" /\ s.origin[f] # "default"}
Closed(s) ==
    [s EXCEPT !.value = [f \in Settings |-> IF f \in Freed(s) THEN "null" ELSE @[f]],
              !.block = [f \in Strings |-> IF f \in Freed(s) THEN NoBlock ELSE @[f]]]
FreedBlocks(s) == {s.block[f] : f \in Freed(s)}

\* Slip: the status of the load before stays.
DefaultsKeepStatus ==
    [origin |-> origin,
     value |-> [f \in Settings |-> "default"],
     block |-> [f \in Strings |-> NoBlock]]

\* wrd_config_init_defaults.
Defaults ==
    [origin |-> [f \in Settings |-> "default"],
     value |-> [f \in Settings |-> "default"],
     block |-> [f \in Strings |-> NoBlock]]

\* Slip: a number is no text.
InFileTyped(entries) == {f \in Settings :
    entries[f] = IF f \in Strings THEN "text" ELSE "number"}
\* wrd_load_string takes any value that has a text, wrd_load_integer only
\* integers.
InFile(entries) == {f \in Settings :
    entries[f] \in IF f \in Strings THEN {"text", "number"} ELSE {"number"}}

\* The settings of a set are loaded from a source: integers are overwritten,
\* strings get a new block.
Loaded(s, settings, source) ==
    [origin |-> [f \in Settings |-> IF f \in settings THEN source ELSE s.origin[f]],
     value |-> [f \in Settings |-> IF f \in settings THEN source ELSE s.value[f]],
     block |-> [f \in Strings |-> IF f \in settings THEN <<inits + 1, source, f>>
                                                      ELSE s.block[f]]]

\* Slip: the text of an integer is copied too.
NewBlocksOfAll(settings, source) == {<<inits + 1, source, f>> : f \in settings}
NewBlocks(settings, source) == {<<inits + 1, source, f>> : f \in settings \cap Strings}

\* The file's settings; the status of each is set, also of those it has not.
FromFile(entries) ==
    [Loaded(Defaults, InFile(entries), "file") EXCEPT
        !.origin = [f \in Settings |-> IF f \in InFile(entries) THEN "file" ELSE "default"]]
WithEnvironment(s, env) == Loaded(s, env, "environment")

Become(s) == origin' = s.origin /\ value' = s.value /\ block' = s.block

\* Slip: the defaults are set over a struct that is loaded.
ReopenFreesNothing == {}
\* wrd_config_init closes a struct that is loaded before it sets the defaults.
ReopenFrees == IF status = "loaded" THEN FreedBlocks(Current) ELSE {}

\* wrd_config_init.  Every error comes before the first setting is loaded; no
\* path and an empty file come before the environment is read.
ConfigInit(r) ==
    /\ inits < MaxInits
    /\ inits' = inits + 1
    /\ asked' = r
    /\ badFrees' = badFrees \cup (ReopenFrees \ heap)
    /\ \/ /\ r.kind \in {"no path", "empty"}
          /\ Become(Defaults)
          /\ status' = "loaded"
          /\ heap' = heap \ ReopenFrees
          /\ UNCHANGED overridden
       \/ /\ r.kind \in {"unreadable", "malformed"}
          /\ Become(Defaults)
          /\ status' = "not loaded"
          /\ heap' = heap \ ReopenFrees
          /\ UNCHANGED overridden
       \/ /\ r.kind = "valid"
          /\ Become(WithEnvironment(FromFile(r.entries), r.env))
          /\ status' = "loaded"
          /\ heap' = (heap \ ReopenFrees) \cup NewBlocks(InFile(r.entries), "file")
                                         \cup NewBlocks(r.env, "environment")
          /\ overridden' = overridden \cup NewBlocks(InFile(r.entries) \cap r.env, "file")

\* wrd_config_close.
ConfigClose ==
    /\ status = "loaded"
    /\ status' = "not loaded"
    /\ Become(Closed(Current))
    /\ heap' = heap \ FreedBlocks(Current)
    /\ badFrees' = badFrees \cup (FreedBlocks(Current) \ heap)
    /\ UNCHANGED <<inits, asked, overridden>>

Next == (\E r \in Request : ConfigInit(r)) \/ ConfigClose

Spec == Init /\ [][Next]_vars

-------------------------------------------------------------------------------
TypeOK ==
    /\ status \in {"loaded", "not loaded"}
    /\ Current \in Struct
    /\ heap \subseteq Blocks /\ overridden \subseteq Blocks
    /\ badFrees \subseteq Blocks \cup {NoBlock}
    /\ inits \in 0..MaxInits
    /\ asked \in Request

\* However often the struct is loaded, fails to load and is closed: no constant
\* and no freed block is freed, because the status that wrd_config_close goes by
\* is that of a default exactly for the constants, and no pointer is left to a
\* block that is not allocated.
OwnedStrings ==
    /\ badFrees = {}
    /\ \A f \in Strings :
          /\ value[f] = "default" => origin[f] = "default"
          /\ value[f] \in {"file", "environment"} =>
                block[f] \in heap /\ origin[f] # "default"
          /\ block[f] # NoBlock => value[f] \in {"file", "environment"}

\* Loading and closing the configuration loses no memory, except the text that
\* the file gave for a setting that the environment gave too.
OnlyOverriddenLost == heap \ {block[f] : f \in Strings} \subseteq overridden

\* With a file that was read, each setting is the environment's, or else the
\* file's if it has a text or a number there (for an integer, a number), or else
\* the default, and its status says so; nothing of an earlier load is left.
Given(f) == asked.entries[f] = "number" \/ (f \in Strings /\ asked.entries[f] = "text")
Precedence ==
    status = "loaded" /\ asked.kind = "valid" =>
        \A f \in Settings :
            /\ origin[f] = value[f]
            /\ value[f] = IF f \in asked.env THEN "environment"
                          ELSE IF Given(f) THEN "file" ELSE "default"
===============================================================================
