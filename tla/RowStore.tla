------------------------------- MODULE RowStore -------------------------------
(***************************************************************************)
(* What the entries application expects of its database file: a set of     *)
(* rows to which one INSERT at a time adds one row, whatever processes     *)
(* die in between.  Once a process closed the database while others have   *)
(* it open (exposed), only the rows stored before are kept.                *)
(***************************************************************************)
CONSTANT Rows
VARIABLES
    rows,    \* what a process that opens the database would find
    kept,    \* the rows that were stored while the database was not exposed
    exposed

Init == rows = {} /\ kept = {} /\ exposed = FALSE

Store(r) ==
    /\ ~exposed
    /\ rows' = rows \cup {r}
    /\ kept' = kept \cup {r}
    /\ UNCHANGED exposed

Expose ==
    /\ exposed' = TRUE
    /\ kept' \in SUBSET kept
    /\ UNCHANGED rows

WhileExposed ==
    /\ exposed
    /\ rows' \in SUBSET Rows
    /\ kept \subseteq rows'
    /\ UNCHANGED <<kept, exposed>>

Next == (\E r \in Rows : Store(r)) \/ Expose \/ WhileExposed

Spec == Init /\ [][Next]_<<rows, kept, exposed>>
===============================================================================
