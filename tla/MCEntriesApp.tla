----------------------------- MODULE MCEntriesApp -----------------------------
(* A small instance of EntriesApp for TLC. *)
EXTENDS EntriesApp, TLC

CONSTANTS d1, d2, bad

Ask(path, method, given, body, exact) ==
    [path |-> path, method |-> method, given |-> DOMAIN given,
     query |-> given @@ DefaultQuery, body |-> body, exact |-> exact]

Nothing == [f \in {} |-> 0]
Get(path, given) == Ask(path, "GET", given, NoBody, TRUE)
Post(path, given, body) == Ask(path, "POST", given, body, TRUE)

\* Every handler and every early return of one; both tables, so that the ids
\* of the two differ.  Few query strings, so that few are left behind.
FewRequests ==
    {Post("/app/entries", Nothing, d1),
     Post("/app/dashboards", [id |-> 1, multi |-> 1], d1),
     Post("/app/entries", Nothing, bad), Post("/app/entries", Nothing, NoBody),
     Post("/app/entries", [multi |-> 1], d1),
     Ask("/app/entries", "POST", Nothing, d2, FALSE),
     Ask("/app/dashboards", "OTHER", [id |-> 1, multi |-> 1], NoBody, TRUE),
     Get("/app/entries", Nothing),
     Get("/app/entries", [id |-> 1, multi |-> 1]),
     Get("/app/entries", [limit |-> 1, offset |-> 1]),
     Get("/app/entries", [limit |-> -1, order |-> "DESC", search |-> {d2}]),
     Get("/app/entries", [order |-> "created", limit |-> 1, offset |-> 1]),
     Get("/app/dashboards", [order |-> "invalid"]),
     Get("/app/keys", Nothing), Post("/app/keys", Nothing, d1),
     Get("/", Nothing), Get("file", Nothing), Get("large file", Nothing),
     Get("unsafe", Nothing), Post("file", Nothing, d1)}

WorkerSymmetry == Permutations(Workers)
=============================================================================
