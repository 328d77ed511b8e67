------------------------------ MODULE Queries ------------------------------
(***************************************************************************)
(* One entry of the app's query cache (TanStack Query 5), as the hooks of  *)
(* src/mobile use it.  A call is two steps: the server reads, and the      *)
(* answer arrives.  The library's own retries are inside one call.         *)
(***************************************************************************)
CONSTANT NoData

Unloaded == [data |-> NoData, fresh |-> FALSE, call |-> "none", read |-> NoData]
Loaded(d) == [data |-> d, fresh |-> TRUE, call |-> "none", read |-> NoData]

Entries(Data) == [data : Data \cup {NoData}, fresh : BOOLEAN,
                  call : {"none", "asked", "read", "failed"}, read : Data \cup {NoData}]

InFlight(e) == e.call \in {"asked", "read"}
Ask(e) == [e EXCEPT !.call = "asked", !.read = NoData]
Reads(e, d) == [e EXCEPT !.call = "read", !.read = d]
Fail(e) == [e EXCEPT !.call = "failed", !.read = NoData]
Arrived(e) == Loaded(e.read)

\* A screen mounts: what is fresh or already asked for is not asked for again.
Observe(e) == IF e.fresh \/ InFlight(e) THEN e ELSE Ask(e)

\* refetch(): a first load under way is joined, a later one starts over.
Refetch(e) == IF InFlight(e) /\ e.data = NoData THEN e ELSE Ask(e)

\* An invalidation that leaves a call under way alone.
InvalidateGently(e, mounted) ==
    IF mounted /\ ~InFlight(e) THEN Ask(e) ELSE [e EXCEPT !.fresh = FALSE]

\* invalidateQueries: marked stale, and asked for again where a screen shows it.
Invalidate(e, mounted) ==
    LET stale == [e EXCEPT !.fresh = FALSE] IN IF mounted THEN Refetch(stale) ELSE stale

\* setQueryData: a call under way is left alone, and will overwrite it.
SetData(e, d) == [e EXCEPT !.data = d, !.fresh = TRUE]

=============================================================================
