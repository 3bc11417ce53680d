------------------------------ MODULE QueryCache ------------------------------
(***************************************************************************)
(* TanStack Query as the console uses it: entries by query key, what a     *)
(* fetch, a reset and an invalidation do to them.  An entry survives the   *)
(* view that showed it; a fetch in flight is shared, and only a reset, or  *)
(* a newer fetch of an entry that has data, drops it.                      *)
(***************************************************************************)
EXTENDS Naturals

CONSTANT Nobody \* the tenant of no request

\* No fetch.
Idle == [phase |-> "idle", at |-> 0, again |-> FALSE, tenant |-> Nobody,
         rows |-> {}, asOf |-> 0]

\* A GET leaves, in the name of t; again: it is the one retry.
Sent(t, again) == [Idle EXCEPT !.phase = "reading", !.tenant = t, !.again = again]

NoData == [loaded |-> FALSE, rows |-> {}, asOf |-> 0, error |-> FALSE,
           invalid |-> FALSE, fetch |-> Idle]

Busy(e) == e.fetch.phase # "idle"

\* fetch: an error is forgotten unless there is data to show with it.
Fetching(e, t) == [e EXCEPT !.fetch = Sent(t, FALSE), !.error = @ /\ e.loaded]

\* refetchInterval: nothing while a fetch is in flight.
Polled(e, t) == IF Busy(e) THEN e ELSE Fetching(e, t)

\* refetch(), with cancelRefetch: a first load is not cancelled.
Refetched(e, t) == IF Busy(e) /\ ~e.loaded THEN e ELSE Fetching(e, t)

\* A view that shows the entries at K is mounted; those at old have passed
\* their staleTime.
Observed(c, K, old, t) ==
    [k \in DOMAIN c \cup K |->
        IF k \notin DOMAIN c THEN Fetching(NoData, t)
        ELSE IF k \in K /\ (~c[k].loaded \/ c[k].invalid \/ k \in old) THEN Polled(c[k], t)
        ELSE c[k]]

\* Mutant: the fetches in flight go on.
ResetKeepsFetches(c, K, t) ==
    [k \in K |-> IF Busy(c[k]) THEN [NoData EXCEPT !.fetch = c[k].fetch]
                 ELSE Fetching(NoData, t)]

\* resetQueries(): every entry as if it had never been fetched, and those on
\* screen are fetched.
Reset(c, K, t) == [k \in K |-> Fetching(NoData, t)]

\* Mutant: the fetch in flight is taken for a fresh one.
InvalidatedShares(c, K, query, t) ==
    [k \in DOMAIN c |->
        IF k[1] # query THEN c[k]
        ELSE LET e == [c[k] EXCEPT !.invalid = TRUE]
             IN IF k \in K THEN Polled(e, t) ELSE e]

\* invalidateQueries({ queryKey: [query] })
Invalidated(c, K, query, t) ==
    [k \in DOMAIN c |->
        IF k[1] # query THEN c[k]
        ELSE LET e == [c[k] EXCEPT !.invalid = TRUE]
             IN IF k \in K THEN Refetched(e, t) ELSE e]

\* A fetch ends with data.
Loaded(e) == [NoData EXCEPT !.loaded = TRUE, !.rows = e.fetch.rows, !.asOf = e.fetch.asOf]

\* A fetch fails: one retry while the entry is on screen, then the error.
Failed(e, onScreen, t) ==
    IF onScreen /\ ~e.fetch.again THEN [e EXCEPT !.fetch = Sent(t, TRUE)]
    ELSE [e EXCEPT !.error = TRUE, !.invalid = TRUE, !.fetch = Idle]

=============================================================================
