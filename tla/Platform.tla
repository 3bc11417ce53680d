------------------------------- MODULE Platform -------------------------------
(***************************************************************************)
(* The console, the API it talks to, the seed script, and those others who *)
(* write to the collections, all at once.                                  *)
(***************************************************************************)
EXTENDS Console, SeedScript

vars == <<apiVars, consoleVars, seedVars>>

Init == ApiInit /\ ConsoleInit /\ SeedInit

Use == ConsoleNext /\ UNCHANGED seedVars

Others == OthersNext /\ UNCHANGED <<consoleVars, seedVars>>

Reseed == SeedNext /\ UNCHANGED consoleVars

Next == Use \/ Others \/ Reseed

Spec == Init /\ [][Next]_vars

\* The API answers or fails; the timers and callbacks of the page run; the seed
\* script's calls settle.  What the user and the others do is up to them.
Served(q) == \E k \in OnScreen : k[1] = q /\ (FetchStep(k) \/ Poll(k))

Fairness ==
    /\ \A q \in Queries : WF_vars(Served(q) /\ UNCHANGED seedVars)
    /\ WF_vars((\E p \in posts : PostStep(p)) /\ UNCHANGED seedVars)
    /\ WF_vars(SeedStep /\ UNCHANGED consoleVars)

FairSpec == Spec /\ Fairness

-----------------------------------------------------------------------------
(* Properties *)

\* The type invariant.
PlatformTypeOK == ApiTypeOK /\ ConsoleTypeOK /\ SeedTypeOK

\* Rows of another tenant than the one the sidebar names are neither on screen,
\* nor cached, nor on their way: handleChange stores the new tenant before it
\* resets the queries, which are keyed by page and filter and not by tenant.
\* It does not hold in a tab whose tenant another tab has changed.
RowsOfTenant ==
    meddled \/ \A k \in DOMAIN cache :
        \A d \in cache[k].rows \cup cache[k].fetch.rows : d.tenant = ui.tenant

\* A list of rules that is at rest on screen, and not in error, was read after
\* each rule the console was told it created: invalidateQueries in onSuccess of
\* createMut has to drop an older answer that is still on its way, as RulesView
\* never polls.  It does not drop all of them: an entry that was being loaded for
\* the first time then, or fetched while it was not on screen, may come to rest
\* without the rule; that entry, for that rule, is left out.
OwnRulesListed ==
    \A k \in OnScreen : \A r \in own :
        k[1] = "rules" /\ k \notin r.spared
        /\ cache[k].loaded /\ ~Busy(cache[k]) /\ ~cache[k].error
            => cache[k].asOf >= r.id

\* What was written in the form becomes one rule, however often Save is pressed
\* and the view is left and opened, unless an answer was lost.
CreatedOnce ==
    \A r, s \in db["rules"] : r.ref = s.ref /\ r.ref \notin unsure \cup {0} => r = s

\* The rules the form makes number their actions 0, 1, 2..., whatever was added
\* and removed: the processor takes the completed steps of an execution by the
\* order, so two actions of one order would count as one.
ConsoleOrdersDistinct ==
    \A r \in db["rules"] : r.ref # 0 => r.orders = [i \in 1..Len(r.orders) |-> i - 1]

\* What a run of the seed has written refers to what it has written for the
\* same tenant: an execution to a rule and a webhook, a replay to an execution
\* and its webhook, although inserts fail half-way and replays are carried out
\* meanwhile.
SeedClosed ==
    scene.left["ruleRemoval"] = 0 =>
        /\ \A x \in db["executions"] : x.id \in {d.id : d \in seed.executions} =>
              /\ \E r \in db["rules"] : r.id = x.ref /\ r.tenant = x.tenant
              /\ \E w \in db["webhooks"] : w.id = x.event /\ w.tenant = x.tenant
        /\ \A h \in db["replays"] : h.id \in {d.id : d \in seed.replays} =>
              \E x \in db["executions"] :
                 x.id = h.ref /\ x.event = h.event /\ x.tenant = h.tenant

\* src/README.md:51 calls the seed idempotent: once it writes, nothing that was there
\* when it was started is left of a demo tenant, a run that failed half-way included.
SeedIsIdempotent ==
    seed.pc \in {"create", "addRules", "addWebhooks", "addExecutions", "addReplays", "done"} =>
        \A c \in Collections : \A d \in db[c] :
            d.tenant \in DemoTenants => d.id > seed.since

\* The documents of a demo tenant are written only where the console's key for
\* it is the tenant's: a server that starts after the tenants were deleted
\* creates the default ones with another key.
SeededTenantsServe ==
    seed.pc \in {"addRules", "addWebhooks", "addExecutions", "addReplays", "done"} =>
        \A t \in DemoTenants : Admits(t)

\* types/index.ts:74 has an execution's ruleId a string or a rule, and
\* src/README.md:191 lets a rule be removed: the page renders any execution.
ExecutionRowsRender == ~ui.blank

\* What the query at k shows is what the API would answer now.
UpToDate(k) ==
    RowsShown(cache, k) =
        CASE k[1] = "stats" -> OfTenant("webhooks", ui.tenant) \cup OfTenant("rules", ui.tenant)
                                \cup OfTenant("executions", ui.tenant)
          [] k[1] = "webhooks" -> PageOf(FindWebhooks(ui.tenant, ui.filter), ui.page)
          [] k[1] = "replays" -> PageOf(FindReplays(ui.tenant, ui.filter), ui.page)
          [] OTHER -> Populated(PageOf(FindExecutions(ui.tenant, ui.filter), ui.page))

\* When nothing happens any more, every query that polls comes to show what is
\* stored, for the tenant, page and filter on screen, whatever was lost, late
\* or in flight before: errors are retried, a failed poll is followed by the
\* next one.  Not so where React gave up, the tab was meddled with, or the
\* console's key is not the tenant's.
ScreenCatchesUp ==
    <>[](\/ ui.blank \/ meddled \/ ~Admits(ui.tenant)
         \/ \A k \in OnScreen : k[1] \in Polling => UpToDate(k))

=============================================================================
