---------------------------- MODULE PlatformProofs ----------------------------
(***************************************************************************)
(* Theorems about Platform: whose rows a tab has, what the form makes of a *)
(* rule, and what the seed script leaves behind.                           *)
(***************************************************************************)
EXTENDS Platform, FiniteSetTheorems, TLAPS

\* What the steps of Platform do to a variable is written as EXCEPT: the fields
\* must be there.
IsDoc(d) == DOMAIN d = {"id", "tenant", "status", "ref", "event", "orders"}

IsFetch(f) == DOMAIN f = {"phase", "at", "again", "tenant", "rows", "asOf"}

IsEntry(e) ==
    /\ DOMAIN e = {"loaded", "rows", "asOf", "error", "invalid", "fetch"}
    /\ IsFetch(e.fetch)

SeedFields == {"pc", "at", "since", "webhooks", "executions", "replays"}

DocsInv ==
    /\ DOMAIN seed = SeedFields
    /\ DOMAIN db = Collections
    /\ \A c \in Collections : \A d \in db[c] : IsDoc(d)
    /\ \A d \in seed.webhooks \cup seed.executions : IsDoc(d)

LEMMA MadeDocs ==
    /\ \A id, t, draft, orders : IsDoc(RuleDoc(id, t, draft, orders))
    /\ \A id, t, x, event : IsDoc(HistoryDoc(id, t, x, event))
    /\ \A x, id, status : IsDoc(ReplayOf(x, id, status))
    /\ \A id, t, executions : IsDoc(WebhookDoc(id, t, executions))
    /\ \A d, status : IsDoc(d) => IsDoc([d EXCEPT !.status = status])
BY DEF IsDoc, RuleDoc, HistoryDoc, ReplayOf, WebhookDoc

LEMMA PlannedDocs ==
    ASSUME NEW base, NEW off, NEW lists, NEW rules, NEW webhooks, NEW executions
    PROVE  /\ \A d \in PlannedRules(base, off) : IsDoc(d)
           /\ \A d \in PlannedExecutions(lists, base, rules, webhooks) : IsDoc(d)
           /\ \A d \in PlannedWebhooks(executions, base) : IsDoc(d)
           /\ \A d \in PlannedReplays(base) : IsDoc(d)
<1>1. ASSUME NEW d \in PlannedRules(base, off)
      PROVE  IsDoc(d)
  <2>1. PICK i \in 1..Len(Demo), r \in 1..RulesPer :
           d = [RuleDoc(base + (i - 1) * RulesPer + r, Demo[i], 0,
                        IF r % 5 = 1 THEN <<0, 1>> ELSE <<0>>)
                  EXCEPT !.status = IF r \in off THEN "inactive" ELSE "active"]
    BY <1>1 DEF PlannedRules
  <2> QED
    BY <2>1, MadeDocs, Zenon
<1>2. \A d \in PlannedExecutions(lists, base, rules, webhooks) : IsDoc(d)
  BY DEF PlannedExecutions, IsDoc
<1>3. ASSUME NEW d \in PlannedWebhooks(executions, base)
      PROVE  IsDoc(d)
  <2>1. PICK i \in 1..Len(Demo), w \in 1..EventsPer :
          d = WebhookDoc(base + (i - 1) * EventsPer + w, Demo[i], executions)
    BY <1>3 DEF PlannedWebhooks
  <2> QED
    BY <2>1, MadeDocs, Zenon
<1>4. ASSUME NEW d \in PlannedReplays(base)
      PROVE  IsDoc(d)
  <2>1. PICK i \in 1..Len(Demo), n \in 1..(IF ExecutionsPer = 0 THEN 0 ELSE ReplaysPer) :
          d = ReplayOf(InTurn(Sources(Demo[i]), n - 1), base + (i - 1) * ReplaysPer + n,
                       ReplayStatus[((n - 1) % 3) + 1])
    BY <1>4 DEF PlannedReplays
  <2> QED
    BY <2>1, MadeDocs, Zenon
<1> QED
  BY <1>1, <1>2, <1>3, <1>4

\* A collection whose documents are well made stays so under the writes.
LEMMA StatusWritten ==
    ASSUME DocsInv, NEW c \in Collections, NEW d \in db[c], NEW status,
           SetStatus(c, d, status)
    PROVE  /\ DOMAIN db' = Collections
           /\ \A b \in Collections : \A e \in db'[b] : IsDoc(e)
<1>1. db'[c] = (db[c] \ {d}) \cup {[d EXCEPT !.status = status]}
  BY DEF DocsInv, SetStatus
<1>2. IsDoc([d EXCEPT !.status = status])
  BY MadeDocs DEF DocsInv
<1> QED
  BY <1>1, <1>2 DEF DocsInv, SetStatus

LEMMA OthersWrite ==
    ASSUME DocsInv, OthersNext
    PROVE  /\ DOMAIN db' = Collections
           /\ \A c \in Collections : \A d \in db'[c] : IsDoc(d)
<1>1. CASE EngineWrites
  <2>1. DOMAIN EngineMoves \subseteq Collections
    BY DEF EngineMoves, Collections
  <2> QED
    BY <1>1, <2>1, StatusWritten, Zenon DEF EngineWrites
<1>2. CASE EngineStarts
  <2>1. PICK r \in db["rules"] :
          LET event == [id |-> lastId + 1, tenant |-> r.tenant, status |-> "processing",
                        ref |-> 0, event |-> 0, orders |-> <<>>]
              execution == [event EXCEPT !.id = lastId + 2, !.ref = r.id,
                                         !.event = lastId + 1]
          IN db' = [db EXCEPT !["webhooks"] = @ \cup {event},
                              !["executions"] = @ \cup {execution}]
    BY <1>2, Zenon DEF EngineStarts
  <2> DEFINE event == [id |-> lastId + 1, tenant |-> r.tenant, status |-> "processing",
                       ref |-> 0, event |-> 0, orders |-> <<>>]
             execution == [event EXCEPT !.id = lastId + 2, !.ref = r.id,
                                        !.event = lastId + 1]
  <2>2. IsDoc(event) /\ IsDoc(execution)
    BY DEF IsDoc
  <2>3. db' = [db EXCEPT !["webhooks"] = @ \cup {event},
                         !["executions"] = @ \cup {execution}]
    BY <2>1
  <2> HIDE DEF event, execution
  <2> QED
    BY <2>2, <2>3 DEF DocsInv, Collections
<1>3. CASE UpdateRule
  BY <1>3, StatusWritten, Zenon DEF UpdateRule, Collections
<1>4. CASE RemoveRule
  BY <1>4 DEF RemoveRule, DocsInv, Collections
<1>5. CASE RestartServer
  BY <1>5 DEF RestartServer, DocsInv
<1> QED
  BY <1>1, <1>2, <1>3, <1>4, <1>5 DEF OthersNext

\* A step of the script that keeps what is planned.
LEMMA PlanKept ==
    ASSUME DOMAIN seed = SeedFields, NEW at, NEW pc, NEW replays,
           \/ seed' = [seed EXCEPT !.pc = pc]
           \/ seed' = [seed EXCEPT !.at = at, !.pc = pc]
           \/ seed' = [seed EXCEPT !.pc = pc, !.replays = replays]
    PROVE  /\ DOMAIN seed' = SeedFields
           /\ seed'.webhooks = seed.webhooks /\ seed'.executions = seed.executions
           /\ seed'.since = seed.since /\ seed'.pc = pc
BY DEF SeedFields

LEMMA SeedWrites ==
    ASSUME DocsInv, SeedNext
    PROVE  DocsInv'
<1> DEFINE Wrote(c, D) == /\ \A d \in D : IsDoc(d)
                          /\ InsertMany(c, D)
<1>0. ASSUME NEW c \in Collections, NEW D, Wrote(c, D)
      PROVE  /\ DOMAIN db' = Collections
             /\ \A b \in Collections : \A d \in db'[b] : IsDoc(d)
  BY <1>0 DEF DocsInv, InsertMany
<1> HIDE DEF Wrote
<1>1. CASE StartSeed \/ SeedFault \/ DeleteTenants \/ CreateTenant
  <2>1. UNCHANGED db
    BY <1>1 DEF StartSeed, SeedFault, DeleteTenants, CreateTenant
  <2>2. CASE StartSeed
    BY <2>1, <2>2 DEF StartSeed, DocsInv, SeedFields
  <2>3. CASE SeedFault
    BY <2>1, <2>3 DEF SeedFault, DocsInv
  <2>4. CASE DeleteTenants
    BY <2>1, <2>4 DEF DeleteTenants, DocsInv
  <2>5. CASE CreateTenant
    <3>1. \E at, pc : \/ seed' = [seed EXCEPT !.pc = pc]
                      \/ seed' = [seed EXCEPT !.at = at, !.pc = pc]
      BY <2>5, Zenon DEF CreateTenant
    <3> QED
      BY <2>1, <3>1, PlanKept DEF DocsInv
  <2> QED
    BY <1>1, <2>2, <2>3, <2>4, <2>5
<1>2. ASSUME NEW c \in DOMAIN Cleanup, DeleteDocuments(c)
      PROVE  DocsInv'
  BY <1>2 DEF DeleteDocuments, DocsInv, Cleanup, Collections
<1>3. CASE AddRules
  <2>1. PICK off \in Draws : InsertMany("rules", PlannedRules(lastId, off))
    BY <1>3 DEF AddRules
  <2>2. /\ DOMAIN seed' = SeedFields
        /\ \A d \in seed'.webhooks \cup seed'.executions : IsDoc(d)
    <3> DEFINE webhooksFrom == lastId + Len(Demo) * RulesPer
               executionsFrom == webhooksFrom + Len(Demo) * EventsPer
    <3>1. PICK lists \in [1..Len(Demo) -> Shuffles] :
             LET executions == PlannedExecutions(lists, executionsFrom, lastId, webhooksFrom)
             IN seed' = [seed EXCEPT !.pc = "addWebhooks", !.executions = executions,
                                     !.webhooks = PlannedWebhooks(executions, webhooksFrom)]
      BY <1>3 DEF AddRules
    <3> HIDE DEF webhooksFrom, executionsFrom
    <3> DEFINE executions == PlannedExecutions(lists, executionsFrom, lastId, webhooksFrom)
               webhooks == PlannedWebhooks(executions, webhooksFrom)
    <3>2. \A d \in executions \cup webhooks : IsDoc(d)
      <4>1. \A d \in executions : IsDoc(d)
        BY PlannedDocs
      <4> HIDE DEF executions
      <4>2. \A d \in webhooks : IsDoc(d)
        BY PlannedDocs
      <4> QED
        BY <4>1, <4>2
    <3>3. seed' = [seed EXCEPT !.pc = "addWebhooks", !.executions = executions,
                               !.webhooks = webhooks]
      BY <3>1
    <3> HIDE DEF executions, webhooks
    <3> QED
      BY <3>2, <3>3 DEF DocsInv, SeedFields
  <2>3. Wrote("rules", PlannedRules(lastId, off))
    BY <2>1, PlannedDocs DEF Wrote
  <2> QED
    BY <1>0, <2>2, <2>3 DEF DocsInv, Collections
<1>4. CASE AddWebhooks
  <2>1. Wrote("webhooks", seed.webhooks) /\ seed' = [seed EXCEPT !.pc = "addExecutions"]
    BY <1>4 DEF AddWebhooks, Wrote, DocsInv
  <2> QED
    BY <1>0, <2>1 DEF DocsInv, Collections
<1>5. CASE AddExecutions
  <2>1. Wrote("executions", seed.executions) /\ seed' = [seed EXCEPT !.pc = "addReplays"]
    BY <1>5 DEF AddExecutions, Wrote, DocsInv
  <2> QED
    BY <1>0, <2>1 DEF DocsInv, Collections
<1>6. CASE AddReplays
  <2>1. /\ Wrote("replays", PlannedReplays(lastId))
        /\ seed' = [seed EXCEPT !.pc = "done", !.replays = PlannedReplays(lastId)]
    BY <1>6, PlannedDocs DEF AddReplays, Wrote
  <2> QED
    BY <1>0, <2>1 DEF DocsInv, Collections
<1>7. ASSUME NEW c \in Collections, NEW pc, NEW D, InsertFault(c, pc, D),
             \A d \in D : IsDoc(d)
      PROVE  DocsInv'
  <2>1. PICK d \in D : InsertMany(c, {e \in D : e.id <= d.id})
    BY <1>7 DEF InsertFault
  <2>2. Wrote(c, {e \in D : e.id <= d.id})
    BY <1>7, <2>1 DEF Wrote
  <2>3. PICK replays : seed' = [seed EXCEPT !.pc = "aborted", !.replays = replays]
    BY <1>7, Zenon DEF InsertFault
  <2> QED
    BY <1>0, <2>2, <2>3 DEF DocsInv
<1>8. CASE \E off \in Draws : InsertFault("rules", "addRules", PlannedRules(lastId, off))
  BY <1>7, <1>8, PlannedDocs DEF Collections
<1>9. CASE \/ InsertFault("webhooks", "addWebhooks", seed.webhooks)
           \/ InsertFault("executions", "addExecutions", seed.executions)
           \/ InsertFault("replays", "addReplays", PlannedReplays(lastId))
  BY <1>7, <1>9, PlannedDocs DEF Collections, DocsInv
<1> QED
  BY <1>1, <1>2, <1>3, <1>4, <1>5, <1>6, <1>8, <1>9 DEF SeedNext, SeedStep

-----------------------------------------------------------------------------
(* Whose rows a tab has *)

\* The rows of an entry, and what a fetch brings, are of tenant t.
Ours(e, t) ==
    /\ IsEntry(e)
    /\ \A d \in e.rows \cup e.fetch.rows : IsDoc(d) /\ d.tenant = t
    /\ Busy(e) => e.fetch.tenant = t

AllOurs(c, t) == \A k \in DOMAIN c : Ours(c[k], t)

LEMMA FetchIsOurs ==
    ASSUME NEW e, NEW t, Ours(e, t)
    PROVE  /\ Ours(NoData, t)
           /\ \A again : Ours([e EXCEPT !.fetch = Sent(t, again)], t)
           /\ Ours(Fetching(e, t), t) /\ Ours(Polled(e, t), t) /\ Ours(Refetched(e, t), t)
           /\ Ours([e EXCEPT !.invalid = TRUE], t)
           /\ Ours(Loaded(e), t)
           /\ \A onScreen : Ours(Failed(e, onScreen, t), t)
<1>1. Ours(NoData, t)
  BY DEF Ours, IsEntry, IsFetch, NoData, Idle, Busy
<1>2. ASSUME NEW again
      PROVE  Ours([e EXCEPT !.fetch = Sent(t, again)], t)
  BY DEF Ours, IsEntry, IsFetch, Sent, Idle, Busy
<1>3. Ours(Fetching(e, t), t)
  BY DEF Ours, IsEntry, IsFetch, Fetching, Sent, Idle, Busy
<1>4. Ours(Polled(e, t), t) /\ Ours(Refetched(e, t), t)
  BY <1>3 DEF Polled, Refetched
<1>5. Ours([e EXCEPT !.invalid = TRUE], t)
  BY DEF Ours, IsEntry, IsFetch, Busy
<1>6. Ours(Loaded(e), t)
  BY DEF Ours, IsEntry, IsFetch, Loaded, NoData, Idle, Busy
<1>7. ASSUME NEW onScreen
      PROVE  Ours(Failed(e, onScreen, t), t)
  <2>1. Ours([e EXCEPT !.error = TRUE, !.invalid = TRUE, !.fetch = Idle], t)
    BY DEF Ours, IsEntry, IsFetch, Idle, Busy
  <2> QED
    BY <1>2, <2>1 DEF Failed
<1> QED
  BY <1>1, <1>2, <1>3, <1>4, <1>5, <1>6, <1>7

LEMMA CacheIsOurs ==
    ASSUME NEW c, NEW t, AllOurs(c, t), NEW K, NEW old, NEW query
    PROVE  /\ AllOurs(Observed(c, K, old, t), t)
           /\ AllOurs(Reset(c, K, t), t)
           /\ AllOurs(Invalidated(c, K, query, t), t)
           /\ AllOurs(Observed(NoEntries, K, old, t), t)
<1>0. Ours(Fetching(NoData, t), t)
  <2>1. Ours(NoData, t)
    BY DEF Ours, IsEntry, IsFetch, NoData, Idle, Busy
  <2> QED
    BY <2>1, FetchIsOurs
<1>1. \A k \in DOMAIN c : Ours(Polled(c[k], t), t)
  BY FetchIsOurs DEF AllOurs
<1>2. AllOurs(Observed(c, K, old, t), t)
  BY <1>0, <1>1 DEF AllOurs, Observed
<1>3. AllOurs(Reset(c, K, t), t)
  BY <1>0 DEF AllOurs, Reset
<1>4. AllOurs(Invalidated(c, K, query, t), t)
  <2>1. ASSUME NEW k \in DOMAIN c
        PROVE  /\ Ours([c[k] EXCEPT !.invalid = TRUE], t)
               /\ Ours(Refetched([c[k] EXCEPT !.invalid = TRUE], t), t)
    <3>1. Ours([c[k] EXCEPT !.invalid = TRUE], t)
      BY FetchIsOurs DEF AllOurs
    <3> QED
      BY <3>1, FetchIsOurs
  <2> QED
    BY <2>1 DEF AllOurs, Invalidated
<1>5. AllOurs(Observed(NoEntries, K, old, t), t)
  BY <1>0 DEF AllOurs, Observed, NoEntries
<1> QED
  BY <1>2, <1>3, <1>4, <1>5

UiFields == {"tenant", "view", "page", "filter", "replaying", "blank"}

\* A tab nobody else has changed shows the tenant its requests go out for.
TabInv ==
    /\ DOMAIN ui = UiFields
    /\ meddled \in BOOLEAN
    /\ ~meddled => stored = ui.tenant /\ AllOurs(cache, stored)

LEMMA PresentTab ==
    ASSUME NEW u, NEW c, Present(u, c), DOMAIN u = UiFields, meddled' \in BOOLEAN,
           ~meddled' => stored' = u.tenant /\ AllOurs(c, stored')
    PROVE  TabInv'
<1>1. DOMAIN ui' = UiFields /\ ui'.tenant = u.tenant /\ cache' = c
  BY DEF Present, UiFields
<1> QED
  BY <1>1 DEF TabInv

\* What a handler reads is of the tenant it is asked for.
LEMMA ReadIsOurs ==
    ASSUME DocsInv, NEW k, NEW f, \A d \in f.rows : IsDoc(d) /\ d.tenant = f.tenant
    PROVE  \A d \in ReadNext(k, f) : IsDoc(d) /\ d.tenant = f.tenant
<1>1. \A c \in Collections : \A d \in OfTenant(c, f.tenant) : IsDoc(d) /\ d.tenant = f.tenant
  BY DEF OfTenant, DocsInv
<1>2. \A S, page : PageOf(S, page) \subseteq S
  BY DEF PageOf
<1>3. ASSUME NEW d \in Populated(f.rows)
      PROVE  IsDoc(d) /\ d.tenant = f.tenant
  <2>1. PICK x \in f.rows : d = [x EXCEPT !.ref = IF @ \in Ids(db) THEN @ ELSE 0,
                                        !.event = IF @ \in Ids(db) THEN @ ELSE 0]
    BY <1>3 DEF Populated
  <2> QED
    BY <2>1 DEF IsDoc
<1>4. \A at : Stats(f.tenant, at) \subseteq UNION {OfTenant(c, f.tenant) : c \in Collections}
  BY DEF Stats, Collections
<1>5. \A filter : /\ FindRules(f.tenant, filter) \subseteq OfTenant("rules", f.tenant)
                  /\ FindWebhooks(f.tenant, filter) \subseteq OfTenant("webhooks", f.tenant)
                  /\ FindReplays(f.tenant, filter) \subseteq OfTenant("replays", f.tenant)
                  /\ FindExecutions(f.tenant, filter) \subseteq OfTenant("executions", f.tenant)
  BY DEF FindRules, FindWebhooks, FindReplays, FindExecutions
<1>6. {"rules", "webhooks", "replays", "executions"} \subseteq Collections
  BY DEF Collections
<1> QED
  BY <1>1, <1>2, <1>3, <1>4, <1>5, <1>6 DEF ReadNext

LEMMA UserKeepsTab ==
    ASSUME TabInv, UserStep
    PROVE  TabInv'
<1>1. ASSUME NEW view, NEW old, Navigate(view, old)
      PROVE  TabInv'
  <2> DEFINE u == Fresh(ui.tenant, view)
  <2>1. /\ Present(u, Observed(cache, KeysOf(u), old, stored))
        /\ UNCHANGED <<stored, meddled>>
    BY <1>1 DEF Navigate
  <2>2. DOMAIN u = UiFields /\ u.tenant = ui.tenant
    BY DEF Fresh, UiFields
  <2> HIDE DEF u
  <2> QED
    BY <2>1, <2>2, PresentTab, CacheIsOurs DEF TabInv
<1>2. ASSUME NEW t, SwitchTenant(t)
      PROVE  TabInv'
  <2> DEFINE u == [ui EXCEPT !.tenant = t]
             c == Reset(cache, KeysOf(ui), t)
  <2>1. Present(u, c) /\ stored' = t /\ UNCHANGED meddled
    BY <1>2 DEF SwitchTenant
  <2>2. DOMAIN u = UiFields /\ u.tenant = t
    BY DEF TabInv, UiFields
  <2>3. AllOurs(c, t)
    <3>1. Ours(NoData, t)
      BY DEF Ours, IsEntry, IsFetch, NoData, Idle, Busy
    <3> QED
      BY <3>1, FetchIsOurs DEF AllOurs, Reset
  <2> HIDE DEF u, c
  <2> QED
    BY <2>1, <2>2, <2>3, PresentTab DEF TabInv
<1>3. ASSUME NEW t, OtherTab(t)
      PROVE  TabInv'
  BY <1>3 DEF OtherTab, TabInv
<1>4. ASSUME NEW page, NEW filter, NEW old, TurnTo(page, filter, old)
      PROVE  TabInv'
  <2> DEFINE u == [ui EXCEPT !.page = page, !.filter = filter]
  <2>1. /\ Present(u, Observed(cache, KeysOf(u), old, stored))
        /\ UNCHANGED <<stored, meddled>>
    BY <1>4 DEF TurnTo
  <2>2. DOMAIN u = UiFields /\ u.tenant = ui.tenant
    BY DEF TabInv, UiFields
  <2> HIDE DEF u
  <2> QED
    BY <2>1, <2>2, PresentTab, CacheIsOurs DEF TabInv
<1>5. ASSUME NEW k, Refresh(k)
      PROVE  TabInv'
  <2> DEFINE c == [cache EXCEPT ![k] = Refetched(@, stored)]
  <2>1. Present(ui, c) /\ UNCHANGED <<stored, meddled>>
    BY <1>5 DEF Refresh
  <2>2. ~meddled => AllOurs(c, stored)
    BY FetchIsOurs DEF TabInv, AllOurs
  <2> HIDE DEF c
  <2> QED
    BY <2>1, <2>2, PresentTab DEF TabInv
<1>6. CASE Reload
  <2> DEFINE u == Fresh(stored, ui.view)
             c == Observed(NoEntries, KeysOf(u), {}, stored)
  <2>1. Present(u, c) /\ UNCHANGED stored /\ meddled' = FALSE
    BY <1>6 DEF Reload
  <2>2. DOMAIN u = UiFields /\ u.tenant = stored
    BY DEF Fresh, UiFields
  <2>3. AllOurs(c, stored)
    <3>1. AllOurs(NoEntries, stored)
      BY DEF AllOurs, NoEntries
    <3> QED
      BY <3>1, CacheIsOurs
  <2> HIDE DEF u, c
  <2> QED
    BY <2>1, <2>2, <2>3, PresentTab
<1>7. CASE \/ OpenForm \/ FillForm \/ AddAct \/ CancelForm \/ Submit
           \/ \E i \in 1..Len(form.orders) : RemoveAct(i)
  <2>1. UNCHANGED <<stored, ui, cache, meddled>>
    BY <1>7 DEF OpenForm, FillForm, AddAct, CancelForm, Submit, RemoveAct, EditForm
  <2> QED
    BY <2>1 DEF TabInv
<1>8. ASSUME NEW x, ClickReplay(x)
      PROVE  TabInv'
  <2>1. /\ ui' = [ui EXCEPT !.replaying = x]
        /\ UNCHANGED <<stored, cache, meddled>>
    BY <1>8 DEF ClickReplay
  <2>2. DOMAIN ui' = UiFields /\ ui'.tenant = ui.tenant
    BY <2>1 DEF TabInv, UiFields
  <2> QED
    BY <2>1, <2>2 DEF TabInv
<1>9. ASSUME NEW old, TurnPage(old) \/ \E filter : SelectFilter(filter, old)
      PROVE  TabInv'
  BY <1>4, <1>9 DEF TurnPage, SelectFilter
<1> QED
  BY <1>1, <1>2, <1>3, <1>5, <1>6, <1>7, <1>8, <1>9 DEF UserStep

LEMMA NetworkKeepsTab ==
    ASSUME DocsInv, TabInv, NEW k,
           FetchStep(k) \/ LoseAnswer(k) \/ Poll(k)
    PROVE  TabInv'
<1>1. ASSUME NEW e, cache' = [cache EXCEPT ![k] = e], UNCHANGED <<stored, ui, meddled>>,
             ~meddled /\ k \in DOMAIN cache => Ours(e, stored)
      PROVE  TabInv'
  BY <1>1 DEF TabInv, AllOurs
<1>2. ASSUME NEW e, Present(ui, [cache EXCEPT ![k] = e]), UNCHANGED <<stored, meddled>>,
             ~meddled /\ k \in DOMAIN cache => Ours(e, stored)
      PROVE  TabInv'
  <2>1. ~meddled => AllOurs([cache EXCEPT ![k] = e], stored)
    BY <1>2 DEF TabInv, AllOurs
  <2> QED
    BY <1>2, <2>1, PresentTab DEF TabInv
<1>3. ~meddled /\ k \in DOMAIN cache => Ours(cache[k], stored)
  BY DEF TabInv, AllOurs
<1>4. CASE Answer(k)
  <2> DEFINE f == cache[k].fetch
             last == f.at + 1 = Awaits[k[1]]
             g == IF f.at = 0 /\ ~Admits(f.tenant) THEN [f EXCEPT !.phase = "failed"]
                  ELSE [f EXCEPT !.at = @ + 1, !.rows = ReadNext(k, f),
                                 !.asOf = IF f.at = 0 THEN lastId ELSE @,
                                 !.phase = IF last THEN "read" ELSE "reading"]
             e == [cache[k] EXCEPT !.fetch = g]
  <2>1. f.phase = "reading" /\ cache' = [cache EXCEPT ![k] = e]
        /\ UNCHANGED <<stored, ui, meddled>>
    BY <1>4 DEF Answer
  <2>2. ASSUME ~meddled, k \in DOMAIN cache
        PROVE  Ours(e, stored)
    <3>1. /\ IsEntry(cache[k]) /\ IsFetch(f) /\ f.tenant = stored
          /\ \A d \in cache[k].rows \cup f.rows : IsDoc(d) /\ d.tenant = stored
      BY <1>3, <2>1, <2>2 DEF Ours, IsEntry, Busy
    <3>2. \A d \in ReadNext(k, f) : IsDoc(d) /\ d.tenant = stored
      BY <3>1, ReadIsOurs
    <3> HIDE DEF f, last
    <3>3. /\ IsFetch(g) /\ g.tenant = stored
          /\ g.rows = f.rows \/ g.rows = ReadNext(k, f)
      BY <3>1 DEF IsFetch
    <3> HIDE DEF g
    <3> QED
      BY <3>1, <3>2, <3>3 DEF Ours, IsEntry, f
  <2> HIDE DEF e
  <2> QED
    BY <1>1, <2>1, <2>2
<1>5. CASE LoseAnswer(k)
  <2> DEFINE e == [cache[k] EXCEPT !.fetch.phase = "failed"]
  <2>1. /\ cache' = [cache EXCEPT ![k] = e] /\ UNCHANGED <<stored, ui, meddled>>
        /\ cache[k].fetch.phase # "idle"
    BY <1>5 DEF LoseAnswer
  <2>2. ~meddled /\ k \in DOMAIN cache => Ours(e, stored)
    BY <1>3, <2>1 DEF Ours, IsEntry, IsFetch, Busy
  <2> HIDE DEF e
  <2> QED
    BY <1>1, <2>1, <2>2
<1>6. CASE Deliver(k)
  <2> DEFINE e == IF cache[k].fetch.phase = "read" THEN Loaded(cache[k])
                  ELSE Failed(cache[k], k \in OnScreen, stored)
  <2>1. Present(ui, [cache EXCEPT ![k] = e]) /\ UNCHANGED <<stored, meddled>>
    BY <1>6 DEF Deliver
  <2>2. ~meddled /\ k \in DOMAIN cache => Ours(e, stored)
    BY <1>3, FetchIsOurs
  <2> HIDE DEF e
  <2> QED
    BY <1>2, <2>1, <2>2
<1>7. CASE Poll(k)
  <2>1. Present(ui, [cache EXCEPT ![k] = Polled(cache[k], stored)])
        /\ UNCHANGED <<stored, meddled>>
    BY <1>7 DEF Poll
  <2>2. ~meddled /\ k \in DOMAIN cache => Ours(Polled(cache[k], stored), stored)
    BY <1>3, FetchIsOurs
  <2> QED
    BY <1>2, <2>1, <2>2
<1> QED
  BY <1>4, <1>5, <1>6, <1>7 DEF FetchStep

LEMMA PostsKeepTab ==
    ASSUME TabInv, NEW p, PostStep(p) \/ LosePost(p)
    PROVE  TabInv'
<1>1. CASE CreateRule(p) \/ CheckReplay(p) \/ LogReplay(p) \/ CarryOutReplay(p) \/ LosePost(p)
  <2>1. UNCHANGED <<stored, ui, cache, meddled>>
    BY <1>1 DEF CreateRule, CheckReplay, LogReplay, CarryOutReplay, LosePost, Serving, pageVars
  <2> QED
    BY <2>1 DEF TabInv
<1>2. CASE RuleCreated(p)
  <2>1. UNCHANGED <<stored, meddled>>
    BY <1>2 DEF RuleCreated, pageVars
  <2>2. CASE p.from = "gone"
    BY <1>2, <2>1, <2>2 DEF RuleCreated, pageVars, TabInv
  <2>3. CASE p.from # "gone"
    <3>1. Present(ui, Invalidated(cache, OnScreen, "rules", stored))
      BY <1>2, <2>3 DEF RuleCreated
    <3> QED
      BY <2>1, <3>1, PresentTab, CacheIsOurs DEF TabInv
  <2> QED
    BY <2>2, <2>3
<1>3. CASE ReplayAccepted(p)
  <2>1. UNCHANGED <<stored, meddled>>
    BY <1>3 DEF ReplayAccepted, pageVars
  <2>2. CASE p.from = "gone"
    BY <1>3, <2>1, <2>2 DEF ReplayAccepted, pageVars, TabInv
  <2>3. CASE p.from # "gone"
    <3> DEFINE c1 == Invalidated(cache, OnScreen, "executions", stored)
               c2 == Invalidated(c1, OnScreen, "replays", stored)
               c3 == Invalidated(c2, OnScreen, "stats", stored)
               u == IF p.from = "view" THEN [ui EXCEPT !.replaying = 0] ELSE ui
    <3>1. Present(u, c3)
      BY <1>3, <2>3 DEF ReplayAccepted
    <3>2. DOMAIN u = UiFields /\ u.tenant = ui.tenant
      BY DEF TabInv, UiFields
    <3>3. ~meddled => AllOurs(c3, stored)
      BY CacheIsOurs DEF TabInv
    <3> HIDE DEF c3, u
    <3> QED
      BY <2>1, <3>1, <3>2, <3>3, PresentTab DEF TabInv
  <2> QED
    BY <2>2, <2>3
<1>4. CASE PostRefused(p)
  <2>1. /\ UNCHANGED <<stored, cache, meddled>>
        /\ \/ ui' = [ui EXCEPT !.replaying = 0]
           \/ ui' = ui
    BY <1>4 DEF PostRefused
  <2>2. DOMAIN ui' = UiFields /\ ui'.tenant = ui.tenant
    BY <2>1 DEF TabInv, UiFields
  <2> QED
    BY <2>1, <2>2 DEF TabInv
<1> QED
  BY <1>1, <1>2, <1>3, <1>4 DEF PostStep

LEMMA ConsoleWrites ==
    ASSUME DocsInv, ConsoleNext
    PROVE  /\ DOMAIN db' = Collections
           /\ \A c \in Collections : \A d \in db'[c] : IsDoc(d)
<1>1. CASE UserStep
  <2>1. UNCHANGED db
    BY <1>1 DEF UserStep, Navigate, SwitchTenant, OtherTab, TurnPage, SelectFilter, TurnTo,
          Refresh, Reload, OpenForm, FillForm, AddAct, CancelForm, Submit, RemoveAct, EditForm,
          ClickReplay
  <2> QED
    BY <2>1 DEF DocsInv
<1>2. ASSUME NEW k, FetchStep(k) \/ LoseAnswer(k) \/ Poll(k)
      PROVE  UNCHANGED db
  BY <1>2 DEF FetchStep, Answer, Deliver, LoseAnswer, Poll, apiVars
<1>3. ASSUME NEW p, PostStep(p) \/ LosePost(p)
      PROVE  /\ DOMAIN db' = Collections
             /\ \A c \in Collections : \A d \in db'[c] : IsDoc(d)
  <2>1. CASE CreateRule(p)
    <3>1. \/ UNCHANGED db
          \/ Insert("rules", RuleDoc(lastId + 1, p.tenant, p.about, p.orders))
      BY <2>1 DEF CreateRule
    <3> QED
      BY <3>1, MadeDocs DEF Insert, DocsInv, Collections
  <2>2. CASE LogReplay(p)
    <3>1. Insert("replays", HistoryDoc(lastId + 1, p.tenant, p.about, p.event))
      BY <2>2 DEF LogReplay
    <3> QED
      BY <3>1, MadeDocs DEF Insert, DocsInv, Collections
  <2>3. CASE CarryOutReplay(p)
    <3>1. \/ UNCHANGED db
          \/ \E x \in OfTenant("executions", p.tenant) : SetStatus("executions", x, "queued")
      BY <2>3 DEF CarryOutReplay
    <3>2. \A x \in OfTenant("executions", p.tenant) : x \in db["executions"]
      BY DEF OfTenant
    <3> QED
      BY <3>1, <3>2, StatusWritten DEF DocsInv, Collections
  <2>4. CASE CheckReplay(p) \/ LosePost(p) \/ RuleCreated(p) \/ ReplayAccepted(p)
             \/ PostRefused(p)
    <3>1. UNCHANGED db
      BY <2>4 DEF CheckReplay, LosePost, RuleCreated, ReplayAccepted, PostRefused, apiVars
    <3> QED
      BY <3>1 DEF DocsInv
  <2> QED
    BY <1>3, <2>1, <2>2, <2>3, <2>4 DEF PostStep
<1>4. UNCHANGED db => /\ DOMAIN db' = Collections
                      /\ \A c \in Collections : \A d \in db'[c] : IsDoc(d)
  BY DEF DocsInv
<1> QED
  BY <1>1, <1>2, <1>3, <1>4 DEF ConsoleNext

\* The collections and what the seed script has planned hold documents with all
\* their fields.
THEOREM DocumentsMade == Spec => []DocsInv
<1>1. Init => DocsInv
  BY ApiAssumption DEF Init, ApiInit, SeedInit, DocsInv, SeedFields, IsDoc, Doc
<1>2. DocsInv /\ [Next]_vars => DocsInv'
  <2> SUFFICES ASSUME DocsInv, [Next]_vars PROVE DocsInv'
    OBVIOUS
  <2>1. CASE Use
    BY <2>1, ConsoleWrites DEF Use, seedVars, DocsInv
  <2>2. CASE Others
    BY <2>2, OthersWrite DEF Others, seedVars, DocsInv
  <2>3. CASE Reseed
    BY <2>3, SeedWrites DEF Reseed
  <2>4. CASE UNCHANGED vars
    BY <2>4 DEF vars, apiVars, seedVars, DocsInv
  <2> QED
    BY <2>1, <2>2, <2>3, <2>4 DEF Next
<1> QED
  BY <1>1, <1>2, PTL DEF Spec

\* Whatever is in flight when a tenant is switched, however requests fail, and
\* whatever is written meanwhile, a tab that no other tab has changed holds
\* rows of the tenant it shows and of no other.
THEOREM RowsAreOfTenant == Spec => []RowsOfTenant
<1>1. Init => TabInv
  <2> SUFFICES ASSUME Init PROVE TabInv
    OBVIOUS
  <2>1. PICK view \in scene.views : ui = Fresh(stored, view)
    BY DEF Init, ConsoleInit
  <2>2. cache = Observed(NoEntries, KeysOf(ui), {}, stored) /\ meddled = FALSE
    BY DEF Init, ConsoleInit
  <2>3. AllOurs(NoEntries, stored)
    BY DEF AllOurs, NoEntries
  <2>4. AllOurs(cache, stored)
    BY <2>2, <2>3, CacheIsOurs
  <2> QED
    BY <2>1, <2>2, <2>4 DEF TabInv, Fresh, UiFields
<1>2. TabInv /\ DocsInv /\ [Next]_vars => TabInv'
  <2> SUFFICES ASSUME TabInv, DocsInv, [Next]_vars PROVE TabInv'
    OBVIOUS
  <2>1. CASE Use
    <3>1. ConsoleNext
      BY <2>1 DEF Use
    <3> QED
      BY <3>1, UserKeepsTab, NetworkKeepsTab, PostsKeepTab DEF ConsoleNext
  <2>2. CASE Others \/ Reseed \/ UNCHANGED vars
    <3>1. UNCHANGED consoleVars
      BY <2>2 DEF Others, Reseed, vars
    <3> QED
      BY <3>1 DEF consoleVars, TabInv
  <2> QED
    BY <2>1, <2>2 DEF Next
<1>3. TabInv => RowsOfTenant
  BY DEF TabInv, RowsOfTenant, AllOurs, Ours
<1> QED
  BY <1>1, <1>2, <1>3, DocumentsMade, PTL DEF Spec

-----------------------------------------------------------------------------
(* What becomes of a draft *)

PostFields == {"id", "kind", "tenant", "stage", "about", "event", "orders", "from"}

Numbered(s) == s \in Seq(Nat) /\ \A i \in 1..Len(s) : s[i] = i - 1

\* The actions are numbered in the form, in the request and in the rule.
OrdersInv ==
    /\ DOMAIN form = {"open", "named", "orders", "draft"}
    /\ form.draft \in Nat \ {0} /\ Numbered(form.orders)
    /\ \A p \in posts : DOMAIN p = PostFields /\ (p.kind = "create" => Numbered(p.orders))
    /\ \A r \in db["rules"] : r.ref # 0 => Numbered(r.orders)

Creation(p) == p \in posts /\ p.kind = "create"

\* A draft is posted once at a time, from the view it is written in; until the
\* answer is there it is a rule at most once, and a refused one is none.
OnceInv ==
    /\ \A p : Creation(p) =>
          /\ p.about \in 1..form.draft
          /\ p.about = form.draft => p.from = "view"
          /\ p.stage \in {"sent", "ok", "error"}
          /\ p.stage # "ok" => \A r \in db["rules"] : r.ref = p.about => r.ref \in unsure
    /\ \A p, q : Creation(p) /\ Creation(q) /\ p.about = q.about => p = q
    /\ \A r \in db["rules"] : r.ref \in 0..form.draft
    /\ \A r \in db["rules"] :
          r.ref = form.draft => r.ref \in unsure \/ \E p : Creation(p) /\ p.about = r.ref
    /\ CreatedOnce

FormInv == OrdersInv /\ OnceInv

\* How anyone but the console changes the rules.
RulesKept ==
    \/ \A r \in db'["rules"] : r \in db["rules"] \/ r.ref = 0
    \/ \E status : \E r \in db["rules"] :
          db'["rules"] = (db["rules"] \ {r}) \cup {[r EXCEPT !.status = status]}

LEMMA OthersKeepRules ==
    ASSUME DocsInv, OthersNext \/ SeedNext
    PROVE  RulesKept
<1>1. ASSUME NEW c \in Collections \ {"rules"}, NEW D, db' = [db EXCEPT ![c] = D]
      PROVE  RulesKept
  BY <1>1 DEF RulesKept, DocsInv
<1>2. CASE EngineWrites
  BY <1>2, <1>1 DEF EngineWrites, EngineMoves, SetStatus, Collections
<1>3. CASE EngineStarts
  <2>1. \E E, X : db' = [db EXCEPT !["webhooks"] = E, !["executions"] = X]
    BY <1>3, Zenon DEF EngineStarts
  <2>2. db'["rules"] = db["rules"]
    BY <2>1 DEF DocsInv, Collections
  <2> QED
    BY <2>2 DEF RulesKept
<1>4. CASE UpdateRule
  BY <1>4 DEF UpdateRule, SetStatus, RulesKept, DocsInv, Collections
<1>5. CASE RemoveRule
  BY <1>5 DEF RemoveRule, RulesKept, DocsInv, Collections
<1>6. CASE RestartServer \/ StartSeed \/ SeedFault \/ DeleteTenants \/ CreateTenant
  <2>1. UNCHANGED db
    BY <1>6 DEF RestartServer, StartSeed, SeedFault, DeleteTenants, CreateTenant
  <2> QED
    BY <2>1 DEF RulesKept
<1>7. ASSUME NEW c \in DOMAIN Cleanup, DeleteDocuments(c)
      PROVE  RulesKept
  BY <1>7 DEF DeleteDocuments, Cleanup, RulesKept, DocsInv, Collections
<1>8. ASSUME NEW D, \A d \in D : d.ref = 0, InsertMany("rules", D)
      PROVE  RulesKept
  BY <1>8 DEF InsertMany, RulesKept, DocsInv, Collections
<1>9. \A off : \A d \in PlannedRules(lastId, off) : d.ref = 0
  <2> SUFFICES ASSUME NEW off, NEW d \in PlannedRules(lastId, off) PROVE d.ref = 0
    OBVIOUS
  <2>1. PICK i \in 1..Len(Demo), r \in 1..RulesPer :
           d = [RuleDoc(lastId + (i - 1) * RulesPer + r, Demo[i], 0,
                        IF r % 5 = 1 THEN <<0, 1>> ELSE <<0>>)
                  EXCEPT !.status = IF r \in off THEN "inactive" ELSE "active"]
    BY DEF PlannedRules
  <2> QED
    BY <2>1 DEF RuleDoc
<1>10. CASE AddRules
  <2>1. PICK off \in Draws : InsertMany("rules", PlannedRules(lastId, off))
    BY <1>10 DEF AddRules
  <2> QED
    BY <2>1, <1>8, <1>9
<1>11. CASE \E off \in Draws : InsertFault("rules", "addRules", PlannedRules(lastId, off))
  <2>1. PICK off \in Draws : InsertFault("rules", "addRules", PlannedRules(lastId, off))
    BY <1>11
  <2>2. PICK d \in PlannedRules(lastId, off) :
           InsertMany("rules", {e \in PlannedRules(lastId, off) : e.id <= d.id})
    BY <2>1 DEF InsertFault
  <2> QED
    BY <2>2, <1>8, <1>9
<1>12. CASE \/ AddWebhooks \/ AddExecutions \/ AddReplays
            \/ InsertFault("webhooks", "addWebhooks", seed.webhooks)
            \/ InsertFault("executions", "addExecutions", seed.executions)
            \/ InsertFault("replays", "addReplays", PlannedReplays(lastId))
  <2>1. db'["rules"] = db["rules"]
    BY <1>12 DEF AddWebhooks, AddExecutions, AddReplays, InsertFault, InsertMany, DocsInv,
          Collections
  <2> QED
    BY <2>1 DEF RulesKept
<1> QED
  BY <1>2, <1>3, <1>4, <1>5, <1>6, <1>7, <1>10, <1>11, <1>12
     DEF OthersNext, SeedNext, SeedStep

LEMMA RulesKeptForm ==
    ASSUME DocsInv, FormInv, RulesKept, UNCHANGED <<form, posts, unsure>>
    PROVE  FormInv'
<1>1. CASE \A r \in db'["rules"] : r \in db["rules"] \/ r.ref = 0
  <2>1. OrdersInv'
    BY <1>1 DEF FormInv, OrdersInv
  <2>2. OnceInv'
    BY <1>1 DEF FormInv, OnceInv, OrdersInv, Creation, CreatedOnce
  <2> QED
    BY <2>1, <2>2 DEF FormInv
<1>2. ASSUME NEW r \in db["rules"], NEW status,
             db'["rules"] = (db["rules"] \ {r}) \cup {[r EXCEPT !.status = status]}
      PROVE  FormInv'
  <2> DEFINE s == [r EXCEPT !.status = status]
  <2>1. s.ref = r.ref /\ s.orders = r.orders
    BY DEF DocsInv, Collections, IsDoc
  <2>2. db'["rules"] = (db["rules"] \ {r}) \cup {s}
    BY <1>2
  <2> HIDE DEF s
  <2>3. OrdersInv'
    BY <2>1, <2>2 DEF FormInv, OrdersInv
  <2>4. OnceInv'
    BY <2>1, <2>2 DEF FormInv, OnceInv, OrdersInv, Creation, CreatedOnce
  <2> QED
    BY <2>3, <2>4 DEF FormInv
<1> QED
  BY <1>1, <1>2 DEF RulesKept

\* Leaving the view ends the draft; its request goes on.
LEMMA DraftEnds ==
    ASSUME FormInv, NEW from, Leave(from), form' = EmptyForm(form.draft + 1),
           UNCHANGED <<db, unsure>>
    PROVE  FormInv'
<1> DEFINE Left(p) == [p EXCEPT !.from = IF @ = "gone" THEN @ ELSE from]
<1>1. \A p \in posts : /\ DOMAIN Left(p) = PostFields
                       /\ Left(p).kind = p.kind /\ Left(p).orders = p.orders
                       /\ Left(p).about = p.about /\ Left(p).stage = p.stage
  BY DEF FormInv, OrdersInv, PostFields
<1>2. posts' = {Left(p) : p \in posts}
  BY DEF Leave
<1> HIDE DEF Left
<1>3. form'.draft = form.draft + 1 /\ Numbered(form'.orders)
      /\ DOMAIN form' = {"open", "named", "orders", "draft"}
  BY DEF EmptyForm, Numbered
<1>4. OrdersInv'
  BY <1>1, <1>2, <1>3 DEF FormInv, OrdersInv
<1>5. \A p : Creation(p)' => \E q : Creation(q) /\ p = Left(q)
  BY <1>1, <1>2 DEF Creation
<1>6. \A p : Creation(p)' =>
         /\ p.about \in 1..form.draft
         /\ p.stage \in {"sent", "ok", "error"}
         /\ p.stage # "ok" => \A r \in db["rules"] : r.ref = p.about => r.ref \in unsure
  BY <1>1, <1>5 DEF Creation, FormInv, OnceInv
<1>7. \A p, q : Creation(p)' /\ Creation(q)' /\ p.about = q.about => p = q
  <2> SUFFICES ASSUME NEW p, NEW q, Creation(p)', Creation(q)', p.about = q.about
               PROVE  p = q
    OBVIOUS
  <2>1. PICK a : Creation(a) /\ p = Left(a)
    BY <1>5
  <2>2. PICK b : Creation(b) /\ q = Left(b)
    BY <1>5
  <2>3. a = b
    BY <1>1, <2>1, <2>2 DEF Creation, FormInv, OnceInv
  <2> QED
    BY <2>1, <2>2, <2>3
<1>8. form.draft \in Nat
  BY DEF FormInv, OrdersInv
<1>9. \A r \in db["rules"] : r.ref \in 0..form.draft
  BY DEF FormInv, OnceInv
<1>10. OnceInv'
  BY <1>3, <1>6, <1>7, <1>8, <1>9 DEF FormInv, OnceInv, CreatedOnce
<1> QED
  BY <1>4, <1>10 DEF FormInv

\* The form is edited, or emptied for the next draft.
LEMMA FormEdited ==
    ASSUME FormInv, DOMAIN form' = {"open", "named", "orders", "draft"},
           form'.draft \in {form.draft, form.draft + 1}, Numbered(form'.orders),
           UNCHANGED <<db, unsure, posts>>
    PROVE  FormInv'
<1>1. form.draft \in Nat
  BY DEF FormInv, OrdersInv
<1>2. OrdersInv'
  BY <1>1 DEF FormInv, OrdersInv
<1>3. \A p : Creation(p)' <=> Creation(p)
  BY DEF Creation
<1>4. OnceInv'
  BY <1>1, <1>3 DEF FormInv, OnceInv, CreatedOnce
<1> QED
  BY <1>2, <1>4 DEF FormInv

LEMMA UserKeepsForm ==
    ASSUME FormInv, UserStep
    PROVE  FormInv'
<1>0. form.draft \in Nat /\ Numbered(form.orders)
      /\ DOMAIN form = {"open", "named", "orders", "draft"}
  BY DEF FormInv, OrdersInv
<1>1. ASSUME NEW view, NEW old, Navigate(view, old)
      PROVE  FormInv'
  BY <1>1, DraftEnds DEF Navigate
<1>2. CASE Reload
  BY <1>2, DraftEnds DEF Reload
<1>3. ASSUME \/ \E t : SwitchTenant(t) \/ OtherTab(t)
             \/ \E old : TurnPage(old) \/ \E filter : SelectFilter(filter, old)
             \/ \E k : Refresh(k)
      PROVE  FormInv'
  <2>1. UNCHANGED <<form, db, unsure, posts>>
    BY <1>3 DEF SwitchTenant, OtherTab, TurnPage, SelectFilter, TurnTo, Refresh
  <2> QED
    BY <1>0, <2>1, FormEdited
<1>4. CASE OpenForm
  BY <1>0, <1>4, FormEdited DEF OpenForm, EditForm
<1>5. CASE FillForm
  BY <1>0, <1>5, FormEdited DEF FillForm, EditForm
<1>6. CASE AddAct
  <2>1. form' = [form EXCEPT !.orders = Append(@, Len(@))] /\ UNCHANGED <<db, unsure, posts>>
    BY <1>6 DEF AddAct, EditForm
  <2>2. Numbered(Append(form.orders, Len(form.orders)))
    BY <1>0 DEF Numbered
  <2> QED
    BY <1>0, <2>1, <2>2, FormEdited
<1>7. CASE CancelForm
  <2>1. Numbered(<<>>)
    BY DEF Numbered
  <2> QED
    BY <1>0, <1>7, <2>1, FormEdited DEF CancelForm, EditForm, EmptyForm
<1>8. ASSUME NEW i \in 1..Len(form.orders), RemoveAct(i)
      PROVE  FormInv'
  <2> DEFINE s == [j \in 1..(Len(form.orders) - 1) |-> j - 1]
  <2>1. form' = [form EXCEPT !.orders = s] /\ UNCHANGED <<db, unsure, posts>>
    BY <1>8 DEF RemoveAct, EditForm
  <2>2. Numbered(s)
    BY <1>0 DEF Numbered
  <2> HIDE DEF s
  <2> QED
    BY <1>0, <2>1, <2>2, FormEdited
<1>9. CASE Submit
  <2> DEFINE new == [id |-> lastId + 1, kind |-> "create", tenant |-> stored,
                     stage |-> "sent", about |-> form.draft, event |-> 0,
                     orders |-> form.orders, from |-> "view"]
  <2>1. posts' = posts \cup {new} /\ UNCHANGED <<db, unsure, form>> /\ ~Creating
    BY <1>9 DEF Submit, Send
  <2>2. /\ DOMAIN new = PostFields /\ new.kind = "create" /\ new.orders = form.orders
        /\ new.about = form.draft /\ new.from = "view" /\ new.stage = "sent"
    BY DEF PostFields
  <2> HIDE DEF new
  <2>3. \A p : Creation(p) => p.about # form.draft
    BY <2>1 DEF Creating, Creation, FormInv, OnceInv
  <2>4. \A r \in db["rules"] : r.ref = form.draft => r.ref \in unsure
    BY <2>3 DEF FormInv, OnceInv
  <2>5. \A p : Creation(p)' <=> Creation(p) \/ p = new
    BY <2>1, <2>2 DEF Creation
  <2>6. OrdersInv'
    BY <2>1, <2>2 DEF FormInv, OrdersInv
  <2>7. OnceInv'
    BY <2>1, <2>2, <2>3, <2>4, <2>5, <1>0 DEF FormInv, OrdersInv, OnceInv, CreatedOnce
  <2> QED
    BY <2>6, <2>7 DEF FormInv
<1>10. ASSUME NEW x, ClickReplay(x)
       PROVE  FormInv'
  <2> DEFINE new == [id |-> lastId + 1, kind |-> "replay", tenant |-> stored,
                     stage |-> "sent", about |-> x, event |-> 0,
                     orders |-> <<>>, from |-> "view"]
  <2>1. posts' = posts \cup {new} /\ UNCHANGED <<db, unsure, form>>
    BY <1>10 DEF ClickReplay, Send
  <2>2. DOMAIN new = PostFields /\ new.kind = "replay"
    BY DEF PostFields
  <2> HIDE DEF new
  <2>3. \A p : Creation(p)' <=> Creation(p)
    BY <2>1, <2>2 DEF Creation
  <2>4. OrdersInv'
    BY <2>1, <2>2 DEF FormInv, OrdersInv
  <2>5. OnceInv'
    BY <2>1, <2>3 DEF FormInv, OnceInv, CreatedOnce
  <2> QED
    BY <2>4, <2>5 DEF FormInv
<1> QED
  BY <1>1, <1>2, <1>3, <1>4, <1>5, <1>6, <1>7, <1>8, <1>9, <1>10 DEF UserStep

\* A request moves on, its draft and orders the same.
LEMMA PostMoves ==
    ASSUME FormInv, NEW p \in posts, NEW q, posts' = (posts \ {p}) \cup {q},
           DOMAIN q = PostFields, q.kind = p.kind, q.orders = p.orders, q.about = p.about,
           q.from = p.from,
           p.kind = "create" => q.stage \in {"sent", "ok", "error"},
           p.kind = "create" /\ q.stage # "ok" =>
               \A r \in db["rules"] : r.ref = p.about => r.ref \in unsure',
           UNCHANGED <<form, db>>, unsure \subseteq unsure'
    PROVE  FormInv'
<1>1. OrdersInv'
  BY DEF FormInv, OrdersInv
<1>2. \A a : Creation(a)' <=> (Creation(a) /\ a # p) \/ (a = q /\ p.kind = "create")
  BY DEF Creation
<1>3. Creation(p) <=> p.kind = "create"
  BY DEF Creation
<1>4. \A a : Creation(a)' =>
         /\ a.about \in 1..form.draft
         /\ a.about = form.draft => a.from = "view"
         /\ a.stage \in {"sent", "ok", "error"}
         /\ a.stage # "ok" => \A r \in db["rules"] : r.ref = a.about => r.ref \in unsure'
  BY <1>2, <1>3 DEF FormInv, OnceInv
<1>5. \A a, b : Creation(a)' /\ Creation(b)' /\ a.about = b.about => a = b
  BY <1>2, <1>3 DEF FormInv, OnceInv
<1>6. \A r \in db["rules"] :
         r.ref = form.draft => r.ref \in unsure' \/ \E a : Creation(a)' /\ a.about = r.ref
  <2> SUFFICES ASSUME NEW r \in db["rules"], r.ref = form.draft, r.ref \notin unsure'
               PROVE  \E a : Creation(a)' /\ a.about = r.ref
    OBVIOUS
  <2>1. PICK a : Creation(a) /\ a.about = r.ref
    BY DEF FormInv, OnceInv
  <2> QED
    BY <1>2, <1>3, <2>1
<1>7. CreatedOnce'
  BY DEF FormInv, OnceInv, CreatedOnce
<1> QED
  BY <1>1, <1>4, <1>5, <1>6, <1>7 DEF FormInv, OnceInv

\* A request is over; a draft it leaves in the form is not a rule.
LEMMA PostEnds ==
    ASSUME FormInv, NEW p \in posts, posts' = posts \ {p},
           DOMAIN form' = {"open", "named", "orders", "draft"}, Numbered(form'.orders),
           \/ form'.draft = form.draft + 1
           \/ form'.draft = form.draft
                /\ (p.kind = "create" => p.stage # "ok" \/ p.from # "view"),
           UNCHANGED <<db, unsure>>
    PROVE  FormInv'
<1>0. form.draft \in Nat
  BY DEF FormInv, OrdersInv
<1>1. OrdersInv'
  BY <1>0 DEF FormInv, OrdersInv
<1>2. \A a : Creation(a)' <=> Creation(a) /\ a # p
  BY DEF Creation
<1>3. \A a : Creation(a)' =>
         /\ a.about \in 1..form'.draft
         /\ a.about = form'.draft => a.from = "view"
         /\ a.stage \in {"sent", "ok", "error"}
         /\ a.stage # "ok" => \A r \in db["rules"] : r.ref = a.about => r.ref \in unsure
  BY <1>0, <1>2 DEF FormInv, OnceInv
<1>4. \A r \in db["rules"] :
         r.ref = form'.draft => r.ref \in unsure \/ \E a : Creation(a)' /\ a.about = r.ref
  <2> SUFFICES ASSUME NEW r \in db["rules"], r.ref = form'.draft, r.ref \notin unsure
               PROVE  \E a : Creation(a)' /\ a.about = r.ref
    OBVIOUS
  <2>1. form'.draft = form.draft
    BY <1>0 DEF FormInv, OnceInv
  <2>2. PICK a : Creation(a) /\ a.about = r.ref
    BY <2>1 DEF FormInv, OnceInv
  <2>3. a # p
    BY <1>0, <2>1, <2>2 DEF FormInv, OnceInv, Creation
  <2> QED
    BY <1>2, <2>2, <2>3
<1>5. \A r \in db["rules"] : r.ref \in 0..form'.draft
  BY <1>0 DEF FormInv, OnceInv
<1> QED
  BY <1>1, <1>2, <1>3, <1>4, <1>5 DEF FormInv, OnceInv, CreatedOnce

LEMMA PostsKeepForm ==
    ASSUME DocsInv, FormInv, NEW p \in posts, PostStep(p) \/ LosePost(p)
    PROVE  FormInv'
<1>0. /\ DOMAIN p = PostFields
      /\ form.draft \in Nat /\ Numbered(form.orders)
      /\ DOMAIN form = {"open", "named", "orders", "draft"}
      /\ \A stage : /\ DOMAIN [p EXCEPT !.stage = stage] = PostFields
                    /\ [p EXCEPT !.stage = stage].kind = p.kind
                    /\ [p EXCEPT !.stage = stage].orders = p.orders
                    /\ [p EXCEPT !.stage = stage].about = p.about
                    /\ [p EXCEPT !.stage = stage].from = p.from
                    /\ [p EXCEPT !.stage = stage].stage = stage
  BY DEF FormInv, OrdersInv, PostFields
<1>1. CASE CreateRule(p)
  <2>0. /\ p.kind = "create" /\ p.stage = "sent" /\ Creation(p)
        /\ UNCHANGED <<form, unsure>>
    BY <1>1 DEF CreateRule, Serving, pageVars, Creation
  <2>1. ASSUME Advance(p, "error"), UNCHANGED db
        PROVE  FormInv'
    <3> DEFINE q == [p EXCEPT !.stage = "error"]
    <3>1. /\ posts' = (posts \ {p}) \cup {q} /\ DOMAIN q = PostFields /\ q.kind = p.kind
          /\ q.orders = p.orders /\ q.about = p.about /\ q.from = p.from /\ q.stage = "error"
      BY <1>0, <2>1 DEF Advance
    <3>2. \A r \in db["rules"] : r.ref = p.about => r.ref \in unsure'
      BY <2>0 DEF FormInv, OnceInv
    <3>3. UNCHANGED <<form, db>> /\ unsure \subseteq unsure'
      BY <2>0, <2>1
    <3> HIDE DEF q
    <3> QED
      BY <3>1, <3>2, <3>3, PostMoves
  <2>2. ASSUME Advance(p, "ok"), Insert("rules", RuleDoc(lastId + 1, p.tenant, p.about, p.orders))
        PROVE  FormInv'
    <3> DEFINE q == [p EXCEPT !.stage = "ok"]
               new == RuleDoc(lastId + 1, p.tenant, p.about, p.orders)
    <3>1. posts' = (posts \ {p}) \cup {q} /\ db'["rules"] = db["rules"] \cup {new}
      BY <2>2 DEF Advance, Insert, DocsInv, Collections
    <3>2. new.ref = p.about /\ new.orders = p.orders
      BY DEF RuleDoc
    <3>3. /\ DOMAIN q = PostFields /\ q.kind = "create" /\ q.orders = p.orders
          /\ q.about = p.about /\ q.from = p.from /\ q.stage = "ok"
      BY <1>0, <2>0
    <3> HIDE DEF q, new
    <3>4. OrdersInv'
      BY <2>0, <3>1, <3>2, <3>3 DEF FormInv, OrdersInv
    <3>5. \A a : Creation(a)' <=> (Creation(a) /\ a # p) \/ a = q
      BY <3>1, <3>3 DEF Creation
    <3>6. /\ p.about \in 1..form.draft
          /\ p.about = form.draft => p.from = "view"
          /\ \A r \in db["rules"] : r.ref = p.about => r.ref \in unsure
      BY <2>0 DEF FormInv, OnceInv
    <3>7. \A a : Creation(a)' =>
             /\ a.about \in 1..form.draft
             /\ a.about = form.draft => a.from = "view"
             /\ a.stage \in {"sent", "ok", "error"}
             /\ a.stage # "ok" => \A r \in db'["rules"] : r.ref = a.about => r.ref \in unsure
      BY <2>0, <3>1, <3>2, <3>3, <3>5, <3>6 DEF FormInv, OnceInv
    <3>8. \A a, b : Creation(a)' /\ Creation(b)' /\ a.about = b.about => a = b
      BY <2>0, <3>3, <3>5 DEF FormInv, OnceInv
    <3>9. \A r \in db'["rules"] :
             /\ r.ref \in 0..form.draft
             /\ r.ref = form.draft => r.ref \in unsure \/ \E a : Creation(a)' /\ a.about = r.ref
      BY <2>0, <1>0, <3>1, <3>2, <3>3, <3>5, <3>6 DEF FormInv, OnceInv
    <3>10. CreatedOnce'
      BY <2>0, <3>1, <3>2, <3>6 DEF FormInv, OnceInv, CreatedOnce
    <3> QED
      BY <2>0, <3>4, <3>7, <3>8, <3>9, <3>10 DEF FormInv, OnceInv
  <2> QED
    BY <1>1, <2>1, <2>2 DEF CreateRule
<1>2. CASE CheckReplay(p) \/ LogReplay(p) \/ CarryOutReplay(p)
  <2>0. /\ p.kind = "replay" /\ UNCHANGED <<form, unsure>>
    BY <1>2 DEF CheckReplay, LogReplay, CarryOutReplay, Serving, pageVars
  <2>1. db'["rules"] = db["rules"]
    BY <1>2 DEF CheckReplay, LogReplay, CarryOutReplay, Insert, SetStatus, DocsInv, Collections
  <2>2. PICK q : /\ posts' = (posts \ {p}) \cup {q} /\ DOMAIN q = PostFields
                 /\ q.kind = "replay"
    <3>1. CASE CheckReplay(p)
      <4>1. CASE \E event : posts' = (posts \ {p}) \cup
                               {[p EXCEPT !.stage = "checked", !.event = event]}
        <5>1. PICK event : posts' = (posts \ {p}) \cup
                             {[p EXCEPT !.stage = "checked", !.event = event]}
          BY <4>1
        <5> DEFINE new == [p EXCEPT !.stage = "checked", !.event = event]
        <5>2. /\ posts' = (posts \ {p}) \cup {new} /\ DOMAIN new = PostFields
              /\ new.kind = "replay"
          BY <2>0, <1>0, <5>1 DEF PostFields
        <5> HIDE DEF new
        <5> QED
          BY <5>2
      <4>2. CASE Advance(p, "error")
        <5> DEFINE new == [p EXCEPT !.stage = "error"]
        <5>1. /\ posts' = (posts \ {p}) \cup {new} /\ DOMAIN new = PostFields
              /\ new.kind = "replay"
          BY <2>0, <1>0, <4>2 DEF Advance
        <5> HIDE DEF new
        <5> QED
          BY <5>1
      <4> QED
        BY <3>1, <4>1, <4>2, Zenon DEF CheckReplay
    <3>2. CASE LogReplay(p) \/ CarryOutReplay(p)
      <4>1. \E stage : Advance(p, stage)
        BY <3>2 DEF LogReplay, CarryOutReplay
      <4>2. PICK stage : Advance(p, stage)
        BY <4>1
      <4> DEFINE new == [p EXCEPT !.stage = stage]
      <4>3. /\ posts' = (posts \ {p}) \cup {new} /\ DOMAIN new = PostFields
            /\ new.kind = "replay"
        BY <2>0, <1>0, <4>2 DEF Advance
      <4> HIDE DEF new
      <4> QED
        BY <4>3
    <3> QED
      BY <1>2, <3>1, <3>2
  <2>3. \A a : Creation(a)' <=> Creation(a)
    BY <2>0, <2>2 DEF Creation
  <2>4. OrdersInv'
    BY <2>0, <2>1, <2>2 DEF FormInv, OrdersInv
  <2>5. OnceInv'
    BY <2>0, <2>1, <2>3 DEF FormInv, OnceInv, CreatedOnce
  <2> QED
    BY <2>4, <2>5 DEF FormInv
<1>3. CASE LosePost(p)
  <2>1. /\ Advance(p, "error") /\ UNCHANGED <<form, db>>
        /\ unsure' = IF p.kind = "create" /\ p.stage = "ok" THEN unsure \cup {p.about} ELSE unsure
    BY <1>3 DEF LosePost, Serving, pageVars
  <2>2. p.kind = "create" => \A r \in db["rules"] : r.ref = p.about => r.ref \in unsure'
    BY <2>1 DEF FormInv, OnceInv, Creation
  <2> QED
    BY <1>0, <2>1, <2>2, PostMoves DEF Advance
<1>4. CASE RuleCreated(p)
  <2>1. Numbered(<<>>)
    BY DEF Numbered
  <2>2. /\ posts' = posts \ {p} /\ UNCHANGED <<db, unsure>>
        /\ \/ form' = EmptyForm(form.draft + 1)
           \/ UNCHANGED form /\ p.from # "view"
    BY <1>4 DEF RuleCreated, pageVars, apiVars
  <2> QED
    BY <1>0, <2>1, <2>2, PostEnds DEF EmptyForm
<1>5. CASE ReplayAccepted(p)
  <2>1. posts' = posts \ {p} /\ UNCHANGED <<db, unsure, form>> /\ p.kind = "replay"
    BY <1>5 DEF ReplayAccepted, pageVars, apiVars
  <2> QED
    BY <1>0, <2>1, PostEnds
<1>6. CASE PostRefused(p)
  <2>1. posts' = posts \ {p} /\ UNCHANGED <<db, unsure, form>> /\ p.stage = "error"
    BY <1>6 DEF PostRefused, apiVars
  <2> QED
    BY <1>0, <2>1, PostEnds
<1> QED
  BY <1>1, <1>2, <1>3, <1>4, <1>5, <1>6 DEF PostStep

LEMMA FormInvariant == Spec => []FormInv
<1>1. Init => FormInv
  <2> SUFFICES ASSUME Init PROVE FormInv
    OBVIOUS
  <2>1. form = EmptyForm(1) /\ posts = {} /\ unsure = {} /\ db = Stock
    BY DEF Init, ConsoleInit, ApiInit
  <2>2. \A r \in db["rules"] : r.ref = 0
    BY <2>1, ApiAssumption
  <2>3. OrdersInv
    BY <2>1, <2>2 DEF OrdersInv, EmptyForm, Numbered
  <2>4. OnceInv
    BY <2>1, <2>2 DEF OnceInv, EmptyForm, Creation, CreatedOnce
  <2> QED
    BY <2>3, <2>4 DEF FormInv
<1>2. DocsInv /\ FormInv /\ [Next]_vars => FormInv'
  <2> SUFFICES ASSUME DocsInv, FormInv, [Next]_vars PROVE FormInv'
    OBVIOUS
  <2>0. form.draft \in {form.draft, form.draft + 1} /\ Numbered(form.orders)
        /\ DOMAIN form = {"open", "named", "orders", "draft"}
    BY DEF FormInv, OrdersInv
  <2>1. CASE Use
    <3>1. ASSUME NEW k, FetchStep(k) \/ LoseAnswer(k) \/ Poll(k)
          PROVE  FormInv'
      <4>1. UNCHANGED <<form, db, unsure, posts>>
        BY <3>1 DEF FetchStep, Answer, Deliver, LoseAnswer, Poll, apiVars
      <4> QED
        BY <2>0, <4>1, FormEdited
    <3> QED
      BY <2>1, <3>1, UserKeepsForm, PostsKeepForm DEF Use, ConsoleNext
  <2>2. CASE Others \/ Reseed
    BY <2>2, OthersKeepRules, RulesKeptForm DEF Others, Reseed, consoleVars
  <2>3. CASE UNCHANGED vars
    BY <2>0, <2>3, FormEdited DEF vars, consoleVars, apiVars
  <2> QED
    BY <2>1, <2>2, <2>3 DEF Next
<1> QED
  BY <1>1, <1>2, DocumentsMade, PTL DEF Spec

\* However often Save is pressed and the form is closed, emptied, left and
\* opened, and whatever is in flight then, a draft becomes one rule.
THEOREM DraftsMakeOneRule == Spec => []CreatedOnce
<1>1. FormInv => CreatedOnce
  BY DEF FormInv, OnceInv
<1> QED
  BY <1>1, FormInvariant, PTL

\* However actions are added and removed, the rules the form makes number their
\* actions from zero on.
THEOREM OrdersAreDistinct == Spec => []ConsoleOrdersDistinct
<1>1. FormInv => ConsoleOrdersDistinct
  BY DEF FormInv, OrdersInv, Numbered, ConsoleOrdersDistinct
<1> QED
  BY <1>1, FormInvariant, PTL

-----------------------------------------------------------------------------
(* What the seed script leaves behind *)

CleanupPc == {"tenants", "rules", "webhooks", "executions", "replays"}

AddingPc == {"addRules", "addWebhooks", "addExecutions", "addReplays", "done"}

KeysInv ==
    /\ DOMAIN keys = Tenants
    /\ seed.pc \in CleanupPc => seed.at = 1
    /\ seed.pc = "create" =>
          /\ seed.at \in Nat \ {0}
          /\ \A j \in 1..Len(Demo) : j < seed.at => keys[Demo[j]] = "demo"
    /\ seed.pc \in AddingPc => \A j \in 1..Len(Demo) : keys[Demo[j]] = "demo"

\* A server that starts gives no other key to a tenant that is there.
LEMMA DefaultsKeepKeys ==
    ASSUME KeysInv, keys' = WithDefaults(keys), UNCHANGED seed
    PROVE  KeysInv'
<1>1. \A j \in 1..Len(Demo) : Demo[j] \in Tenants
  BY ApiAssumption
<1>2. \A t \in Tenants : keys[t] = "demo" => keys'[t] = "demo"
  BY DEF WithDefaults
<1>3. DOMAIN keys' = Tenants
  BY DEF WithDefaults
<1> QED
  BY <1>1, <1>2, <1>3 DEF KeysInv

LEMMA UseKeepsKeys ==
    ASSUME ConsoleNext
    PROVE  UNCHANGED keys
<1>1. CASE UserStep
  BY <1>1 DEF UserStep, Navigate, SwitchTenant, OtherTab, TurnPage, SelectFilter, TurnTo,
        Refresh, Reload, OpenForm, FillForm, AddAct, CancelForm, Submit, RemoveAct, EditForm,
        ClickReplay
<1>2. ASSUME NEW k, FetchStep(k) \/ LoseAnswer(k) \/ Poll(k)
      PROVE  UNCHANGED keys
  BY <1>2 DEF FetchStep, Answer, Deliver, LoseAnswer, Poll, apiVars
<1>3. ASSUME NEW p, PostStep(p) \/ LosePost(p)
      PROVE  UNCHANGED keys
  BY <1>3 DEF PostStep, CreateRule, CheckReplay, LogReplay, CarryOutReplay, LosePost,
        RuleCreated, ReplayAccepted, PostRefused, Serving, apiVars
<1> QED
  BY <1>1, <1>2, <1>3 DEF ConsoleNext

LEMMA SeedKeepsKeys ==
    ASSUME DocsInv, KeysInv, SeedNext
    PROVE  KeysInv'
<1>0. DOMAIN seed = SeedFields
  BY DEF DocsInv
<1>1. CASE StartSeed
  <2>1. seed'.pc = "tenants" /\ seed'.at = 1 /\ DOMAIN keys' = Tenants
    BY <1>1 DEF StartSeed, WithDefaults
  <2> QED
    BY <2>1 DEF KeysInv, AddingPc
<1>2. CASE DeleteTenants
  <2>1. seed'.pc = "rules" /\ seed'.at = seed.at /\ seed.pc = "tenants" /\ DOMAIN keys' = Tenants
    BY <1>0, <1>2 DEF DeleteTenants, SeedFields
  <2> QED
    BY <2>1 DEF KeysInv, AddingPc, CleanupPc
<1>3. ASSUME NEW c \in DOMAIN Cleanup, DeleteDocuments(c)
      PROVE  KeysInv'
  <2>1. /\ seed'.pc = Cleanup[c] /\ seed'.at = seed.at /\ seed.pc = c /\ keys' = keys
        /\ c \in {"rules", "webhooks", "executions", "replays"}
    BY <1>0, <1>3 DEF DeleteDocuments, SeedFields, Cleanup
  <2>2. seed.at = 1 /\ seed'.pc \in CleanupPc \cup {"create"}
    BY <2>1 DEF KeysInv, CleanupPc, Cleanup
  <2> QED
    BY <2>1, <2>2 DEF KeysInv, AddingPc, CleanupPc
<1>4. CASE CreateTenant
  <2>1. CASE seed' = [seed EXCEPT !.pc = "aborted"]
    <3>1. seed'.pc = "aborted"
      BY <1>0, <2>1 DEF SeedFields
    <3>2. DOMAIN keys' = Tenants
      BY <1>4 DEF CreateTenant, KeysInv
    <3> QED
      BY <3>1, <3>2 DEF KeysInv, AddingPc, CleanupPc
  <2>2. CASE /\ keys' = [keys EXCEPT ![Demo[seed.at]] = "demo"]
             /\ seed' = [seed EXCEPT !.at = @ + 1,
                                     !.pc = IF seed.at = Len(Demo) THEN "addRules" ELSE @]
    <3>1. seed.pc = "create" /\ seed'.at = seed.at + 1
          /\ seed'.pc = IF seed.at = Len(Demo) THEN "addRules" ELSE "create"
      BY <1>0, <1>4, <2>2 DEF CreateTenant, SeedFields
    <3>2. DOMAIN keys' = Tenants /\ Len(Demo) \in Nat /\ seed.at \in Nat \ {0}
      BY <2>2, <3>1, ApiAssumption DEF KeysInv
    <3>3. ASSUME NEW j \in 1..Len(Demo), j <= seed.at
          PROVE  keys'[Demo[j]] = "demo"
      <4>1. Demo[j] \in Tenants /\ (j < seed.at => keys[Demo[j]] = "demo")
        BY <3>1, ApiAssumption DEF KeysInv
      <4>2. j = seed.at \/ j < seed.at
        BY <3>2, <3>3
      <4> QED
        BY <2>2, <4>1, <4>2 DEF KeysInv
    <3>4. CASE seed.at = Len(Demo)
      BY <3>1, <3>2, <3>3, <3>4 DEF KeysInv, AddingPc, CleanupPc
    <3>5. CASE seed.at # Len(Demo)
      <4>1. \A j \in 1..Len(Demo) : j < seed.at + 1 => keys'[Demo[j]] = "demo"
        BY <3>2, <3>3
      <4>2. seed'.pc = "create" /\ seed'.at \in Nat \ {0}
        BY <3>1, <3>2, <3>5
      <4> QED
        BY <3>1, <3>2, <4>1, <4>2 DEF KeysInv, AddingPc, CleanupPc
    <3> QED
      BY <3>4, <3>5
  <2> QED
    BY <1>4, <2>1, <2>2 DEF CreateTenant
<1>5. CASE AddRules \/ AddWebhooks \/ AddExecutions \/ AddReplays
  <2>1. keys' = keys /\ seed.pc \in AddingPc
    BY <1>5 DEF AddRules, AddWebhooks, AddExecutions, AddReplays, AddingPc
  <2>2. seed'.pc \in AddingPc
    BY <1>0, <1>5 DEF AddRules, AddWebhooks, AddExecutions, AddReplays, AddingPc, SeedFields
  <2> QED
    BY <2>1, <2>2 DEF KeysInv, AddingPc, CleanupPc
<1>6. CASE SeedFault
  <2>1. keys' = keys /\ seed'.pc = "aborted"
    BY <1>0, <1>6 DEF SeedFault, SeedFields
  <2> QED
    BY <2>1 DEF KeysInv, AddingPc, CleanupPc
<1>7. ASSUME NEW c, NEW pc, NEW D, InsertFault(c, pc, D)
      PROVE  KeysInv'
  <2>1. keys' = keys /\ seed'.pc = "aborted"
    BY <1>0, <1>7 DEF InsertFault, SeedFields
  <2> QED
    BY <2>1 DEF KeysInv, AddingPc, CleanupPc
<1> QED
  BY <1>1, <1>2, <1>3, <1>4, <1>5, <1>6, <1>7 DEF SeedNext, SeedStep

\* Whatever fails, restarts or is in use meanwhile, the script adds documents
\* only to tenants that have the console's keys.
THEOREM DocumentsFollowKeys == Spec => []SeededTenantsServe
<1>1. Init => KeysInv
  BY DEF Init, ApiInit, SeedInit, WithDefaults, KeysInv, AddingPc, CleanupPc
<1>2. DocsInv /\ KeysInv /\ [Next]_vars => KeysInv'
  <2> SUFFICES ASSUME DocsInv, KeysInv, [Next]_vars PROVE KeysInv'
    OBVIOUS
  <2>1. CASE Use
    <3>1. keys' = keys /\ UNCHANGED seed
      BY <2>1, UseKeepsKeys DEF Use, seedVars
    <3> QED
      BY <3>1 DEF KeysInv
  <2>2. CASE Others
    <3>1. UNCHANGED seed /\ (keys' = keys \/ keys' = WithDefaults(keys))
      BY <2>2 DEF Others, seedVars, OthersNext, EngineWrites, EngineStarts, UpdateRule,
                  RemoveRule, RestartServer
    <3> QED
      BY <3>1, DefaultsKeepKeys DEF KeysInv
  <2>3. CASE Reseed
    BY <2>3, SeedKeepsKeys DEF Reseed
  <2>4. CASE UNCHANGED vars
    BY <2>4 DEF vars, apiVars, seedVars, KeysInv
  <2> QED
    BY <2>1, <2>2, <2>3, <2>4 DEF Next
<1>3. KeysInv => SeededTenantsServe
  BY DEF KeysInv, SeededTenantsServe, AddingPc, DemoTenants, Admits
<1> QED
  BY <1>1, <1>2, <1>3, DocumentsMade, PTL DEF Spec

WritingPc == {"create"} \cup AddingPc

\* The script has deleted what a collection held.
Cleared(c) ==
    seed.pc \in WritingPc \cup
        (CASE c = "rules" -> {"webhooks", "executions", "replays"}
           [] c = "webhooks" -> {"executions", "replays"}
           [] c = "executions" -> {"replays"}
           [] OTHER -> {})

NewerThan(D, n) == \A d \in D : d.id \in Nat /\ d.id > n

ClearedInv ==
    /\ lastId \in Nat /\ seed.since \in Nat /\ seed.since <= lastId
    /\ \A c \in Collections : Cleared(c) =>
          \A d \in db[c] : d.tenant \in DemoTenants => d.id > seed.since
    /\ \A d \in seed.webhooks \cup seed.executions : d.id \in Nat
    /\ seed.pc \in {"addWebhooks", "addExecutions"} =>
          NewerThan(seed.webhooks \cup seed.executions, seed.since)

\* A document and what becomes of it: its status may change.
Same(d, e) == d.id = e.id /\ d.tenant = e.tenant /\ d.ref = e.ref /\ d.event = e.event

Has(D, d) == \E e \in D : Same(d, e)

\* A document is one of before, whatever its status now, or is made after all
\* others; none goes but by the removal of a rule.
Grows ==
    /\ lastId' \in Nat /\ lastId' >= lastId
    /\ \A c \in Collections : \A d \in db'[c] :
          \/ Has(db[c], d)
          \/ d.id \in Nat /\ d.id > lastId /\ d.id <= lastId'
    /\ \A c \in Collections : \A d \in db[c] :
          Has(db'[c], d) \/ (c = "rules" /\ left["ruleRemoval"] > 0)

LEMMA GrowthKeepsCleared ==
    ASSUME ClearedInv, Grows, UNCHANGED seed
    PROVE  ClearedInv'
<1>1. ASSUME NEW c \in Collections, Cleared(c), NEW d \in db'[c], d.tenant \in DemoTenants
      PROVE  d.id > seed.since
  <2>1. CASE Has(db[c], d)
    BY <1>1, <2>1 DEF ClearedInv, Has, Same
  <2>2. CASE d.id \in Nat /\ d.id > lastId
    BY <2>2 DEF ClearedInv
  <2> QED
    BY <1>1, <2>1, <2>2 DEF Grows
<1>2. \A c : Cleared(c)' <=> Cleared(c)
  BY DEF Cleared
<1> QED
  BY <1>1, <1>2 DEF ClearedInv, Grows

LEMMA StatusGrows ==
    ASSUME DocsInv, ClearedInv, NEW c \in Collections, NEW d \in db[c], NEW status,
           SetStatus(c, d, status), UNCHANGED lastId
    PROVE  Grows
<1> DEFINE new == [d EXCEPT !.status = status]
<1>1. Same(d, new) /\ Same(new, d)
  BY DEF DocsInv, IsDoc, Same
<1>2. \A b \in Collections :
         db'[b] = IF b = c THEN (db[b] \ {d}) \cup {new} ELSE db[b]
  BY DEF SetStatus, DocsInv
<1>3. \A e : Same(e, e)
  BY DEF Same
<1> HIDE DEF new
<1>4. \A b \in Collections : \A e \in db'[b] : Has(db[b], e)
  BY <1>1, <1>2, <1>3 DEF Has
<1>5. \A b \in Collections : \A e \in db[b] : Has(db'[b], e)
  BY <1>1, <1>2, <1>3 DEF Has
<1> QED
  BY <1>4, <1>5 DEF Grows, ClearedInv

\* Nothing goes, and what comes is at D.
LEMMA AdditionGrows ==
    ASSUME NEW D, \A d \in D : d.id \in Nat /\ d.id > lastId /\ d.id <= lastId',
           lastId' \in Nat, lastId' >= lastId,
           \A c \in Collections : db[c] \subseteq db'[c] /\ db'[c] \subseteq db[c] \cup D
    PROVE  Grows
<1>1. \A d : Same(d, d)
  BY DEF Same
<1> QED
  BY <1>1 DEF Grows, Has

LEMMA InsertGrows ==
    ASSUME DocsInv, ClearedInv, NEW c \in Collections, NEW d, Insert(c, d),
           d.id = lastId + 1, lastId' = lastId + 1
    PROVE  Grows
<1>1. \A b \in Collections : db[b] \subseteq db'[b] /\ db'[b] \subseteq db[b] \cup {d}
  BY DEF Insert, DocsInv
<1>2. /\ lastId' \in Nat /\ lastId' >= lastId
      /\ \A e \in {d} : e.id \in Nat /\ e.id > lastId /\ e.id <= lastId'
  BY DEF ClearedInv
<1> QED
  BY <1>1, <1>2, AdditionGrows

LEMMA OthersGrow ==
    ASSUME DocsInv, ClearedInv, OthersNext
    PROVE  Grows
<1>1. CASE EngineWrites
  <2>1. DOMAIN EngineMoves \subseteq Collections
    BY DEF EngineMoves, Collections
  <2> QED
    BY <1>1, <2>1, StatusGrows, Zenon DEF EngineWrites
<1>2. CASE EngineStarts
  <2>1. PICK r \in db["rules"] :
          LET event == [id |-> lastId + 1, tenant |-> r.tenant, status |-> "processing",
                        ref |-> 0, event |-> 0, orders |-> <<>>]
              execution == [event EXCEPT !.id = lastId + 2, !.ref = r.id,
                                         !.event = lastId + 1]
          IN db' = [db EXCEPT !["webhooks"] = @ \cup {event},
                              !["executions"] = @ \cup {execution}]
    BY <1>2, Zenon DEF EngineStarts
  <2> DEFINE event == [id |-> lastId + 1, tenant |-> r.tenant, status |-> "processing",
                       ref |-> 0, event |-> 0, orders |-> <<>>]
             execution == [event EXCEPT !.id = lastId + 2, !.ref = r.id,
                                        !.event = lastId + 1]
  <2>2. event.id = lastId + 1 /\ execution.id = lastId + 2
    OBVIOUS
  <2>3. db' = [db EXCEPT !["webhooks"] = @ \cup {event},
                         !["executions"] = @ \cup {execution}]
    BY <2>1
  <2> HIDE DEF event, execution
  <2>4. \A b \in Collections :
           db[b] \subseteq db'[b] /\ db'[b] \subseteq db[b] \cup {event, execution}
    BY <2>3 DEF DocsInv, Collections
  <2>5. lastId' = lastId + 2 /\ lastId \in Nat
    BY <1>2 DEF EngineStarts, ClearedInv
  <2>6. /\ lastId' \in Nat /\ lastId' >= lastId
        /\ \A e \in {event, execution} : e.id \in Nat /\ e.id > lastId /\ e.id <= lastId'
    BY <2>2, <2>5
  <2> QED
    BY <2>4, <2>6, AdditionGrows
<1>3. CASE UpdateRule
  BY <1>3, StatusGrows, Zenon DEF UpdateRule, Collections
<1>4. CASE RemoveRule \/ RestartServer
  <2>1. /\ UNCHANGED lastId
        /\ \A b \in Collections :
              /\ db'[b] \subseteq db[b]
              /\ db'[b] = db[b] \/ (b = "rules" /\ left["ruleRemoval"] > 0)
    BY <1>4 DEF RemoveRule, RestartServer, DocsInv, Happen
  <2>2. \A d : Same(d, d)
    BY DEF Same
  <2> QED
    BY <2>1, <2>2 DEF Grows, ClearedInv, Has
<1> QED
  BY <1>1, <1>2, <1>3, <1>4 DEF OthersNext

LEMMA UseGrows ==
    ASSUME DocsInv, ClearedInv, ConsoleNext
    PROVE  Grows
<1>0. UNCHANGED db /\ (lastId' = lastId \/ lastId' = lastId + 1) => Grows
  BY DEF Grows, ClearedInv, Has, Same
<1>1. CASE UserStep
  <2>1. CASE Submit \/ \E d \in db["executions"] : ClickReplay(d.id)
    BY <1>0, <2>1 DEF Submit, ClickReplay, Send
  <2>2. CASE ~(Submit \/ \E d \in db["executions"] : ClickReplay(d.id))
    BY <1>0, <1>1, <2>2 DEF UserStep, Navigate, SwitchTenant, OtherTab, TurnPage, SelectFilter,
          TurnTo, Refresh, Reload, OpenForm, FillForm, AddAct, CancelForm, RemoveAct, EditForm
  <2> QED
    BY <2>1, <2>2
<1>2. ASSUME NEW k, FetchStep(k) \/ LoseAnswer(k) \/ Poll(k)
      PROVE  Grows
  BY <1>0, <1>2 DEF FetchStep, Answer, Deliver, LoseAnswer, Poll, apiVars
<1>3. ASSUME NEW p, PostStep(p) \/ LosePost(p)
      PROVE  Grows
  <2>1. CASE CreateRule(p)
    <3>1. \/ UNCHANGED <<db, lastId>>
          \/ Insert("rules", RuleDoc(lastId + 1, p.tenant, p.about, p.orders))
                /\ lastId' = lastId + 1
      BY <2>1 DEF CreateRule
    <3>2. RuleDoc(lastId + 1, p.tenant, p.about, p.orders).id = lastId + 1
      BY DEF RuleDoc
    <3> QED
      BY <1>0, <3>1, <3>2, InsertGrows DEF Collections
  <2>2. CASE LogReplay(p)
    <3>1. /\ Insert("replays", HistoryDoc(lastId + 1, p.tenant, p.about, p.event))
          /\ lastId' = lastId + 1
      BY <2>2 DEF LogReplay
    <3>2. HistoryDoc(lastId + 1, p.tenant, p.about, p.event).id = lastId + 1
      BY DEF HistoryDoc
    <3> QED
      BY <3>1, <3>2, InsertGrows DEF Collections
  <2>3. CASE CarryOutReplay(p)
    <3>1. /\ UNCHANGED lastId
          /\ \/ UNCHANGED db
             \/ \E x \in OfTenant("executions", p.tenant) : SetStatus("executions", x, "queued")
      BY <2>3 DEF CarryOutReplay
    <3>2. \A x \in OfTenant("executions", p.tenant) : x \in db["executions"]
      BY DEF OfTenant
    <3> QED
      BY <1>0, <3>1, <3>2, StatusGrows DEF Collections
  <2>4. CASE CheckReplay(p) \/ LosePost(p) \/ RuleCreated(p) \/ ReplayAccepted(p)
             \/ PostRefused(p)
    BY <1>0, <2>4 DEF CheckReplay, LosePost, RuleCreated, ReplayAccepted, PostRefused, apiVars
  <2> QED
    BY <1>3, <2>1, <2>2, <2>3, <2>4 DEF PostStep
<1> QED
  BY <1>1, <1>2, <1>3 DEF ConsoleNext

\* The rth document of the ith tenant.
LEMMA PlaceOf ==
    ASSUME NEW base \in Nat, NEW n \in Nat, NEW i \in Nat, i >= 1, NEW r \in Nat, r >= 1
    PROVE  base + (i - 1) * n + r \in Nat /\ base + (i - 1) * n + r > base
<1>1. (i - 1) * n \in Nat
  OBVIOUS
<1> DEFINE m == (i - 1) * n
<1>2. m \in Nat
  BY <1>1
<1> HIDE DEF m
<1>3. base + m + r \in Nat /\ base + m + r > base
  BY <1>2
<1> QED
  BY <1>3 DEF m

LEMMA PlannedIds ==
    ASSUME NEW base \in Nat
    PROVE  /\ \A off : NewerThan(PlannedRules(base, off), base)
           /\ \A lists, rules, webhooks :
                 NewerThan(PlannedExecutions(lists, base, rules, webhooks), base)
           /\ \A executions : NewerThan(PlannedWebhooks(executions, base), base)
           /\ NewerThan(PlannedReplays(base), base)
<1>0. /\ RulesPer \in Nat /\ EventsPer \in Nat /\ ExecutionsPer \in Nat /\ ReplaysPer \in Nat
      /\ Len(Demo) \in Nat
  BY SeedAssumption, ApiAssumption DEF EventsPer, ExecutionsPer
<1>1. ASSUME NEW off, NEW d \in PlannedRules(base, off)
      PROVE  d.id \in Nat /\ d.id > base
  <2>1. PICK i \in 1..Len(Demo), r \in 1..RulesPer :
           d = [RuleDoc(base + (i - 1) * RulesPer + r, Demo[i], 0,
                        IF r % 5 = 1 THEN <<0, 1>> ELSE <<0>>)
                  EXCEPT !.status = IF r \in off THEN "inactive" ELSE "active"]
    BY <1>1 DEF PlannedRules
  <2>2. d.id = base + (i - 1) * RulesPer + r
    BY <2>1, Zenon DEF RuleDoc
  <2>3. i \in Nat /\ i >= 1 /\ r \in Nat /\ r >= 1
    BY <1>0
  <2> QED
    BY <1>0, <2>2, <2>3, PlaceOf
<1>2. ASSUME NEW lists, NEW rules, NEW webhooks,
             NEW d \in PlannedExecutions(lists, base, rules, webhooks)
      PROVE  d.id \in Nat /\ d.id > base
  <2>1. PICK i \in 1..Len(Demo), n \in 1..ExecutionsPer :
           d.id = base + (i - 1) * ExecutionsPer + n
    BY <1>2 DEF PlannedExecutions
  <2>2. i \in Nat /\ i >= 1 /\ n \in Nat /\ n >= 1
    BY <1>0
  <2> QED
    BY <1>0, <2>1, <2>2, PlaceOf
<1>3. ASSUME NEW executions, NEW d \in PlannedWebhooks(executions, base)
      PROVE  d.id \in Nat /\ d.id > base
  <2>1. PICK i \in 1..Len(Demo), w \in 1..EventsPer :
           d = WebhookDoc(base + (i - 1) * EventsPer + w, Demo[i], executions)
    BY <1>3 DEF PlannedWebhooks
  <2>2. d.id = base + (i - 1) * EventsPer + w
    BY <2>1 DEF WebhookDoc
  <2>3. i \in Nat /\ i >= 1 /\ w \in Nat /\ w >= 1
    BY <1>0
  <2> QED
    BY <1>0, <2>2, <2>3, PlaceOf
<1>4. ASSUME NEW d \in PlannedReplays(base)
      PROVE  d.id \in Nat /\ d.id > base
  <2>1. PICK i \in 1..Len(Demo), n \in 1..(IF ExecutionsPer = 0 THEN 0 ELSE ReplaysPer) :
           d = ReplayOf(InTurn(Sources(Demo[i]), n - 1), base + (i - 1) * ReplaysPer + n,
                        ReplayStatus[((n - 1) % 3) + 1])
    BY <1>4 DEF PlannedReplays
  <2>2. d.id = base + (i - 1) * ReplaysPer + n
    BY <2>1, Zenon DEF ReplayOf, HistoryDoc
  <2>3. i \in Nat /\ i >= 1 /\ n \in Nat /\ n >= 1
    BY <1>0
  <2> QED
    BY <1>0, <2>2, <2>3, PlaceOf
<1> QED
  BY <1>1, <1>2, <1>3, <1>4 DEF NewerThan

LEMMA SeedKeepsCleared ==
    ASSUME DocsInv, ClearedInv, SeedNext
    PROVE  ClearedInv'
<1>0. DOMAIN seed = SeedFields /\ DOMAIN db = Collections /\ lastId \in Nat
      /\ seed.since \in Nat /\ seed.since <= lastId
  BY DEF DocsInv, ClearedInv
<1>1. CASE StartSeed
  <2>1. /\ seed'.pc = "tenants" /\ seed'.since = lastId /\ lastId' = lastId
        /\ seed'.webhooks = {} /\ seed'.executions = {}
    BY <1>1 DEF StartSeed
  <2>2. \A c : ~Cleared(c)'
    BY <2>1 DEF Cleared, WritingPc, AddingPc
  <2> QED
    BY <1>0, <2>1, <2>2 DEF ClearedInv
\* A step of the script that ends it, the ids given out growing.
<1>2. ASSUME seed'.pc = "aborted", seed'.since = seed.since, lastId' \in Nat, lastId' >= lastId,
             seed'.webhooks = seed.webhooks, seed'.executions = seed.executions
      PROVE  ClearedInv'
  <2>1. \A c : ~Cleared(c)'
    BY <1>2 DEF Cleared, WritingPc, AddingPc
  <2> QED
    BY <1>0, <1>2, <2>1 DEF ClearedInv
<1>3. CASE SeedFault
  <2>1. /\ seed'.pc = "aborted" /\ seed'.since = seed.since /\ lastId' = lastId
        /\ seed'.webhooks = seed.webhooks /\ seed'.executions = seed.executions
    BY <1>0, <1>3 DEF SeedFault, SeedFields
  <2> QED
    BY <1>0, <1>2, <2>1
<1>4. CASE DeleteTenants
  <2>1. /\ seed'.pc = "rules" /\ seed'.since = seed.since /\ UNCHANGED <<db, lastId>>
        /\ seed'.webhooks = seed.webhooks /\ seed'.executions = seed.executions
    BY <1>0, <1>4 DEF DeleteTenants, SeedFields
  <2>2. \A c : ~Cleared(c)'
    BY <2>1 DEF Cleared, WritingPc, AddingPc
  <2> QED
    BY <1>0, <2>1, <2>2 DEF ClearedInv
<1>5. ASSUME NEW c \in DOMAIN Cleanup, DeleteDocuments(c)
      PROVE  ClearedInv'
  <2>1. /\ c \in {"rules", "webhooks", "executions", "replays"} /\ seed.pc = c
        /\ seed'.pc = Cleanup[c] /\ seed'.since = seed.since /\ lastId' = lastId
        /\ seed'.webhooks = seed.webhooks /\ seed'.executions = seed.executions
    BY <1>0, <1>5 DEF DeleteDocuments, Cleanup, SeedFields
  <2>2. /\ \A d \in db'[c] : d.tenant \notin DemoTenants
        /\ \A b \in Collections \ {c} : db'[b] = db[b]
    BY <1>0, <1>5, <2>1 DEF DeleteDocuments, Collections
  <2>3. \A b \in Collections \ {c} : Cleared(b)' => Cleared(b)
    BY <2>1 DEF Cleared, Cleanup, WritingPc, AddingPc, Collections
  <2>4. seed'.pc \notin {"addWebhooks", "addExecutions"}
    BY <2>1 DEF Cleanup
  <2> QED
    BY <1>0, <2>1, <2>2, <2>3, <2>4 DEF ClearedInv
<1>6. CASE CreateTenant
  <2>1. /\ seed.pc = "create" /\ UNCHANGED <<db, lastId>>
        /\ seed'.pc \in {"create", "addRules", "aborted"} /\ seed'.since = seed.since
        /\ seed'.webhooks = seed.webhooks /\ seed'.executions = seed.executions
    <3>1. \/ seed' = [seed EXCEPT !.at = @ + 1,
                                  !.pc = IF seed.at = Len(Demo) THEN "addRules" ELSE @]
          \/ seed' = [seed EXCEPT !.pc = "aborted"]
      BY <1>6, Zenon DEF CreateTenant
    <3>2. seed.pc = "create" /\ UNCHANGED <<db, lastId>>
      BY <1>6 DEF CreateTenant
    <3> QED
      BY <1>0, <3>1, <3>2 DEF SeedFields
  <2>2. \A c : Cleared(c)
    BY <2>1 DEF Cleared, WritingPc
  <2> QED
    BY <1>0, <2>1, <2>2 DEF ClearedInv
\* An insert of documents newer than the start of the run, from one of the
\* steps that add to the next.
<1>7. ASSUME NEW c \in Collections, NEW D, NewerThan(D, seed.since), InsertMany(c, D),
             seed.pc \in WritingPc, seed'.since = seed.since,
             lastId' \in Nat, lastId' >= lastId,
             NewerThan(seed'.webhooks \cup seed'.executions, seed.since)
               \/ /\ seed'.webhooks = seed.webhooks /\ seed'.executions = seed.executions
                  /\ seed'.pc = "addExecutions" => seed.pc = "addWebhooks"
                  /\ seed'.pc # "addWebhooks"
      PROVE  ClearedInv'
  <2>1. \A b \in Collections : db'[b] \subseteq db[b] \cup D
    BY <1>0, <1>7 DEF InsertMany
  <2>2. \A b : Cleared(b)
    BY <1>7 DEF Cleared
  <2>3. \A b \in Collections : \A d \in db'[b] : d.tenant \in DemoTenants => d.id > seed.since
    BY <1>7, <2>1, <2>2 DEF ClearedInv, NewerThan
  <2>4. \A d \in seed'.webhooks \cup seed'.executions : d.id \in Nat
    BY <1>7 DEF ClearedInv, NewerThan
  <2>5. seed'.pc \in {"addWebhooks", "addExecutions"} =>
           NewerThan(seed'.webhooks \cup seed'.executions, seed.since)
    BY <1>7 DEF ClearedInv
  <2> QED
    BY <1>0, <1>7, <2>3, <2>4, <2>5 DEF ClearedInv, NewerThan
<1>8. ASSUME NEW D, NEW base \in Nat, base >= lastId, NewerThan(D, base)
      PROVE  NewerThan(D, seed.since)
  BY <1>0, <1>8 DEF NewerThan
<1>9. /\ RulesPer \in Nat /\ EventsPer \in Nat /\ ExecutionsPer \in Nat /\ ReplaysPer \in Nat
      /\ Len(Demo) \in Nat
  BY SeedAssumption, ApiAssumption DEF EventsPer, ExecutionsPer
<1>10. CASE AddRules
  <2> DEFINE webhooksFrom == lastId + Len(Demo) * RulesPer
             executionsFrom == webhooksFrom + Len(Demo) * EventsPer
  <2>1. /\ webhooksFrom \in Nat /\ webhooksFrom >= lastId
        /\ executionsFrom \in Nat /\ executionsFrom >= lastId
        /\ executionsFrom + Len(Demo) * ExecutionsPer \in Nat
        /\ executionsFrom + Len(Demo) * ExecutionsPer >= lastId
    <3>1. /\ Len(Demo) * RulesPer \in Nat /\ Len(Demo) * EventsPer \in Nat
          /\ Len(Demo) * ExecutionsPer \in Nat
      BY <1>9
    <3> DEFINE a == Len(Demo) * RulesPer
               b == Len(Demo) * EventsPer
               e == Len(Demo) * ExecutionsPer
    <3>2. a \in Nat /\ b \in Nat /\ e \in Nat
      BY <3>1
    <3> HIDE DEF a, b, e
    <3>3. /\ lastId + a \in Nat /\ lastId + a >= lastId
          /\ lastId + a + b \in Nat /\ lastId + a + b >= lastId
          /\ lastId + a + b + e \in Nat /\ lastId + a + b + e >= lastId
      BY <1>0, <3>2
    <3> QED
      BY <3>3 DEF a, b, e
  <2>2. /\ seed.pc = "addRules" /\ lastId' = executionsFrom + Len(Demo) * ExecutionsPer
    BY <1>10 DEF AddRules
  <2>3. PICK off \in Draws : InsertMany("rules", PlannedRules(lastId, off))
    BY <1>10 DEF AddRules
  <2>4. PICK lists \in [1..Len(Demo) -> Shuffles] :
           LET executions == PlannedExecutions(lists, executionsFrom, lastId, webhooksFrom)
           IN seed' = [seed EXCEPT !.pc = "addWebhooks", !.executions = executions,
                                   !.webhooks = PlannedWebhooks(executions, webhooksFrom)]
    BY <1>10 DEF AddRules
  <2> HIDE DEF webhooksFrom, executionsFrom
  <2> DEFINE executions == PlannedExecutions(lists, executionsFrom, lastId, webhooksFrom)
             webhooks == PlannedWebhooks(executions, webhooksFrom)
  <2>5. NewerThan(executions, seed.since)
    BY <1>8, <2>1, PlannedIds
  <2>6. seed' = [seed EXCEPT !.pc = "addWebhooks", !.executions = executions,
                             !.webhooks = webhooks]
    BY <2>4
  <2> HIDE DEF executions
  <2>7. NewerThan(webhooks, seed.since)
    BY <1>8, <2>1, PlannedIds
  <2> HIDE DEF webhooks
  <2>8. /\ seed'.since = seed.since
        /\ NewerThan(seed'.webhooks \cup seed'.executions, seed.since)
    BY <1>0, <2>5, <2>6, <2>7 DEF SeedFields, NewerThan
  <2>9. NewerThan(PlannedRules(lastId, off), seed.since)
    BY <1>0, <1>8, PlannedIds
  <2> QED
    BY <1>7, <2>1, <2>2, <2>3, <2>8, <2>9 DEF WritingPc, AddingPc, Collections
<1>11. CASE AddWebhooks
  <2>1. /\ seed.pc = "addWebhooks" /\ InsertMany("webhooks", seed.webhooks) /\ lastId' = lastId
        /\ seed'.pc = "addExecutions" /\ seed'.since = seed.since
        /\ seed'.webhooks = seed.webhooks /\ seed'.executions = seed.executions
    BY <1>0, <1>11 DEF AddWebhooks, SeedFields
  <2>2. NewerThan(seed.webhooks, seed.since)
    BY <2>1 DEF ClearedInv, NewerThan
  <2> QED
    BY <1>0, <1>7, <2>1, <2>2 DEF WritingPc, AddingPc, Collections
<1>12. CASE AddExecutions
  <2>1. /\ seed.pc = "addExecutions" /\ InsertMany("executions", seed.executions)
        /\ lastId' = lastId /\ seed'.pc = "addReplays" /\ seed'.since = seed.since
        /\ seed'.webhooks = seed.webhooks /\ seed'.executions = seed.executions
    BY <1>0, <1>12 DEF AddExecutions, SeedFields
  <2>2. NewerThan(seed.executions, seed.since)
    BY <2>1 DEF ClearedInv, NewerThan
  <2> QED
    BY <1>0, <1>7, <2>1, <2>2 DEF WritingPc, AddingPc, Collections
<1>13. CASE AddReplays
  <2>1. /\ seed.pc = "addReplays" /\ InsertMany("replays", PlannedReplays(lastId))
        /\ lastId' = lastId + Len(Demo) * ReplaysPer
        /\ seed'.pc = "done" /\ seed'.since = seed.since
        /\ seed'.webhooks = seed.webhooks /\ seed'.executions = seed.executions
    BY <1>0, <1>13 DEF AddReplays, SeedFields
  <2>2. NewerThan(PlannedReplays(lastId), seed.since)
    BY <1>0, <1>8, PlannedIds
  <2>3. Len(Demo) * ReplaysPer \in Nat
    BY <1>9
  <2>4. lastId' \in Nat /\ lastId' >= lastId
    BY <1>0, <2>1, <2>3
  <2> QED
    BY <1>7, <2>1, <2>2, <2>4 DEF WritingPc, AddingPc, Collections
<1>14. ASSUME NEW c, NEW pc, NEW D, InsertFault(c, pc, D), \A d \in D : d.id \in Nat
       PROVE  ClearedInv'
  <2>1. \E d \in D : lastId' = IF d.id > lastId THEN d.id ELSE lastId
    BY <1>14 DEF InsertFault
  <2>2. lastId' \in Nat /\ lastId' >= lastId
    BY <1>0, <1>14, <2>1
  <2>3. PICK replays : seed' = [seed EXCEPT !.pc = "aborted", !.replays = replays]
    BY <1>14, Zenon DEF InsertFault
  <2>4. /\ seed'.pc = "aborted" /\ seed'.since = seed.since
        /\ seed'.webhooks = seed.webhooks /\ seed'.executions = seed.executions
    BY <1>0, <2>3 DEF SeedFields
  <2> QED
    BY <1>2, <2>2, <2>4
<1>15. CASE \E off \in Draws : InsertFault("rules", "addRules", PlannedRules(lastId, off))
  <2>1. PICK off \in Draws : InsertFault("rules", "addRules", PlannedRules(lastId, off))
    BY <1>15
  <2>2. \A d \in PlannedRules(lastId, off) : d.id \in Nat
    BY <1>0, PlannedIds DEF NewerThan
  <2> QED
    BY <1>14, <2>1, <2>2
<1>16. CASE InsertFault("replays", "addReplays", PlannedReplays(lastId))
  <2>1. \A d \in PlannedReplays(lastId) : d.id \in Nat
    BY <1>0, PlannedIds DEF NewerThan
  <2> QED
    BY <1>14, <1>16, <2>1
<1>17. CASE \/ InsertFault("webhooks", "addWebhooks", seed.webhooks)
            \/ InsertFault("executions", "addExecutions", seed.executions)
  <2>1. \A d \in seed.webhooks \cup seed.executions : d.id \in Nat
    BY DEF ClearedInv
  <2> QED
    BY <1>14, <1>17, <2>1
<1> QED
  BY <1>1, <1>3, <1>4, <1>5, <1>6, <1>10, <1>11, <1>12, <1>13, <1>15, <1>16, <1>17
     DEF SeedNext, SeedStep

\* The documents in stock are finitely many.
LEMMA StockIsFinite == IsFiniteSet(Ids(Stock))
<1> DEFINE docs == UNION {Stock[c] : c \in Collections}
<1>1. docs = Stock["webhooks"] \cup Stock["rules"] \cup Stock["executions"] \cup Stock["replays"]
  BY DEF Collections
<1>2. IsFiniteSet(docs)
  <2> HIDE DEF docs
  <2>1. \A c \in Collections : IsFiniteSet(Stock[c])
    BY ApiAssumption
  <2>2. IsFiniteSet(Stock["webhooks"] \cup Stock["rules"])
    BY <2>1, FS_Union DEF Collections
  <2>3. IsFiniteSet(Stock["webhooks"] \cup Stock["rules"] \cup Stock["executions"])
    BY <2>1, <2>2, FS_Union DEF Collections
  <2> QED
    BY <1>1, <2>1, <2>3, FS_Union DEF Collections
<1>3. Ids(Stock) = {[x \in docs |-> x.id][d] : d \in docs}
  BY DEF Ids
<1> HIDE DEF docs
<1>4. [d \in docs |-> d.id] \in Surjection(docs, Ids(Stock))
  BY <1>3, Zenon DEF Surjection
<1> QED
  BY <1>2, <1>4, FS_Surjection

LEMMA ClearedHolds == Spec => []ClearedInv
<1>1. Init => ClearedInv
  <2> SUFFICES ASSUME Init PROVE ClearedInv
    OBVIOUS
  <2>1. /\ lastId = Cardinality(Ids(Stock)) /\ seed.pc = "idle" /\ seed.since = 0
        /\ seed.webhooks = {} /\ seed.executions = {}
    BY DEF Init, ApiInit, SeedInit
  <2>2. lastId \in Nat
    BY <2>1, StockIsFinite, FS_CardinalityType
  <2>3. \A c : ~Cleared(c)
    BY <2>1 DEF Cleared, WritingPc, AddingPc
  <2> QED
    BY <2>1, <2>2, <2>3 DEF ClearedInv
<1>2. DocsInv /\ ClearedInv /\ [Next]_vars => ClearedInv'
  <2> SUFFICES ASSUME DocsInv, ClearedInv, [Next]_vars PROVE ClearedInv'
    OBVIOUS
  <2>1. CASE Use \/ Others
    <3>1. UNCHANGED seed /\ Grows
      BY <2>1, UseGrows, OthersGrow DEF Use, Others, seedVars
    <3> QED
      BY <3>1, GrowthKeepsCleared
  <2>2. CASE Reseed
    BY <2>2, SeedKeepsCleared DEF Reseed
  <2>3. CASE UNCHANGED vars
    <3>1. UNCHANGED <<seed, db, lastId>>
      BY <2>3 DEF vars, apiVars, seedVars
    <3>2. \A c : Cleared(c)' <=> Cleared(c)
      BY <3>1 DEF Cleared
    <3> QED
      BY <3>1, <3>2 DEF ClearedInv
  <2> QED
    BY <2>1, <2>2, <2>3 DEF Next
<1> QED
  BY <1>1, <1>2, DocumentsMade, PTL DEF Spec

\* However a run of the script ended, the next one leaves nothing of a demo
\* tenant that is older than itself, for any sizes and whatever is in use.
THEOREM ReseedReplaces == Spec => []SeedIsIdempotent
<1>1. ClearedInv => SeedIsIdempotent
  BY DEF ClearedInv, SeedIsIdempotent, Cleared, WritingPc, AddingPc
<1> QED
  BY <1>1, ClearedHolds, PTL
-----------------------------------------------------------------------------
(* What the documents of the seed script refer to *)

\* Numbering n documents for each of m tenants: the rth of the ith is among
\* them, and no two are the same.
LEMMA PlaceWithin ==
    ASSUME NEW n \in Nat, NEW m \in Nat, NEW i \in 1..m, NEW r \in 1..n
    PROVE  (i - 1) * n \in Nat /\ (i - 1) * n + r <= m * n /\ m * n \in Nat
<1>1. i \in Nat /\ i - 1 \in Nat /\ m - i \in Nat /\ r \in Nat /\ r <= n
  OBVIOUS
<1>2. (i - 1) * n \in Nat /\ (m - i) * n \in Nat /\ m * n \in Nat
  BY <1>1
<1>3. m * n = (i - 1) * n + (m - i) * n + n
  BY <1>1
<1> DEFINE a == (i - 1) * n
           b == (m - i) * n
           c == m * n
<1>4. a \in Nat /\ b \in Nat /\ c \in Nat /\ c = a + b + n
  BY <1>2, <1>3
<1> HIDE DEF a, b, c
<1>5. a + r <= c
  BY <1>1, <1>4
<1> QED
  BY <1>4, <1>5 DEF a, c

LEMMA PlaceIsOne ==
    ASSUME NEW n \in Nat, NEW i \in Nat \ {0}, NEW j \in Nat \ {0}, NEW r \in 1..n, NEW s \in 1..n,
           (i - 1) * n + r = (j - 1) * n + s
    PROVE  i = j /\ r = s
<1>1. ASSUME NEW k \in Nat \ {0}, NEW l \in Nat \ {0}, NEW t \in 1..n, NEW u \in 1..n, k < l
      PROVE  (k - 1) * n + t < (l - 1) * n + u
  <2>1. k \in 1..(l - 1) /\ l - 1 \in Nat
    BY <1>1
  <2>2. (k - 1) * n \in Nat /\ (k - 1) * n + t <= (l - 1) * n /\ (l - 1) * n \in Nat
    BY <2>1, PlaceWithin
  <2> DEFINE a == (k - 1) * n
             b == (l - 1) * n
  <2>3. a \in Nat /\ b \in Nat /\ a + t <= b
    BY <2>2
  <2> HIDE DEF a, b
  <2>4. a + t < b + u
    BY <2>3
  <2> QED
    BY <2>4 DEF a, b
<1>2. i = j
  <2>1. CASE i < j
    <3>1. (i - 1) * n + r < (j - 1) * n + s
      BY <1>1, <2>1
    <3> DEFINE a == (i - 1) * n
               b == (j - 1) * n
    <3>2. a \in Nat /\ b \in Nat
      OBVIOUS
    <3>3. a + r < b + s /\ a + r = b + s
      BY <3>1
    <3> HIDE DEF a, b
    <3> QED
      BY <3>2, <3>3
  <2>2. CASE j < i
    <3>1. (j - 1) * n + s < (i - 1) * n + r
      BY <1>1, <2>2
    <3> DEFINE a == (i - 1) * n
               b == (j - 1) * n
    <3>2. a \in Nat /\ b \in Nat
      OBVIOUS
    <3>3. b + s < a + r /\ a + r = b + s
      BY <3>1
    <3> HIDE DEF a, b
    <3> QED
      BY <3>2, <3>3
  <2> QED
    BY <2>1, <2>2
<1>3. r = s
  <2> DEFINE a == (i - 1) * n
  <2>1. a \in Nat /\ a + r = a + s
    BY <1>2
  <2> HIDE DEF a
  <2> QED
    BY <2>1
<1> QED
  BY <1>2, <1>3

\* The draw of a rule and of a webhook stays within the tenant's own.
LEMMA DrawsWithin ==
    ASSUME NEW n \in 1..ExecutionsPer
    PROVE  RuleOf(n) \in 1..RulesPer /\ WebhookOf(n) \in 1..EventsPer
<1>0. /\ RulesPer \in Nat /\ RulesPer >= 2 /\ PairsPer \in Nat /\ SinglesPer \in Nat
      /\ n \in Nat /\ n >= 1 /\ n <= 2 * PairsPer + SinglesPer
  BY SeedAssumption DEF ExecutionsPer
<1>1. WebhookOf(n) \in 1..EventsPer
  BY <1>0 DEF WebhookOf, EventsPer
<1> DEFINE w == WebhookOf(n) - 1
           h == RulesPer \div 2
<1>2. w \in Nat
  BY <1>1 DEF EventsPer
<1>3. h \in Nat /\ h >= 1 /\ 2 * h <= RulesPer
  BY <1>0
<1> HIDE DEF w, h
<1>4. w % h \in 0..(h - 1) /\ w % RulesPer \in 0..(RulesPer - 1)
  BY <1>0, <1>2, <1>3
<1>5. RuleOf(n) = IF n <= 2 * PairsPer THEN 2 * (w % h) + 2 - (n % 2) ELSE (w % RulesPer) + 1
  BY DEF RuleOf, w, h
<1> DEFINE q == w % h
           s == w % RulesPer
<1>6. q \in 0..(h - 1) /\ s \in 0..(RulesPer - 1) /\ n % 2 \in {0, 1}
  BY <1>0, <1>4
<1>7. RuleOf(n) = IF n <= 2 * PairsPer THEN 2 * q + 2 - (n % 2) ELSE s + 1
  BY <1>5
<1> HIDE DEF q, s
<1>8. 2 * q + 2 - (n % 2) \in 1..RulesPer /\ s + 1 \in 1..RulesPer
  BY <1>0, <1>3, <1>6
<1> QED
  BY <1>1, <1>7, <1>8

\* Counting round and round ends at an element of the set.
LEMMA TurnWithin ==
    ASSUME NEW S, IsFiniteSet(S), S # {}, \A x \in S : x.id \in Nat,
           \A x, y \in S : x.id = y.id => x = y, NEW n \in Nat
    PROVE  InTurn(S, n) \in S
<1> DEFINE N == Cardinality(S)
           Before(x) == {y \in S : y.id < x.id}
           rank == [x \in S |-> Cardinality(Before(x))]
<1>1. N \in Nat /\ N > 0
  BY FS_CardinalityType, FS_EmptySet
<1>2. ASSUME NEW x \in S
      PROVE  /\ IsFiniteSet(Before(x)) /\ Cardinality(Before(x)) \in Nat
             /\ Cardinality(Before(x)) < N
  <2>1. Before(x) \in SUBSET S /\ x \notin Before(x)
    OBVIOUS
  <2> HIDE DEF Before
  <2>2. /\ IsFiniteSet(Before(x)) /\ Cardinality(Before(x)) <= N
        /\ N = Cardinality(Before(x)) => S = Before(x)
    BY <2>1, FS_Subset
  <2>3. Cardinality(Before(x)) \in Nat
    BY <2>2, FS_CardinalityType
  <2> QED
    BY <1>1, <2>1, <2>2, <2>3
<1>3. ASSUME NEW x \in S, NEW y \in S, x.id < y.id
      PROVE  rank[x] # rank[y]
  <2>1. Before(x) \in SUBSET Before(y) /\ x \in Before(y) /\ x \notin Before(x)
    BY <1>3
  <2>2. IsFiniteSet(Before(y))
    BY <1>2
  <2>3. rank[x] = Cardinality(Before(x)) /\ rank[y] = Cardinality(Before(y))
    OBVIOUS
  <2> HIDE DEF Before, rank
  <2>4. Cardinality(Before(y)) = Cardinality(Before(x)) => Before(y) = Before(x)
    BY <2>1, <2>2, FS_Subset
  <2> QED
    BY <2>1, <2>3, <2>4
<1>4. \A x, y \in S : rank[x] = rank[y] => x = y
  <2> HIDE DEF rank
  <2> SUFFICES ASSUME NEW x \in S, NEW y \in S, rank[x] = rank[y] PROVE x = y
    OBVIOUS
  <2>1. ~(x.id < y.id) /\ ~(y.id < x.id)
    BY <1>3
  <2> QED
    BY <2>1
<1>5. rank \in [S -> 0..(N - 1)]
  <2>1. \A x \in S : Cardinality(Before(x)) \in 0..(N - 1)
    <3> HIDE DEF Before, N
    <3> QED
      BY <1>1, <1>2
  <2> QED
    BY <2>1
<1> HIDE DEF rank
<1>6. rank \in Injection(S, 0..(N - 1))
  BY <1>4, <1>5 DEF Injection, IsInjective
<1>7. IsFiniteSet(0..(N - 1)) /\ Cardinality(0..(N - 1)) = N
  <2> HIDE DEF N
  <2> QED
    BY <1>1, FS_Interval
<1>8. rank \in Surjection(S, 0..(N - 1))
  BY <1>6, <1>7, FS_Injection
<1>9. n % N \in 0..(N - 1)
  <2> HIDE DEF N
  <2> QED
    BY <1>1
<1>10. PICK x \in S : rank[x] = n % N
  BY <1>8, <1>9 DEF Surjection
<1>11. Cardinality(Before(x)) = n % N
  BY <1>10 DEF rank
<1> QED
  BY <1>11 DEF InTurn

Numbers(D) == {d.id : d \in D}

\* The documents in D are numbered from base, as far as base + m.
Between(D, base, m) == \A d \in D : d.id \in Nat /\ d.id > base /\ d.id <= base + m

LEMMA PlannedBetween ==
    ASSUME NEW base \in Nat
    PROVE  /\ \A off : Between(PlannedRules(base, off), base, Len(Demo) * RulesPer)
           /\ \A lists, rules, webhooks :
                 Between(PlannedExecutions(lists, base, rules, webhooks), base,
                         Len(Demo) * ExecutionsPer)
           /\ \A executions :
                 Between(PlannedWebhooks(executions, base), base, Len(Demo) * EventsPer)
           /\ Between(PlannedReplays(base), base, Len(Demo) * ReplaysPer)
<1>0. /\ RulesPer \in Nat /\ EventsPer \in Nat /\ ExecutionsPer \in Nat /\ ReplaysPer \in Nat
      /\ Len(Demo) \in Nat
  BY SeedAssumption, ApiAssumption DEF EventsPer, ExecutionsPer
<1>1. ASSUME NEW n \in Nat, NEW i \in 1..Len(Demo), NEW r \in 1..n
      PROVE  base + (i - 1) * n + r <= base + Len(Demo) * n
  <2> DEFINE a == (i - 1) * n
             b == Len(Demo) * n
  <2>1. a \in Nat /\ b \in Nat /\ a + r <= b
    BY <1>0, PlaceWithin
  <2> HIDE DEF a, b
  <2>2. base + a + r <= base + b
    BY <2>1
  <2> QED
    BY <2>2 DEF a, b
<1>2. ASSUME NEW off, NEW d \in PlannedRules(base, off)
      PROVE  d.id <= base + Len(Demo) * RulesPer
  <2>1. PICK i \in 1..Len(Demo), r \in 1..RulesPer :
           d = [RuleDoc(base + (i - 1) * RulesPer + r, Demo[i], 0,
                        IF r % 5 = 1 THEN <<0, 1>> ELSE <<0>>)
                  EXCEPT !.status = IF r \in off THEN "inactive" ELSE "active"]
    BY <1>2 DEF PlannedRules
  <2>2. d.id = base + (i - 1) * RulesPer + r
    BY <2>1, Zenon DEF RuleDoc
  <2> QED
    BY <1>0, <1>1, <2>2
<1>3. ASSUME NEW lists, NEW rules, NEW webhooks,
             NEW d \in PlannedExecutions(lists, base, rules, webhooks)
      PROVE  d.id <= base + Len(Demo) * ExecutionsPer
  <2>1. PICK i \in 1..Len(Demo), n \in 1..ExecutionsPer :
           d.id = base + (i - 1) * ExecutionsPer + n
    BY <1>3 DEF PlannedExecutions
  <2> QED
    BY <1>0, <1>1, <2>1
<1>4. ASSUME NEW executions, NEW d \in PlannedWebhooks(executions, base)
      PROVE  d.id <= base + Len(Demo) * EventsPer
  <2>1. PICK i \in 1..Len(Demo), w \in 1..EventsPer :
           d = WebhookDoc(base + (i - 1) * EventsPer + w, Demo[i], executions)
    BY <1>4 DEF PlannedWebhooks
  <2>2. d.id = base + (i - 1) * EventsPer + w
    BY <2>1 DEF WebhookDoc
  <2> QED
    BY <1>0, <1>1, <2>2
<1>5. ASSUME NEW d \in PlannedReplays(base)
      PROVE  d.id <= base + Len(Demo) * ReplaysPer
  <2>1. PICK i \in 1..Len(Demo), n \in 1..(IF ExecutionsPer = 0 THEN 0 ELSE ReplaysPer) :
           d = ReplayOf(InTurn(Sources(Demo[i]), n - 1), base + (i - 1) * ReplaysPer + n,
                        ReplayStatus[((n - 1) % 3) + 1])
    BY <1>5 DEF PlannedReplays
  <2>2. d.id = base + (i - 1) * ReplaysPer + n
    BY <2>1, Zenon DEF ReplayOf, HistoryDoc
  <2>3. n \in 1..ReplaysPer
    BY <1>0
  <2> QED
    BY <1>0, <1>1, <2>2, <2>3
<1> QED
  BY <1>2, <1>3, <1>4, <1>5, PlannedIds DEF Between, NewerThan

\* What is planned for executions: enough to plan replays from.
Ready(executions) ==
    /\ IsFiniteSet(executions)
    /\ \A x, y \in executions : x.id = y.id => x = y
    /\ ExecutionsPer > 0 => \A t \in DemoTenants : \E x \in executions : x.tenant = t

LEMMA PlannedAreReady ==
    ASSUME NEW base \in Nat, NEW lists, NEW rules, NEW webhooks
    PROVE  Ready(PlannedExecutions(lists, base, rules, webhooks))
<1> DEFINE E == PlannedExecutions(lists, base, rules, webhooks)
           Places == (1..Len(Demo)) \X (1..ExecutionsPer)
           The(i, n) == [id |-> base + (i - 1) * ExecutionsPer + n, tenant |-> Demo[i],
                         status |-> lists[i][n],
                         ref |-> rules + (i - 1) * RulesPer + RuleOf(n),
                         event |-> webhooks + (i - 1) * EventsPer + WebhookOf(n),
                         orders |-> <<>>]
<1>0. ExecutionsPer \in Nat /\ Len(Demo) \in Nat
  BY SeedAssumption, ApiAssumption DEF ExecutionsPer
<1>1. E = {The(i, n) : i \in 1..Len(Demo), n \in 1..ExecutionsPer}
  BY DEF PlannedExecutions
<1>2. \A i, n : /\ The(i, n).id = base + (i - 1) * ExecutionsPer + n
                /\ The(i, n).tenant = Demo[i]
  OBVIOUS
<1> HIDE DEF E, The
<1>3. IsFiniteSet(E)
  <2> DEFINE f == [p \in Places |-> The(p[1], p[2])]
  <2>1. f \in Surjection(Places, E)
    <3>1. \A p \in Places : f[p] = The(p[1], p[2]) /\ f[p] \in E
      BY <1>1
    <3>2. \A e \in E : \E p \in Places : f[p] = e
      <4> SUFFICES ASSUME NEW e \in E PROVE \E p \in Places : f[p] = e
        OBVIOUS
      <4>1. PICK i \in 1..Len(Demo), n \in 1..ExecutionsPer : e = The(i, n)
        BY <1>1
      <4>2. <<i, n>> \in Places /\ f[<<i, n>>] = e
        BY <4>1
      <4> QED
        BY <4>2
    <3>3. f \in [Places -> E]
      BY <3>1
    <3> HIDE DEF f, Places
    <3> QED
      BY <3>2, <3>3 DEF Surjection
  <2>2. IsFiniteSet(Places)
    <3>1. IsFiniteSet(1..Len(Demo)) /\ IsFiniteSet(1..ExecutionsPer)
      BY <1>0, FS_Interval
    <3> QED
      BY <3>1, FS_Product
  <2> HIDE DEF f, Places
  <2> QED
    BY <2>1, <2>2, FS_Surjection
<1>4. ASSUME NEW x \in E, NEW y \in E, x.id = y.id
      PROVE  x = y
  <2>1. PICK i \in 1..Len(Demo), n \in 1..ExecutionsPer : x = The(i, n)
    BY <1>1
  <2>2. PICK j \in 1..Len(Demo), m \in 1..ExecutionsPer : y = The(j, m)
    BY <1>1
  <2>3. (i - 1) * ExecutionsPer + n = (j - 1) * ExecutionsPer + m
    <3> DEFINE a == (i - 1) * ExecutionsPer
               b == (j - 1) * ExecutionsPer
    <3>1. a \in Nat /\ b \in Nat
      BY <1>0
    <3>2. base + a + n = base + b + m
      BY <1>2, <1>4, <2>1, <2>2
    <3> HIDE DEF a, b
    <3>3. a + n = b + m
      BY <1>0, <3>1, <3>2
    <3> QED
      BY <3>3 DEF a, b
  <2>4. i = j /\ n = m
    <3>1. i \in Nat \ {0} /\ j \in Nat \ {0}
      BY <1>0
    <3> QED
      BY <1>0, <2>3, <3>1, PlaceIsOne
  <2> QED
    BY <2>1, <2>2, <2>4
<1>5. ASSUME ExecutionsPer > 0, NEW t \in DemoTenants
      PROVE  \E x \in E : x.tenant = t
  <2>1. PICK i \in 1..Len(Demo) : t = Demo[i]
    BY DEF DemoTenants
  <2>2. 1 \in 1..ExecutionsPer
    BY <1>0, <1>5
  <2>3. The(i, 1) \in E
    BY <1>1, <2>2
  <2> QED
    BY <1>2, <2>1, <2>3
<1>6. E = PlannedExecutions(lists, base, rules, webhooks)
  BY DEF E
<1> QED
  BY <1>3, <1>4, <1>5, <1>6 DEF Ready

\* An execution is planned for a rule that is, and for a webhook that is planned.
LEMMA PlannedRefer ==
    ASSUME NEW lists, NEW base, NEW rules \in Nat, NEW webhooks \in Nat,
           NEW x \in PlannedExecutions(lists, base, rules, webhooks)
    PROVE  /\ \A off : \E r \in PlannedRules(rules, off) : r.id = x.ref /\ r.tenant = x.tenant
           /\ \A executions : \E w \in PlannedWebhooks(executions, webhooks) :
                 w.id = x.event /\ w.tenant = x.tenant
<1>1. PICK i \in 1..Len(Demo), n \in 1..ExecutionsPer :
         /\ x.tenant = Demo[i]
         /\ x.ref = rules + (i - 1) * RulesPer + RuleOf(n)
         /\ x.event = webhooks + (i - 1) * EventsPer + WebhookOf(n)
  BY DEF PlannedExecutions
<1>2. RuleOf(n) \in 1..RulesPer /\ WebhookOf(n) \in 1..EventsPer
  BY DrawsWithin
<1>3. ASSUME NEW off
      PROVE  \E r \in PlannedRules(rules, off) : r.id = x.ref /\ r.tenant = x.tenant
  <2> DEFINE The(j, k) == [RuleDoc(rules + (j - 1) * RulesPer + k, Demo[j], 0,
                                   IF k % 5 = 1 THEN <<0, 1>> ELSE <<0>>)
                             EXCEPT !.status = IF k \in off THEN "inactive" ELSE "active"]
             d == The(i, RuleOf(n))
  <2>1. PlannedRules(rules, off) = {The(j, k) : j \in 1..Len(Demo), k \in 1..RulesPer}
    BY DEF PlannedRules
  <2>2. \A j, k : /\ The(j, k).id = rules + (j - 1) * RulesPer + k
                  /\ The(j, k).tenant = Demo[j]
    BY Zenon DEF RuleDoc
  <2> HIDE DEF The
  <2>3. d \in PlannedRules(rules, off)
    BY <1>2, <2>1
  <2>4. d.id = x.ref /\ d.tenant = x.tenant
    BY <1>1, <2>2
  <2> QED
    BY <2>3, <2>4
<1>4. ASSUME NEW executions
      PROVE  \E w \in PlannedWebhooks(executions, webhooks) :
                w.id = x.event /\ w.tenant = x.tenant
  <2> DEFINE d == WebhookDoc(webhooks + (i - 1) * EventsPer + WebhookOf(n), Demo[i], executions)
  <2>1. d \in PlannedWebhooks(executions, webhooks)
    BY <1>2 DEF PlannedWebhooks
  <2>2. d.id = x.event /\ d.tenant = x.tenant
    BY <1>1 DEF WebhookDoc
  <2> QED
    BY <2>1, <2>2
<1> QED
  BY <1>3, <1>4

\* The source of a replay is an execution that is planned.
LEMMA SourceInTurn ==
    ASSUME Ready(seed.executions), \A x \in seed.executions : x.id \in Nat, ExecutionsPer > 0,
           NEW i \in 1..Len(Demo), NEW n \in Nat
    PROVE  InTurn(Sources(Demo[i]), n) \in seed.executions
<1> DEFINE S == Sources(Demo[i])
<1>1. Demo[i] \in DemoTenants
  BY DEF DemoTenants
<1>2. S \subseteq seed.executions /\ S # {}
  BY <1>1 DEF Ready, Sources
<1> HIDE DEF S
<1>3. IsFiniteSet(S)
  BY <1>2, FS_Subset DEF Ready
<1>4. \A x, y \in S : x.id = y.id => x = y
  BY <1>2 DEF Ready
<1>5. InTurn(S, n) \in S
  BY <1>2, <1>3, <1>4, TurnWithin
<1> QED
  BY <1>2, <1>5 DEF S

\* A replay is planned for an execution that is planned.
LEMMA ReplaysRefer ==
    ASSUME Ready(seed.executions), \A x \in seed.executions : x.id \in Nat, NEW base,
           NEW h \in PlannedReplays(base)
    PROVE  \E x \in seed.executions : x.id = h.ref /\ x.event = h.event /\ x.tenant = h.tenant
<1>0. ExecutionsPer \in Nat /\ ReplaysPer \in Nat
  BY SeedAssumption DEF ExecutionsPer
<1>1. PICK i \in 1..Len(Demo), n \in 1..(IF ExecutionsPer = 0 THEN 0 ELSE ReplaysPer) :
         h = ReplayOf(InTurn(Sources(Demo[i]), n - 1), base + (i - 1) * ReplaysPer + n,
                      ReplayStatus[((n - 1) % 3) + 1])
  BY DEF PlannedReplays
<1>2. ExecutionsPer > 0 /\ n - 1 \in Nat
  BY <1>0
<1>3. InTurn(Sources(Demo[i]), n - 1) \in seed.executions
  BY <1>2, SourceInTurn
<1>4. ASSUME NEW x, NEW id, NEW status
      PROVE  /\ ReplayOf(x, id, status).ref = x.id /\ ReplayOf(x, id, status).event = x.event
             /\ ReplayOf(x, id, status).tenant = x.tenant
  BY Zenon DEF ReplayOf, HistoryDoc
<1> QED
  BY <1>1, <1>3, <1>4

\* Every document has a number that was given out.
NumberedInv ==
    /\ lastId \in Nat
    /\ \A c \in Collections : \A d \in db[c] : d.id \in Nat /\ d.id <= lastId
    /\ \A d \in seed.webhooks \cup seed.executions \cup seed.replays :
          d.id \in Nat /\ d.id <= lastId

\* Before anything is added, nothing is planned; while something is added, what
\* is planned is complete.
PlanInv ==
    /\ seed.pc \in CleanupPc \cup {"idle", "create", "addRules"} =>
          seed.webhooks = {} /\ seed.executions = {} /\ seed.replays = {}
    /\ seed.pc \in {"addWebhooks", "addExecutions", "addReplays"} => Ready(seed.executions)
    /\ DOMAIN left = Happenings
    /\ scene.left["ruleRemoval"] = 0 => left["ruleRemoval"] = 0

\* What is planned refers to what is planned or, of rules, is there.
PlansRefer ==
    /\ \A x \in seed.executions :
          /\ scene.left["ruleRemoval"] = 0 =>
                \E r \in db["rules"] : r.id = x.ref /\ r.tenant = x.tenant
          /\ \E w \in seed.webhooks : w.id = x.event /\ w.tenant = x.tenant
    /\ \A h \in seed.replays :
          \E x \in seed.executions : x.id = h.ref /\ x.event = h.event /\ x.tenant = h.tenant

Written(c, D) == Numbers(db[c]) \cap Numbers(D) # {}

\* A planned number is the planned document's; once one is written, all that it
\* may refer to are.
WrittenInv ==
    /\ \A x \in db["executions"] : x.id \in Numbers(seed.executions) => Has(seed.executions, x)
    /\ \A h \in db["replays"] : h.id \in Numbers(seed.replays) => Has(seed.replays, h)
    /\ seed.pc \in {"addExecutions", "addReplays", "done"} \/ Written("executions", seed.executions)
          => \A w \in seed.webhooks : Has(db["webhooks"], w)
    /\ seed.pc \in {"addReplays", "done"} \/ Written("replays", seed.replays)
          => \A x \in seed.executions : Has(db["executions"], x)

ClosedInv == NumberedInv /\ PlanInv /\ PlansRefer /\ WrittenInv

LeftKept ==
    /\ DOMAIN left' = Happenings
    /\ UNCHANGED scene
    /\ scene.left["ruleRemoval"] = 0 => left'["ruleRemoval"] = 0

LEMMA HappenKeeps ==
    ASSUME PlanInv, (\E kind \in Happenings : Happen(kind)) \/ UNCHANGED <<scene, left>>
    PROVE  LeftKept
BY DEF PlanInv, LeftKept, Happen, Happenings

\* No step but RemoveRule is a removal of a rule.
LEMMA NextHappens ==
    ASSUME [Next]_vars
    PROVE  (\E kind \in Happenings : Happen(kind)) \/ UNCHANGED <<scene, left>>
<1>1. {"switch", "navigate", "turn", "reload", "refetch", "edit", "save", "replay", "otherTab",
       "fault", "engine", "ruleEdit", "ruleRemoval", "seed", "restart"} = Happenings
  BY DEF Happenings
<1>2. CASE UserStep
  BY <1>1, <1>2 DEF UserStep, Navigate, SwitchTenant, OtherTab, TurnPage, SelectFilter, TurnTo,
     Refresh, Reload, OpenForm, FillForm, AddAct, CancelForm, Submit, RemoveAct, ClickReplay
<1>3. ASSUME NEW k, FetchStep(k) \/ LoseAnswer(k) \/ Poll(k)
      PROVE  (\E kind \in Happenings : Happen(kind)) \/ UNCHANGED <<scene, left>>
  BY <1>1, <1>3 DEF FetchStep, Answer, Deliver, LoseAnswer, Poll, apiVars
<1>4. ASSUME NEW p, PostStep(p) \/ LosePost(p)
      PROVE  (\E kind \in Happenings : Happen(kind)) \/ UNCHANGED <<scene, left>>
  BY <1>1, <1>4 DEF PostStep, LosePost, CreateRule, CheckReplay, LogReplay, CarryOutReplay,
     RuleCreated, ReplayAccepted, PostRefused, apiVars
<1>5. CASE Others
  BY <1>1, <1>5 DEF Others, OthersNext, EngineWrites, EngineStarts, UpdateRule, RemoveRule,
     RestartServer
<1>6. CASE Reseed
  BY <1>1, <1>6 DEF Reseed, SeedNext, SeedStep, StartSeed, SeedFault, DeleteTenants,
     DeleteDocuments, CreateTenant, AddRules, AddWebhooks, AddExecutions, AddReplays, InsertFault
<1>7. CASE UNCHANGED vars
  BY <1>7 DEF vars, apiVars
<1> QED
  BY <1>2, <1>3, <1>4, <1>5, <1>6, <1>7 DEF Next, Use, ConsoleNext

LEMMA GrowthKeepsClosed ==
    ASSUME ClosedInv, Grows, LeftKept, UNCHANGED seed
    PROVE  ClosedInv'
<1>0. \A d, e, f : Same(d, e) /\ Same(e, f) => Same(d, f)
  BY DEF Same
<1>1. NumberedInv'
  <2>1. ASSUME NEW c \in Collections, NEW d \in db'[c]
        PROVE  d.id \in Nat /\ d.id <= lastId'
    <3>1. CASE Has(db[c], d)
      BY <3>1 DEF ClosedInv, NumberedInv, Grows, Has, Same
    <3>2. CASE d.id \in Nat /\ d.id <= lastId'
      BY <3>2
    <3> QED
      BY <3>1, <3>2 DEF Grows
  <2> QED
    BY <2>1 DEF ClosedInv, NumberedInv, Grows
<1>2. PlanInv'
  BY DEF ClosedInv, PlanInv, LeftKept
\* A document with a planned number was there before.
<1>3. ASSUME NEW c \in Collections, NEW D,
             D \subseteq seed.webhooks \cup seed.executions \cup seed.replays,
             NEW d \in db'[c], d.id \in Numbers(D)
      PROVE  \E e \in db[c] : Same(d, e)
  <2>1. d.id <= lastId /\ d.id \in Nat /\ lastId \in Nat
    BY <1>3 DEF ClosedInv, NumberedInv, Numbers
  <2> QED
    BY <2>1 DEF Grows, Has
<1>4. \A c \in Collections \ {"rules"} : \A d : Has(db[c], d) => Has(db'[c], d)
  BY <1>0 DEF Grows, Has
<1>5. PlansRefer'
  <2>1. ASSUME scene.left["ruleRemoval"] = 0, NEW r \in db["rules"]
        PROVE  \E s \in db'["rules"] : s.id = r.id /\ s.tenant = r.tenant
    <3>1. Has(db'["rules"], r)
      BY <2>1 DEF ClosedInv, PlanInv, Grows, Collections
    <3> QED
      BY <3>1 DEF Has, Same
  <2> QED
    BY <2>1 DEF ClosedInv, PlansRefer, LeftKept
<1>6. WrittenInv'
  <2>1. ASSUME NEW x \in db'["executions"], x.id \in Numbers(seed.executions)
        PROVE  /\ \E y \in db["executions"] : Same(x, y)
               /\ Written("executions", seed.executions) /\ Has(seed.executions, x)
    <3>1. PICK y \in db["executions"] : Same(x, y)
      BY <1>3, <2>1 DEF Collections
    <3>2. y.id \in Numbers(seed.executions)
      BY <2>1, <3>1 DEF Same
    <3>3. Has(seed.executions, y)
      BY <3>2 DEF ClosedInv, WrittenInv
    <3> QED
      BY <1>0, <3>1, <3>2, <3>3 DEF Written, Numbers, Has
  <2>2. ASSUME NEW h \in db'["replays"], h.id \in Numbers(seed.replays)
        PROVE  Written("replays", seed.replays) /\ Has(seed.replays, h)
    <3>1. PICK y \in db["replays"] : Same(h, y)
      BY <1>3, <2>2 DEF Collections
    <3>2. y.id \in Numbers(seed.replays)
      BY <2>2, <3>1 DEF Same
    <3>3. Has(seed.replays, y)
      BY <3>2 DEF ClosedInv, WrittenInv
    <3> QED
      BY <1>0, <3>1, <3>2, <3>3 DEF Written, Numbers, Has
  <2>3. /\ Written("executions", seed.executions)' => Written("executions", seed.executions)
        /\ Written("replays", seed.replays)' => Written("replays", seed.replays)
    BY <2>1, <2>2 DEF Written, Numbers
  <2> QED
    BY <1>4, <2>1, <2>2, <2>3 DEF ClosedInv, WrittenInv, Collections
<1> QED
  BY <1>1, <1>2, <1>5, <1>6 DEF ClosedInv

\* Where nothing is planned, only the numbers matter.
LEMMA NothingPlanned ==
    ASSUME LeftKept, seed'.webhooks = {}, seed'.executions = {}, seed'.replays = {},
           seed'.pc \notin {"addWebhooks", "addExecutions", "addReplays"}, lastId' \in Nat,
           \A c \in Collections : \A d \in db'[c] : d.id \in Nat /\ d.id <= lastId'
    PROVE  ClosedInv'
<1>1. NumberedInv' /\ PlanInv' /\ PlansRefer'
  BY DEF NumberedInv, PlanInv, PlansRefer, LeftKept
<1>2. WrittenInv'
  BY DEF WrittenInv, Numbers, Written
<1> QED
  BY <1>1, <1>2 DEF ClosedInv

\* The documents at D are added to c, and c is all that changes of what is
\* stored; the numbers given out cover them.
LEMMA AddedAreNumbered ==
    ASSUME DocsInv, NumberedInv, NEW c \in Collections, NEW D, InsertMany(c, D),
           lastId' \in Nat, lastId' >= lastId, \A d \in D : d.id \in Nat /\ d.id <= lastId'
    PROVE  /\ db'[c] = db[c] \cup D
           /\ \A b \in Collections \ {c} : db'[b] = db[b]
           /\ \A b \in Collections : \A d \in db'[b] : d.id \in Nat /\ d.id <= lastId'
<1>1. db'[c] = db[c] \cup D /\ \A b \in Collections \ {c} : db'[b] = db[b]
  BY DEF InsertMany, DocsInv
<1>2. \A b \in Collections : \A d \in db[b] : d.id \in Nat /\ d.id <= lastId'
  BY DEF NumberedInv
<1>3. ASSUME NEW b \in Collections, NEW d \in db'[b]
      PROVE  d.id \in Nat /\ d.id <= lastId'
  <2>1. d \in db[b] \/ d \in D
    BY <1>1
  <2> QED
    BY <1>2, <2>1
<1> QED
  BY <1>1, <1>3

LEMMA RulesAdded ==
    ASSUME DocsInv, ClosedInv, LeftKept, AddRules
    PROVE  ClosedInv'
<1> DEFINE webhooksFrom == lastId + Len(Demo) * RulesPer
           executionsFrom == webhooksFrom + Len(Demo) * EventsPer
           end == executionsFrom + Len(Demo) * ExecutionsPer
<1>0. lastId \in Nat /\ DOMAIN seed = SeedFields
  BY DEF DocsInv, ClosedInv, NumberedInv
<1>1. /\ webhooksFrom \in Nat /\ webhooksFrom >= lastId
      /\ executionsFrom \in Nat /\ executionsFrom >= webhooksFrom
      /\ end \in Nat /\ end >= executionsFrom
  <2>0. /\ RulesPer \in Nat /\ EventsPer \in Nat /\ ExecutionsPer \in Nat /\ Len(Demo) \in Nat
    BY SeedAssumption, ApiAssumption DEF EventsPer, ExecutionsPer
  <2>1. /\ Len(Demo) * RulesPer \in Nat /\ Len(Demo) * EventsPer \in Nat
        /\ Len(Demo) * ExecutionsPer \in Nat
    BY <2>0
  <2> DEFINE a == Len(Demo) * RulesPer
             b == Len(Demo) * EventsPer
             e == Len(Demo) * ExecutionsPer
  <2>2. a \in Nat /\ b \in Nat /\ e \in Nat
    BY <2>1
  <2> HIDE DEF a, b, e
  <2>3. /\ lastId + a \in Nat /\ lastId + a >= lastId
        /\ lastId + a + b \in Nat /\ lastId + a + b >= lastId + a
        /\ lastId + a + b + e \in Nat /\ lastId + a + b + e >= lastId + a + b
    BY <1>0, <2>2
  <2> QED
    BY <2>3 DEF a, b, e
<1>2. seed.pc = "addRules" /\ lastId' = end
  BY DEF AddRules
<1>3. PICK off \in Draws : InsertMany("rules", PlannedRules(lastId, off))
  BY DEF AddRules
<1>4. PICK lists \in [1..Len(Demo) -> Shuffles] :
         LET executions == PlannedExecutions(lists, executionsFrom, lastId, webhooksFrom)
         IN seed' = [seed EXCEPT !.pc = "addWebhooks", !.executions = executions,
                                 !.webhooks = PlannedWebhooks(executions, webhooksFrom)]
  BY DEF AddRules
<1> DEFINE rules == PlannedRules(lastId, off)
           executions == PlannedExecutions(lists, executionsFrom, lastId, webhooksFrom)
           webhooks == PlannedWebhooks(executions, webhooksFrom)
<1>5. seed' = [seed EXCEPT !.pc = "addWebhooks", !.executions = executions,
                           !.webhooks = webhooks]
  BY <1>4
<1>6. /\ Between(rules, lastId, Len(Demo) * RulesPer)
      /\ Between(executions, executionsFrom, Len(Demo) * ExecutionsPer)
  <2> HIDE DEF webhooksFrom, executionsFrom
  <2> QED
    BY <1>0, <1>1, PlannedBetween
<1>7. Between(webhooks, webhooksFrom, Len(Demo) * EventsPer)
  <2> HIDE DEF webhooksFrom, executionsFrom, executions
  <2> QED
    BY <1>1, PlannedBetween
<1>8. Ready(executions)
  <2> HIDE DEF webhooksFrom, executionsFrom
  <2> QED
    BY <1>1, PlannedAreReady
<1>9. ASSUME NEW x \in executions
      PROVE  /\ \E r \in rules : r.id = x.ref /\ r.tenant = x.tenant
             /\ \E w \in webhooks : w.id = x.event /\ w.tenant = x.tenant
  <2>1. x \in PlannedExecutions(lists, executionsFrom, lastId, webhooksFrom)
    BY <1>9
  <2> HIDE DEF webhooksFrom, executionsFrom, end, executions, rules, webhooks
  <2>2. lastId \in Nat /\ webhooksFrom \in Nat
    BY <1>0, <1>1
  <2>3. /\ \A o : \E r \in PlannedRules(lastId, o) : r.id = x.ref /\ r.tenant = x.tenant
        /\ \A e : \E w \in PlannedWebhooks(e, webhooksFrom) :
              w.id = x.event /\ w.tenant = x.tenant
    BY <2>1, <2>2, PlannedRefer
  <2> QED
    BY <2>3 DEF rules, webhooks
<1>10. /\ \A d \in rules : d.id \in Nat /\ d.id <= webhooksFrom
       /\ \A d \in webhooks : d.id \in Nat /\ d.id <= executionsFrom
       /\ \A d \in executions : d.id \in Nat /\ d.id <= end /\ d.id > executionsFrom
  <2> HIDE DEF rules, webhooks, executions
  <2> QED
    BY <1>6, <1>7 DEF Between
<1> HIDE DEF webhooksFrom, executionsFrom, end
<1>11. /\ \A d \in rules : d.id \in Nat /\ d.id <= lastId'
       /\ \A d \in webhooks \cup executions : d.id \in Nat /\ d.id <= lastId'
       /\ \A d \in executions : d.id > lastId
       /\ lastId' \in Nat /\ lastId' >= lastId
  <2> HIDE DEF rules, webhooks, executions
  <2> QED
    BY <1>0, <1>1, <1>2, <1>10
<1> HIDE DEF rules, webhooks, executions
<1>12. /\ seed'.pc = "addWebhooks" /\ seed'.executions = executions /\ seed'.webhooks = webhooks
       /\ seed'.replays = {}
  <2>1. seed.replays = {}
    BY <1>2 DEF ClosedInv, PlanInv
  <2> QED
    BY <1>0, <1>5, <2>1 DEF SeedFields
<1>13. /\ db'["rules"] = db["rules"] \cup rules
       /\ \A b \in Collections \ {"rules"} : db'[b] = db[b]
       /\ \A b \in Collections : \A d \in db'[b] : d.id \in Nat /\ d.id <= lastId'
  <2>1. InsertMany("rules", rules)
    BY <1>3 DEF rules
  <2> QED
    BY <1>11, <2>1, AddedAreNumbered DEF ClosedInv, Collections
<1>14. NumberedInv'
  BY <1>11, <1>12, <1>13 DEF NumberedInv
<1>15. PlanInv'
  BY <1>8, <1>12 DEF PlanInv, LeftKept, CleanupPc
<1>16. PlansRefer'
  BY <1>9, <1>12, <1>13 DEF PlansRefer
<1>17. WrittenInv'
  <2>1. \A x \in db'["executions"] : x.id \notin Numbers(executions)
    BY <1>0, <1>11, <1>13 DEF ClosedInv, NumberedInv, Numbers, Collections
  <2> QED
    BY <1>12, <2>1 DEF WrittenInv, Written, Numbers
<1> QED
  BY <1>14, <1>15, <1>16, <1>17 DEF ClosedInv

\* Documents that were planned are added; of what was written before, nothing
\* changes.
LEMMA PlannedAdded ==
    ASSUME DocsInv, ClosedInv, LeftKept, NEW c \in {"webhooks", "executions"}, NEW D, NEW pc,
           D \subseteq IF c = "webhooks" THEN seed.webhooks ELSE seed.executions,
           InsertMany(c, D), UNCHANGED lastId,
           seed' = [seed EXCEPT !.pc = pc] \/ seed' = [seed EXCEPT !.pc = pc, !.replays = {}],
           pc \in {"aborted", "addExecutions", "addReplays"},
           pc = "addExecutions" => c = "webhooks" /\ D = seed.webhooks,
           pc = "addReplays" => c = "executions" /\ D = seed.executions,
           c = "webhooks" => seed.pc = "addWebhooks",
           c = "executions" => seed.pc = "addExecutions"
    PROVE  ClosedInv'
<1>0. lastId \in Nat /\ DOMAIN seed = SeedFields /\ \A d : Same(d, d)
  BY DEF DocsInv, ClosedInv, NumberedInv, Same
<1>1. /\ seed'.pc = pc /\ seed'.webhooks = seed.webhooks /\ seed'.executions = seed.executions
      /\ seed'.replays \in {seed.replays, {}}
  BY <1>0 DEF SeedFields
<1>2. \A d \in D : d.id \in Nat /\ d.id <= lastId
  BY DEF ClosedInv, NumberedInv
<1>3. /\ db'[c] = db[c] \cup D
      /\ \A b \in Collections \ {c} : db'[b] = db[b]
      /\ \A b \in Collections : \A d \in db'[b] : d.id \in Nat /\ d.id <= lastId'
  BY <1>0, <1>2, AddedAreNumbered DEF ClosedInv, Collections
<1>4. NumberedInv'
  BY <1>0, <1>1, <1>3 DEF ClosedInv, NumberedInv
<1>5. PlanInv'
  <2>1. pc \in {"addExecutions", "addReplays"} => Ready(seed.executions)
    BY DEF ClosedInv, PlanInv
  <2> QED
    BY <1>1, <2>1 DEF PlanInv, LeftKept, CleanupPc
<1>6. PlansRefer'
  <2>1. db'["rules"] = db["rules"]
    BY <1>3 DEF Collections
  <2> QED
    BY <1>1, <2>1 DEF ClosedInv, PlansRefer, LeftKept
<1>7. WrittenInv'
  <2>1. \A d : (Has(db["webhooks"], d) => Has(db'["webhooks"], d))
               /\ (Has(db["executions"], d) => Has(db'["executions"], d))
    BY <1>3 DEF Has, Collections
  <2>2. \A x \in db'["executions"] : x.id \in Numbers(seed.executions) => Has(seed.executions, x)
    <3>1. \A x \in db'["executions"] : x \in db["executions"] \/ x \in seed.executions
      BY <1>3 DEF Collections
    <3> QED
      BY <1>0, <3>1 DEF ClosedInv, WrittenInv, Has
  <2>3. db'["replays"] = db["replays"]
    BY <1>3 DEF Collections
  <2>4. seed'.replays # {} => seed'.replays = seed.replays
    BY <1>1
  <2>5. Written("replays", seed.replays)' => Written("replays", seed.replays)
    BY <2>3, <2>4 DEF Written, Numbers
  <2>6. seed'.pc \in {"addExecutions", "addReplays", "done"} \/ Written("executions", seed.executions)'
           => \A w \in seed.webhooks : Has(db'["webhooks"], w)
    <3>1. CASE c = "webhooks"
      <4>1. CASE pc = "addExecutions"
        BY <1>0, <1>3, <4>1 DEF Has, Collections
      <4>2. CASE pc # "addExecutions"
        <5>1. db'["executions"] = db["executions"] /\ pc = "aborted"
          BY <1>3, <3>1, <4>2 DEF Collections
        <5>2. Written("executions", seed.executions)' => Written("executions", seed.executions)
          BY <1>1, <5>1 DEF Written
        <5> QED
          BY <1>1, <2>1, <5>1, <5>2 DEF ClosedInv, WrittenInv
      <4> QED
        BY <4>1, <4>2
    <3>2. CASE c = "executions"
      BY <2>1, <3>2 DEF ClosedInv, WrittenInv
    <3> QED
      BY <3>1, <3>2
  <2>7. seed'.pc \in {"addReplays", "done"} \/ Written("replays", seed.replays)'
           => \A x \in seed.executions : Has(db'["executions"], x)
    <3>1. CASE pc = "addReplays"
      BY <1>0, <1>3, <3>1 DEF Has, Collections
    <3>2. CASE pc # "addReplays"
      BY <1>1, <2>1, <2>5, <3>2 DEF ClosedInv, WrittenInv
    <3> QED
      BY <3>1, <3>2
  <2>8. \A h \in db'["replays"] : h.id \in Numbers(seed'.replays) => Has(seed'.replays, h)
    BY <2>3, <2>4 DEF ClosedInv, WrittenInv, Numbers
  <2> QED
    BY <1>1, <2>2, <2>6, <2>7, <2>8 DEF WrittenInv
<1> QED
  BY <1>4, <1>5, <1>6, <1>7 DEF ClosedInv

\* Replays are added, all of them or the first ones.
LEMMA ReplaysAdded ==
    ASSUME DocsInv, ClosedInv, LeftKept, NEW D, D \subseteq PlannedReplays(lastId),
           InsertMany("replays", D), lastId' \in Nat, lastId' >= lastId,
           \A d \in D : d.id <= lastId', NEW pc \in {"done", "aborted"},
           seed' = [seed EXCEPT !.pc = pc, !.replays = D], seed.pc = "addReplays"
    PROVE  ClosedInv'
<1>0. lastId \in Nat /\ DOMAIN seed = SeedFields /\ \A d : Same(d, d)
  BY DEF DocsInv, ClosedInv, NumberedInv, Same
<1>1. /\ seed'.pc = pc /\ seed'.webhooks = seed.webhooks /\ seed'.executions = seed.executions
      /\ seed'.replays = D
  BY <1>0 DEF SeedFields
<1>2. \A d \in D : d.id \in Nat /\ d.id > lastId /\ d.id <= lastId'
  BY <1>0, PlannedBetween DEF Between
<1>3. /\ db'["replays"] = db["replays"] \cup D
      /\ \A b \in Collections \ {"replays"} : db'[b] = db[b]
      /\ \A b \in Collections : \A d \in db'[b] : d.id \in Nat /\ d.id <= lastId'
  BY <1>0, <1>2, AddedAreNumbered DEF ClosedInv, Collections
<1>4. NumberedInv'
  <2>1. \A d \in seed.webhooks \cup seed.executions : d.id \in Nat /\ d.id <= lastId'
    BY <1>0 DEF ClosedInv, NumberedInv
  <2> QED
    BY <1>1, <1>2, <1>3, <2>1 DEF NumberedInv
<1>5. PlanInv'
  BY <1>1 DEF PlanInv, LeftKept, CleanupPc
<1>6. PlansRefer'
  <2>1. db'["rules"] = db["rules"]
    BY <1>3 DEF Collections
  <2>2. \A h \in D : \E x \in seed.executions :
           x.id = h.ref /\ x.event = h.event /\ x.tenant = h.tenant
    <3>1. Ready(seed.executions) /\ \A x \in seed.executions : x.id \in Nat
      BY DEF ClosedInv, PlanInv, NumberedInv
    <3> QED
      BY <3>1, ReplaysRefer
  <2> QED
    BY <1>1, <2>1, <2>2 DEF ClosedInv, PlansRefer, LeftKept
<1>7. WrittenInv'
  <2>1. UNCHANGED <<db["webhooks"], db["executions"]>>
    BY <1>3 DEF Collections
  <2>2. \A h \in db'["replays"] : h.id \in Numbers(D) => Has(D, h)
    <3> SUFFICES ASSUME NEW h \in db'["replays"], h.id \in Numbers(D) PROVE Has(D, h)
      OBVIOUS
    <3>1. h \notin db["replays"]
      BY <1>0, <1>2 DEF Numbers, ClosedInv, NumberedInv, Collections
    <3> QED
      BY <1>0, <1>3, <3>1 DEF Has
  <2>3. /\ \A w \in seed.webhooks : Has(db["webhooks"], w)
        /\ \A x \in seed.executions : Has(db["executions"], x)
        /\ \A x \in db["executions"] :
              x.id \in Numbers(seed.executions) => Has(seed.executions, x)
    BY DEF ClosedInv, WrittenInv
  <2> QED
    BY <1>1, <2>1, <2>2, <2>3 DEF WrittenInv
<1> QED
  BY <1>4, <1>5, <1>6, <1>7 DEF ClosedInv

\* Of the documents at D, those at W were inserted when the call rejected.
Stopped(c, pc, D, W) ==
    /\ InsertMany(c, W) /\ seed.pc = pc /\ lastId' \in Nat /\ lastId' >= lastId
    /\ \A d \in W : d.id <= lastId'
    /\ lastId' = lastId \/ \E d \in D : lastId' = d.id /\ d.id > lastId
    /\ seed' = [seed EXCEPT !.pc = "aborted", !.replays = IF c = "replays" THEN W ELSE {}]

\* A step of the script leaves of the stored documents those that are not
\* cleaned up, and what is planned as it is.
LEMMA SeedKeepsClosed ==
    ASSUME DocsInv, ClosedInv, LeftKept, SeedNext
    PROVE  ClosedInv'
<1>0. /\ lastId \in Nat /\ DOMAIN seed = SeedFields /\ DOMAIN db = Collections
      /\ \A c \in Collections : \A d \in db[c] : d.id \in Nat /\ d.id <= lastId
      /\ \A d \in seed.webhooks \cup seed.executions \cup seed.replays :
            d.id \in Nat /\ d.id <= lastId
  BY DEF DocsInv, ClosedInv, NumberedInv
\* Before anything is planned.
<1>1. ASSUME seed.webhooks = {}, seed.executions = {}, seed.replays = {},
             seed'.pc \notin {"addWebhooks", "addExecutions", "addReplays"},
             seed'.webhooks = {}, seed'.executions = {}, seed'.replays = {}, UNCHANGED lastId,
             \A c \in Collections : db'[c] \subseteq db[c]
      PROVE  ClosedInv'
  BY <1>0, <1>1, NothingPlanned
<1>2. seed.pc \in CleanupPc \cup {"idle", "create", "addRules"} =>
         seed.webhooks = {} /\ seed.executions = {} /\ seed.replays = {}
  BY DEF ClosedInv, PlanInv
<1>3. CASE StartSeed
  <2>1. /\ seed'.pc = "tenants" /\ seed'.webhooks = {} /\ seed'.executions = {}
        /\ seed'.replays = {} /\ UNCHANGED <<db, lastId>>
    BY <1>3 DEF StartSeed
  <2> QED
    BY <1>0, <2>1, NothingPlanned
<1>4. CASE SeedFault
  <2>1. /\ seed'.pc = "aborted" /\ seed'.webhooks = seed.webhooks
        /\ seed'.executions = seed.executions /\ seed'.replays = seed.replays
        /\ UNCHANGED <<db, lastId>>
    BY <1>0, <1>4 DEF SeedFault, SeedFields
  <2>2. NumberedInv' /\ PlanInv'
    BY <2>1 DEF ClosedInv, NumberedInv, PlanInv, LeftKept, CleanupPc
  <2>3. PlansRefer' /\ WrittenInv'
    BY <2>1 DEF ClosedInv, PlansRefer, WrittenInv, Written, LeftKept
  <2> QED
    BY <2>2, <2>3 DEF ClosedInv
<1>5. CASE DeleteTenants
  <2>1. /\ seed.pc = "tenants" /\ seed'.pc = "rules" /\ UNCHANGED <<db, lastId>>
        /\ seed'.webhooks = seed.webhooks /\ seed'.executions = seed.executions
        /\ seed'.replays = seed.replays
    BY <1>0, <1>5 DEF DeleteTenants, SeedFields
  <2> QED
    BY <1>1, <1>2, <2>1 DEF CleanupPc
<1>6. ASSUME NEW c \in DOMAIN Cleanup, DeleteDocuments(c)
      PROVE  ClosedInv'
  <2>1. /\ c \in {"rules", "webhooks", "executions", "replays"} /\ seed.pc = c
        /\ seed'.pc = Cleanup[c] /\ UNCHANGED lastId
        /\ seed'.webhooks = seed.webhooks /\ seed'.executions = seed.executions
        /\ seed'.replays = seed.replays
    BY <1>0, <1>6 DEF DeleteDocuments, Cleanup, SeedFields
  <2>2. \A b \in Collections : db'[b] \subseteq db[b]
    BY <1>0, <1>6, <2>1 DEF DeleteDocuments, Collections
  <2>3. seed'.pc \in {"webhooks", "executions", "replays", "create"}
    BY <2>1 DEF Cleanup
  <2> QED
    BY <1>1, <1>2, <2>1, <2>2, <2>3 DEF CleanupPc
<1>7. CASE CreateTenant
  <2>1. /\ seed.pc = "create" /\ UNCHANGED <<db, lastId>>
        /\ seed'.pc \in {"create", "addRules", "aborted"} /\ seed'.replays = seed.replays
        /\ seed'.webhooks = seed.webhooks /\ seed'.executions = seed.executions
    <3>1. \/ seed' = [seed EXCEPT !.at = @ + 1,
                                  !.pc = IF seed.at = Len(Demo) THEN "addRules" ELSE @]
          \/ seed' = [seed EXCEPT !.pc = "aborted"]
      BY <1>7, Zenon DEF CreateTenant
    <3>2. seed.pc = "create" /\ UNCHANGED <<db, lastId>>
      BY <1>7 DEF CreateTenant
    <3> QED
      BY <1>0, <3>1, <3>2 DEF SeedFields
  <2> QED
    BY <1>1, <1>2, <2>1
<1>8. CASE AddRules
  BY <1>8, RulesAdded
<1>9. CASE AddWebhooks
  <2>1. /\ InsertMany("webhooks", seed.webhooks) /\ UNCHANGED lastId
        /\ seed' = [seed EXCEPT !.pc = "addExecutions"] /\ seed.pc = "addWebhooks"
    BY <1>9 DEF AddWebhooks
  <2> QED
    BY <2>1, PlannedAdded
<1>10. CASE AddExecutions
  <2>1. /\ InsertMany("executions", seed.executions) /\ UNCHANGED lastId
        /\ seed' = [seed EXCEPT !.pc = "addReplays"] /\ seed.pc = "addExecutions"
    BY <1>10 DEF AddExecutions
  <2> QED
    BY <2>1, PlannedAdded
<1>11. CASE AddReplays
  <2>1. /\ InsertMany("replays", PlannedReplays(lastId)) /\ seed.pc = "addReplays"
        /\ seed' = [seed EXCEPT !.pc = "done", !.replays = PlannedReplays(lastId)]
        /\ lastId' = lastId + Len(Demo) * ReplaysPer
    BY <1>11 DEF AddReplays
  <2>2. Len(Demo) * ReplaysPer \in Nat
    <3>1. Len(Demo) \in Nat /\ ReplaysPer \in Nat
      BY SeedAssumption, ApiAssumption
    <3> QED
      BY <3>1
  <2>3. lastId' \in Nat /\ lastId' >= lastId
    BY <1>0, <2>1, <2>2
  <2>4. \A d \in PlannedReplays(lastId) : d.id <= lastId'
    BY <1>0, <2>1, PlannedBetween DEF Between
  <2> QED
    BY <2>1, <2>3, <2>4, ReplaysAdded
<1>12. ASSUME NEW c, NEW pc, NEW D, InsertFault(c, pc, D), \A d \in D : d.id \in Nat
       PROVE  \E W \in SUBSET D : Stopped(c, pc, D, W)
  <2>1. seed.pc = pc
    BY <1>12 DEF InsertFault
  <2>2. PICK d \in D :
           LET written == {e \in D : e.id <= d.id}
           IN /\ InsertMany(c, written)
              /\ lastId' = IF d.id > lastId THEN d.id ELSE lastId
              /\ seed' = [seed EXCEPT !.pc = "aborted",
                                      !.replays = IF c = "replays" THEN written ELSE {}]
    BY <1>12 DEF InsertFault
  <2> DEFINE W == {e \in D : e.id <= d.id}
  <2>3. W \in SUBSET D /\ \A e \in W : e.id \in Nat /\ e.id <= d.id
    BY <1>12
  <2>4. /\ InsertMany(c, W) /\ lastId' = IF d.id > lastId THEN d.id ELSE lastId
        /\ seed' = [seed EXCEPT !.pc = "aborted", !.replays = IF c = "replays" THEN W ELSE {}]
    BY <2>2
  <2> HIDE DEF W
  <2>5. d.id \in Nat
    BY <1>12
  <2>6. /\ lastId' \in Nat /\ lastId' >= lastId /\ lastId' >= d.id
        /\ lastId' = lastId \/ (lastId' = d.id /\ d.id > lastId)
    BY <1>0, <2>4, <2>5
  <2>7. \A e \in W : e.id <= lastId'
    BY <2>3, <2>5, <2>6
  <2> QED
    BY <2>1, <2>3, <2>4, <2>6, <2>7 DEF Stopped
<1>13. CASE \E off \in Draws : InsertFault("rules", "addRules", PlannedRules(lastId, off))
  <2>1. PICK off \in Draws : InsertFault("rules", "addRules", PlannedRules(lastId, off))
    BY <1>13
  <2>2. \A d \in PlannedRules(lastId, off) : d.id \in Nat
    BY <1>0, PlannedIds DEF NewerThan
  <2>3. PICK W \in SUBSET PlannedRules(lastId, off) :
           /\ InsertMany("rules", W) /\ seed.pc = "addRules" /\ lastId' \in Nat
           /\ lastId' >= lastId /\ \A d \in W : d.id <= lastId'
           /\ seed' = [seed EXCEPT !.pc = "aborted", !.replays = {}]
    <3>1. PICK W \in SUBSET PlannedRules(lastId, off) :
             Stopped("rules", "addRules", PlannedRules(lastId, off), W)
      BY <1>12, <2>1, <2>2
    <3> QED
      BY <3>1 DEF Stopped
  <2>4. /\ seed'.pc = "aborted" /\ seed'.webhooks = {} /\ seed'.executions = {}
        /\ seed'.replays = {}
    BY <1>0, <1>2, <2>3 DEF SeedFields
  <2>5. \A b \in Collections : \A d \in db'[b] : d.id \in Nat /\ d.id <= lastId'
    BY <2>2, <2>3, AddedAreNumbered DEF ClosedInv, Collections
  <2> QED
    BY <2>3, <2>4, <2>5, NothingPlanned
<1>14. ASSUME NEW c \in {"webhooks", "executions"}, NEW pc, NEW D,
              pc = IF c = "webhooks" THEN "addWebhooks" ELSE "addExecutions",
              D = IF c = "webhooks" THEN seed.webhooks ELSE seed.executions,
              InsertFault(c, pc, D)
       PROVE  ClosedInv'
  <2>1. \A d \in D : d.id \in Nat /\ d.id <= lastId
    BY <1>0, <1>14
  <2>2. PICK W \in SUBSET D :
           /\ InsertMany(c, W) /\ seed.pc = pc
           /\ lastId' = lastId \/ \E d \in D : lastId' = d.id /\ d.id > lastId
           /\ seed' = [seed EXCEPT !.pc = "aborted", !.replays = {}]
    <3>1. PICK W \in SUBSET D : Stopped(c, pc, D, W)
      BY <1>12, <1>14, <2>1
    <3> QED
      BY <1>14, <3>1 DEF Stopped
  <2>3. UNCHANGED lastId
    BY <1>0, <2>1, <2>2
  <2>4. W \subseteq IF c = "webhooks" THEN seed.webhooks ELSE seed.executions
    BY <1>14, <2>2
  <2> QED
    BY <1>14, <2>2, <2>3, <2>4, PlannedAdded
<1>15. CASE InsertFault("webhooks", "addWebhooks", seed.webhooks)
  BY <1>14, <1>15
<1>16. CASE InsertFault("executions", "addExecutions", seed.executions)
  BY <1>14, <1>16
<1>17. CASE InsertFault("replays", "addReplays", PlannedReplays(lastId))
  <2>1. \A d \in PlannedReplays(lastId) : d.id \in Nat
    BY <1>0, PlannedIds DEF NewerThan
  <2>2. PICK W \in SUBSET PlannedReplays(lastId) :
           /\ InsertMany("replays", W) /\ seed.pc = "addReplays" /\ lastId' \in Nat
           /\ lastId' >= lastId /\ \A d \in W : d.id <= lastId'
           /\ seed' = [seed EXCEPT !.pc = "aborted", !.replays = W]
    <3>1. PICK W \in SUBSET PlannedReplays(lastId) :
             Stopped("replays", "addReplays", PlannedReplays(lastId), W)
      BY <1>12, <1>17, <2>1
    <3> QED
      BY <3>1 DEF Stopped
  <2> QED
    BY <2>2, ReplaysAdded
<1> QED
  BY <1>3, <1>4, <1>5, <1>6, <1>7, <1>8, <1>9, <1>10, <1>11, <1>13, <1>15, <1>16, <1>17
     DEF SeedNext, SeedStep

LEMMA ClosedHolds == Spec => []ClosedInv
<1>1. Init => ClosedInv
  <2> SUFFICES ASSUME Init PROVE ClosedInv
    OBVIOUS
  <2>1. /\ lastId = Cardinality(Ids(Stock)) /\ db = Stock /\ seed.pc = "idle"
        /\ seed.webhooks = {} /\ seed.executions = {} /\ seed.replays = {}
        /\ scene \in Scenarios /\ left = scene.left
    BY DEF Init, ApiInit, SeedInit
  <2>2. lastId \in Nat
    BY <2>1, StockIsFinite, FS_CardinalityType
  <2>3. \A c \in Collections : \A d \in db[c] : d.id \in Ids(Stock)
    BY <2>1 DEF Ids
  <2>4. \A n \in Ids(Stock) : n \in Nat /\ n <= lastId
    BY <2>1, <2>2, ApiAssumption
  <2>5. NumberedInv
    BY <2>1, <2>2, <2>3, <2>4 DEF NumberedInv
  <2>6. PlanInv
    <3>1. left \in [Happenings -> Nat]
      BY <2>1, ApiAssumption DEF Scenario
    <3> QED
      BY <2>1, <3>1 DEF PlanInv
  <2>7. PlansRefer /\ WrittenInv
    BY <2>1 DEF PlansRefer, WrittenInv, Written, Numbers
  <2> QED
    BY <2>5, <2>6, <2>7 DEF ClosedInv
<1>2. DocsInv /\ ClearedInv /\ ClosedInv /\ [Next]_vars => ClosedInv'
  <2> SUFFICES ASSUME DocsInv, ClearedInv, ClosedInv, [Next]_vars PROVE ClosedInv'
    OBVIOUS
  <2>1. LeftKept
    BY NextHappens, HappenKeeps DEF ClosedInv
  <2>2. CASE Use \/ Others
    <3>1. UNCHANGED seed /\ Grows
      BY <2>2, UseGrows, OthersGrow DEF Use, Others, seedVars
    <3> QED
      BY <2>1, <3>1, GrowthKeepsClosed
  <2>3. CASE Reseed
    BY <2>1, <2>3, SeedKeepsClosed DEF Reseed
  <2>4. CASE UNCHANGED vars
    <3>1. UNCHANGED <<seed, db, lastId>>
      BY <2>4 DEF vars, apiVars, seedVars
    <3>2. NumberedInv' /\ PlanInv'
      BY <2>1, <3>1 DEF ClosedInv, NumberedInv, PlanInv, LeftKept
    <3>3. PlansRefer' /\ WrittenInv'
      BY <2>1, <3>1 DEF ClosedInv, PlansRefer, WrittenInv, Written, LeftKept
    <3> QED
      BY <3>2, <3>3 DEF ClosedInv
  <2> QED
    BY <2>2, <2>3, <2>4 DEF Next
<1> QED
  BY <1>1, <1>2, DocumentsMade, ClearedHolds, PTL DEF Spec

\* However far a run of the script came, and whatever the engine, the console
\* and the server did meanwhile, an execution it wrote has its rule and its
\* webhook, of its tenant, and a replay the execution it is of; but for rules
\* that a user removes.
THEOREM SeedRefersToItself == Spec => []SeedClosed
<1>1. ClosedInv => SeedClosed
  <2> SUFFICES ASSUME ClosedInv, scene.left["ruleRemoval"] = 0
               PROVE  /\ \A x \in db["executions"] : x.id \in Numbers(seed.executions) =>
                            /\ \E r \in db["rules"] : r.id = x.ref /\ r.tenant = x.tenant
                            /\ \E w \in db["webhooks"] : w.id = x.event /\ w.tenant = x.tenant
                      /\ \A h \in db["replays"] : h.id \in Numbers(seed.replays) =>
                            \E x \in db["executions"] :
                               x.id = h.ref /\ x.event = h.event /\ x.tenant = h.tenant
    BY DEF SeedClosed, Numbers
  <2>1. ASSUME NEW x \in db["executions"], x.id \in Numbers(seed.executions)
        PROVE  /\ \E r \in db["rules"] : r.id = x.ref /\ r.tenant = x.tenant
               /\ \E w \in db["webhooks"] : w.id = x.event /\ w.tenant = x.tenant
    <3>1. PICK y \in seed.executions : Same(x, y)
      BY <2>1 DEF ClosedInv, WrittenInv, Has
    <3>2. Written("executions", seed.executions)
      BY <2>1 DEF Written, Numbers
    <3>3. PICK w \in seed.webhooks : w.id = y.event /\ w.tenant = y.tenant
      BY DEF ClosedInv, PlansRefer
    <3>4. PICK v \in db["webhooks"] : Same(w, v)
      BY <3>2 DEF ClosedInv, WrittenInv, Has
    <3>5. \E r \in db["rules"] : r.id = y.ref /\ r.tenant = y.tenant
      BY DEF ClosedInv, PlansRefer
    <3> QED
      BY <3>1, <3>3, <3>4, <3>5 DEF Same
  <2>2. ASSUME NEW h \in db["replays"], h.id \in Numbers(seed.replays)
        PROVE  \E x \in db["executions"] :
                  x.id = h.ref /\ x.event = h.event /\ x.tenant = h.tenant
    <3>1. PICK g \in seed.replays : Same(h, g)
      BY <2>2 DEF ClosedInv, WrittenInv, Has
    <3>2. Written("replays", seed.replays)
      BY <2>2 DEF Written, Numbers
    <3>3. PICK y \in seed.executions : y.id = g.ref /\ y.event = g.event /\ y.tenant = g.tenant
      BY DEF ClosedInv, PlansRefer
    <3>4. PICK x \in db["executions"] : Same(y, x)
      BY <3>2 DEF ClosedInv, WrittenInv, Has
    <3> QED
      BY <3>1, <3>3, <3>4 DEF Same
  <2> QED
    BY <2>1, <2>2
<1> QED
  BY <1>1, ClosedHolds, PTL

-----------------------------------------------------------------------------
(* The rules a tab has been told of *)

\* What is shown of an entry of the rules' list, and what its fetch brings, is
\* as new as the rules at I, or will not be left as it is: an answer on its way
\* was read after them, an entry marked invalid is fetched before it is shown.
Listed(e, shown, I) ==
    /\ e.loaded /\ ~e.invalid => \A id \in I : e.asOf >= id
    /\ e.fetch.phase = "reading" => e.fetch.at = 0
    /\ e.fetch.phase = "read" => \A id \in I : e.fetch.asOf >= id
    /\ shown /\ e.loaded /\ e.invalid => Busy(e) \/ e.error

\* The rules of R that the entry at k has to list.
Due(R, k) == {r.id : r \in {d \in R : k \notin d.spared}}

AllListed(c, K, R) ==
    /\ K \subseteq DOMAIN c
    /\ \A k \in DOMAIN c :
          IsEntry(c[k]) /\ (k[1] = "rules" => Listed(c[k], k \in K, Due(R, k)))

ScreenInv == DOMAIN ui = UiFields /\ AllListed(cache, OnScreen, own)

\* The rules made from drafts are among the documents numbered so far.
NumbersInv ==
    /\ \A r \in db["rules"] : r.ref # 0 => r.id \in Nat /\ r.id <= lastId
    /\ \A r \in own : r.id \in Nat /\ r.id <= lastId

LEMMA EntryKept ==
    ASSUME NEW e, IsEntry(e), NEW t
    PROVE  /\ IsEntry(NoData) /\ IsEntry(Fetching(NoData, t))
           /\ IsEntry(Fetching(e, t)) /\ IsEntry(Polled(e, t)) /\ IsEntry(Refetched(e, t))
           /\ IsEntry([e EXCEPT !.invalid = TRUE])
           /\ IsEntry(Loaded(e))
           /\ \A onScreen : IsEntry(Failed(e, onScreen, t))
<1>1. /\ IsEntry(NoData) /\ IsEntry(Fetching(NoData, t)) /\ IsEntry(Fetching(e, t))
  BY DEF IsEntry, IsFetch, NoData, Idle, Fetching, Sent
<1>2. IsEntry(Polled(e, t)) /\ IsEntry(Refetched(e, t))
  BY <1>1 DEF Polled, Refetched
<1>3. IsEntry([e EXCEPT !.invalid = TRUE])
  BY DEF IsEntry
<1>4. IsEntry(Loaded(e))
  BY DEF IsEntry, IsFetch, NoData, Idle, Loaded
<1>5. \A onScreen : IsEntry(Failed(e, onScreen, t))
  BY DEF IsEntry, IsFetch, Idle, Failed, Sent
<1> QED
  BY <1>1, <1>2, <1>3, <1>4, <1>5

\* What is done to an entry.  An entry that is fetched is listed anew.
LEMMA EntryListed ==
    ASSUME NEW e, IsEntry(e), NEW shown, NEW I, Listed(e, shown, I), NEW t
    PROVE  /\ Listed(e, FALSE, I)
           /\ ~e.invalid \/ ~e.loaded => Listed(e, TRUE, I)
           /\ \A s : Listed(Fetching(NoData, t), s, I)
           /\ \A s : Listed(Fetching(e, t), s, I)
           /\ \A s : Listed(Polled(e, t), s, I) /\ Listed(Refetched(e, t), s, I)
           /\ Listed([e EXCEPT !.invalid = TRUE], FALSE, I)
           /\ e.fetch.phase = "read" => \A s : Listed(Loaded(e), s, I)
           /\ \A s, onScreen : Listed(Failed(e, onScreen, t), s, I)
<1>1. Listed(e, FALSE, I) /\ (~e.invalid \/ ~e.loaded => Listed(e, TRUE, I))
  BY DEF Listed
<1>2. \A s : Listed(Fetching(NoData, t), s, I)
  BY DEF Listed, Fetching, NoData, Idle, Sent, Busy
<1>3. \A s : Listed(Fetching(e, t), s, I)
  BY DEF Listed, Fetching, Idle, Sent, Busy, IsEntry
<1>4. \A s : Busy(e) => Listed(e, s, I)
  BY DEF Listed
<1>5. \A s : Listed(Polled(e, t), s, I) /\ Listed(Refetched(e, t), s, I)
  BY <1>3, <1>4 DEF Polled, Refetched
<1>6. Listed([e EXCEPT !.invalid = TRUE], FALSE, I)
  BY DEF Listed, IsEntry
<1>7. e.fetch.phase = "read" => \A s : Listed(Loaded(e), s, I)
  BY DEF Listed, Loaded, NoData, Idle
<1>8. \A s, onScreen : Listed(Failed(e, onScreen, t), s, I)
  BY DEF Listed, Failed, Idle, Sent, Busy, IsEntry
<1> QED
  BY <1>1, <1>2, <1>3, <1>5, <1>6, <1>7, <1>8

\* What is done to the cache.
LEMMA CacheListed ==
    ASSUME NEW c, NEW K, NEW R, AllListed(c, K, R), NEW L, NEW old, NEW t, NEW query
    PROVE  /\ AllListed(Observed(c, L, old, t), L, R)
           /\ AllListed(Observed(NoEntries, L, old, t), L, R)
           /\ AllListed(Reset(c, L, t), L, R)
           /\ AllListed(Invalidated(c, K, query, t), K, R)
           /\ L \subseteq K => AllListed(c, L, R)
<1>0. IsEntry(Fetching(NoData, t)) /\ \A s, I : Listed(Fetching(NoData, t), s, I)
  <2>1. IsEntry(NoData) /\ \A I : Listed(NoData, FALSE, I)
    BY DEF IsEntry, IsFetch, NoData, Idle, Listed
  <2> QED
    BY <2>1, EntryKept, EntryListed
<1>1. ASSUME NEW k \in DOMAIN c
      PROVE  /\ IsEntry(c[k]) /\ IsEntry(Polled(c[k], t))
             /\ IsEntry([c[k] EXCEPT !.invalid = TRUE])
             /\ IsEntry(Polled([c[k] EXCEPT !.invalid = TRUE], t))
             /\ IsEntry(Refetched([c[k] EXCEPT !.invalid = TRUE], t))
  <2>1. IsEntry(c[k])
    BY DEF AllListed
  <2>2. IsEntry([c[k] EXCEPT !.invalid = TRUE])
    BY <2>1, EntryKept
  <2> QED
    BY <2>1, <2>2, EntryKept
<1>2. ASSUME NEW k \in DOMAIN c, k[1] = "rules"
      PROVE  /\ Listed(c[k], k \in K, Due(R, k))
             /\ Listed(c[k], FALSE, Due(R, k))
             /\ ~c[k].invalid \/ ~c[k].loaded => Listed(c[k], TRUE, Due(R, k))
             /\ \A s : Listed(Polled(c[k], t), s, Due(R, k))
             /\ Listed([c[k] EXCEPT !.invalid = TRUE], FALSE, Due(R, k))
             /\ \A s : Listed(Refetched([c[k] EXCEPT !.invalid = TRUE], t), s, Due(R, k))
  <2>1. Listed(c[k], k \in K, Due(R, k))
    BY <1>2 DEF AllListed
  <2>2. Listed([c[k] EXCEPT !.invalid = TRUE], FALSE, Due(R, k))
    BY <1>1, <2>1, EntryListed
  <2> QED
    BY <1>1, <2>1, <2>2, EntryListed
<1>3. AllListed(Observed(c, L, old, t), L, R)
  <2>1. ASSUME NEW k \in DOMAIN c \cup L
        PROVE  IsEntry(Observed(c, L, old, t)[k])
    BY <1>0, <1>1 DEF Observed
  <2>2. ASSUME NEW k \in DOMAIN c \cup L, k[1] = "rules"
        PROVE  Listed(Observed(c, L, old, t)[k], k \in L, Due(R, k))
    <3>1. CASE k \notin DOMAIN c
      BY <1>0, <3>1 DEF Observed
    <3>2. CASE k \in DOMAIN c /\ k \in L
      <4>1. CASE ~c[k].loaded \/ c[k].invalid \/ k \in old
        BY <1>2, <2>2, <3>2, <4>1 DEF Observed
      <4>2. CASE ~(~c[k].loaded \/ c[k].invalid \/ k \in old)
        <5>1. Observed(c, L, old, t)[k] = c[k]
          BY <3>2, <4>2 DEF Observed
        <5>2. Listed(c[k], TRUE, Due(R, k))
          BY <1>2, <2>2, <3>2, <4>2
        <5> QED
          BY <3>2, <5>1, <5>2
      <4> QED
        BY <4>1, <4>2
    <3>3. CASE k \in DOMAIN c /\ k \notin L
      <4>1. Observed(c, L, old, t)[k] = c[k]
        BY <3>3 DEF Observed
      <4> QED
        BY <1>2, <2>2, <3>3, <4>1 DEF Listed
    <3> QED
      BY <3>1, <3>2, <3>3
  <2>3. DOMAIN Observed(c, L, old, t) = DOMAIN c \cup L
    BY DEF Observed
  <2> QED
    BY <2>1, <2>2, <2>3 DEF AllListed
<1>4. AllListed(Observed(NoEntries, L, old, t), L, R)
  BY <1>0 DEF AllListed, Observed, NoEntries
<1>5. AllListed(Reset(c, L, t), L, R)
  BY <1>0 DEF AllListed, Reset
<1>6. AllListed(Invalidated(c, K, query, t), K, R)
  <2>1. ASSUME NEW k \in DOMAIN c
        PROVE  IsEntry(Invalidated(c, K, query, t)[k])
    BY <1>1 DEF Invalidated
  <2>2. ASSUME NEW k \in DOMAIN c, k[1] = "rules"
        PROVE  Listed(Invalidated(c, K, query, t)[k], k \in K, Due(R, k))
    <3>1. CASE k[1] # query
      BY <1>2, <2>2, <3>1 DEF Invalidated
    <3>2. CASE k[1] = query /\ k \in K
      BY <1>2, <2>2, <3>2 DEF Invalidated
    <3>3. CASE k[1] = query /\ k \notin K
      <4>1. Invalidated(c, K, query, t)[k] = [c[k] EXCEPT !.invalid = TRUE]
        BY <3>3 DEF Invalidated
      <4> QED
        BY <1>2, <2>2, <3>3, <4>1 DEF Listed
    <3> QED
      BY <3>1, <3>2, <3>3
  <2>3. DOMAIN Invalidated(c, K, query, t) = DOMAIN c
    BY DEF Invalidated
  <2> QED
    BY <2>1, <2>2, <2>3 DEF AllListed
<1>7. ASSUME L \subseteq K
      PROVE  AllListed(c, L, R)
  <2>1. ASSUME NEW k \in DOMAIN c, k[1] = "rules"
        PROVE  Listed(c[k], k \in L, Due(R, k))
    <3>1. CASE k \in L
      <4>1. k \in K /\ Listed(c[k], k \in K, Due(R, k))
        BY <1>2, <1>7, <2>1, <3>1
      <4> QED
        BY <3>1, <4>1 DEF Listed
    <3>2. CASE k \notin L
      BY <1>2, <2>1, <3>2 DEF Listed
    <3> QED
      BY <3>1, <3>2
  <2> QED
    BY <1>7, <2>1 DEF AllListed
<1> QED
  BY <1>3, <1>4, <1>5, <1>6, <1>7

\* Which entries are on screen does not depend on the tenant, nor on a replay.
LEMMA KeysStay ==
    ASSUME NEW u, DOMAIN u = UiFields, NEW x
    PROVE  /\ KeysOf([u EXCEPT !.tenant = x]) = KeysOf(u)
           /\ KeysOf([u EXCEPT !.replaying = x]) = KeysOf(u)
           /\ KeysOf([u EXCEPT !.blank = @ \/ x]) \subseteq KeysOf(u)
<1>1. ASSUME NEW v, v.view = u.view, v.page = u.page, v.filter = u.filter, v.blank = u.blank
      PROVE  KeysOf(v) = KeysOf(u)
  BY <1>1 DEF KeysOf, WebhooksKey, RulesKey, ExecutionsKey, ReplaysKey
<1>2. ASSUME NEW v, v.view = u.view, v.page = u.page, v.filter = u.filter,
             v.blank = (u.blank \/ x)
      PROVE  KeysOf(v) \subseteq KeysOf(u)
  <2>1. CASE v.blank
    BY <2>1 DEF KeysOf
  <2>2. CASE ~v.blank
    <3>1. ~u.blank
      BY <1>2, <2>2
    <3> QED
      BY <1>2, <2>2, <3>1 DEF KeysOf, WebhooksKey, RulesKey, ExecutionsKey, ReplaysKey
  <2> QED
    BY <2>1, <2>2
<1>3. /\ KeysOf([u EXCEPT !.tenant = x]) = KeysOf(u)
      /\ KeysOf([u EXCEPT !.replaying = x]) = KeysOf(u)
  BY <1>1 DEF UiFields
<1>4. KeysOf([u EXCEPT !.blank = @ \/ x]) \subseteq KeysOf(u)
  BY <1>2 DEF UiFields
<1> QED
  BY <1>3, <1>4

LEMMA PresentListed ==
    ASSUME NEW u, NEW c, Present(u, c), DOMAIN u = UiFields, AllListed(c, KeysOf(u), own')
    PROVE  ScreenInv'
<1>1. PICK x : ui' = [u EXCEPT !.blank = @ \/ x]
  BY DEF Present
<1>2. DOMAIN ui' = UiFields /\ KeysOf(ui') \subseteq KeysOf(u)
  BY <1>1, KeysStay DEF UiFields
<1>3. AllListed(c, KeysOf(ui'), own')
  BY <1>2, CacheListed
<1> QED
  BY <1>2, <1>3 DEF ScreenInv, OnScreen, Present

LEMMA UserKeepsScreen ==
    ASSUME ScreenInv, UserStep
    PROVE  ScreenInv'
<1>1. ASSUME NEW view, NEW old, Navigate(view, old)
      PROVE  ScreenInv'
  <2> DEFINE u == Fresh(ui.tenant, view)
  <2>1. Present(u, Observed(cache, KeysOf(u), old, stored)) /\ UNCHANGED own
    BY <1>1 DEF Navigate
  <2>2. DOMAIN u = UiFields
    BY DEF Fresh, UiFields
  <2> HIDE DEF u
  <2> QED
    BY <2>1, <2>2, PresentListed, CacheListed DEF ScreenInv
<1>2. ASSUME NEW t, SwitchTenant(t)
      PROVE  ScreenInv'
  <2> DEFINE u == [ui EXCEPT !.tenant = t]
  <2>1. Present(u, Reset(cache, KeysOf(ui), t)) /\ UNCHANGED own
    BY <1>2 DEF SwitchTenant
  <2>2. DOMAIN u = UiFields /\ KeysOf(u) = KeysOf(ui)
    BY KeysStay DEF ScreenInv
  <2> HIDE DEF u
  <2> QED
    BY <2>1, <2>2, PresentListed, CacheListed DEF ScreenInv
<1>3. ASSUME NEW page, NEW filter, NEW old, TurnTo(page, filter, old)
      PROVE  ScreenInv'
  <2> DEFINE u == [ui EXCEPT !.page = page, !.filter = filter]
  <2>1. Present(u, Observed(cache, KeysOf(u), old, stored)) /\ UNCHANGED own
    BY <1>3 DEF TurnTo
  <2>2. DOMAIN u = UiFields
    BY DEF ScreenInv, UiFields
  <2> HIDE DEF u
  <2> QED
    BY <2>1, <2>2, PresentListed, CacheListed DEF ScreenInv
<1>4. ASSUME NEW k, Refresh(k)
      PROVE  ScreenInv'
  <2> DEFINE c == [cache EXCEPT ![k] = Refetched(@, stored)]
  <2>1. Present(ui, c) /\ UNCHANGED own /\ k \in OnScreen /\ k[1] # "rules"
    BY <1>4 DEF Refresh
  <2>2. AllListed(c, OnScreen, own)
    BY <2>1, EntryKept DEF ScreenInv, AllListed
  <2> HIDE DEF c
  <2> QED
    BY <2>1, <2>2, PresentListed DEF ScreenInv, OnScreen
<1>5. CASE Reload
  <2> DEFINE u == Fresh(stored, ui.view)
  <2>1. Present(u, Observed(NoEntries, KeysOf(u), {}, stored)) /\ UNCHANGED own
    BY <1>5 DEF Reload
  <2>2. DOMAIN u = UiFields
    BY DEF Fresh, UiFields
  <2> HIDE DEF u
  <2> QED
    BY <2>1, <2>2, PresentListed, CacheListed DEF ScreenInv
<1>6. CASE \/ OpenForm \/ FillForm \/ AddAct \/ CancelForm \/ Submit
           \/ \E i \in 1..Len(form.orders) : RemoveAct(i)
           \/ \E t \in Tenants : OtherTab(t)
  <2>1. UNCHANGED <<ui, cache, own>>
    BY <1>6 DEF OpenForm, FillForm, AddAct, CancelForm, Submit, RemoveAct, EditForm, OtherTab
  <2> QED
    BY <2>1 DEF ScreenInv, OnScreen
<1>7. ASSUME NEW x, ClickReplay(x)
      PROVE  ScreenInv'
  <2>1. ui' = [ui EXCEPT !.replaying = x] /\ UNCHANGED <<cache, own>>
    BY <1>7 DEF ClickReplay
  <2>2. DOMAIN ui' = UiFields /\ KeysOf(ui') = KeysOf(ui)
    BY <2>1, KeysStay DEF ScreenInv
  <2> QED
    BY <2>1, <2>2 DEF ScreenInv, OnScreen
<1>8. ASSUME NEW old, TurnPage(old) \/ \E filter : SelectFilter(filter, old)
      PROVE  ScreenInv'
  BY <1>3, <1>8 DEF TurnPage, SelectFilter
<1> QED
  BY <1>1, <1>2, <1>4, <1>5, <1>6, <1>7, <1>8 DEF UserStep

LEMMA OwnNumbered ==
    ASSUME NumbersInv, NEW k
    PROVE  \A id \in Due(own, k) : id \in Nat /\ id <= lastId
BY DEF NumbersInv, Due

\* An answer carries the number of the documents there were when it was read.
LEMMA NetworkKeepsScreen ==
    ASSUME ScreenInv, NumbersInv, NEW k \in DOMAIN cache,
           FetchStep(k) \/ LoseAnswer(k) \/ Poll(k)
    PROVE  ScreenInv'
<1>0. /\ IsEntry(cache[k]) /\ DOMAIN ui = UiFields /\ UNCHANGED own
      /\ k[1] = "rules" => Listed(cache[k], k \in OnScreen, Due(own, k))
  BY DEF ScreenInv, AllListed, FetchStep, Answer, Deliver, LoseAnswer, Poll
<1>1. ASSUME NEW e, IsEntry(e), k[1] = "rules" => Listed(e, k \in OnScreen, Due(own, k))
      PROVE  AllListed([cache EXCEPT ![k] = e], OnScreen, own)
  BY <1>1 DEF ScreenInv, AllListed
<1>2. ASSUME NEW e, IsEntry(e), k[1] = "rules" => Listed(e, k \in OnScreen, Due(own, k)),
             \/ cache' = [cache EXCEPT ![k] = e] /\ UNCHANGED ui
             \/ Present(ui, [cache EXCEPT ![k] = e])
      PROVE  ScreenInv'
  <2>1. CASE cache' = [cache EXCEPT ![k] = e] /\ UNCHANGED ui
    BY <1>0, <1>1, <1>2, <2>1 DEF ScreenInv, OnScreen
  <2>2. CASE Present(ui, [cache EXCEPT ![k] = e])
    <3>1. AllListed([cache EXCEPT ![k] = e], KeysOf(ui), own')
      BY <1>0, <1>1, <1>2 DEF OnScreen
    <3> QED
      BY <1>0, <2>2, <3>1, PresentListed
  <2> QED
    BY <1>2, <2>1, <2>2
<1>3. CASE Answer(k)
  <2> DEFINE f == cache[k].fetch
             refused == f.at = 0 /\ ~Admits(f.tenant)
             stage == IF f.at + 1 = Awaits[k[1]] THEN "read" ELSE "reading"
             asOf == IF f.at = 0 THEN lastId ELSE f.asOf
             g == IF refused THEN [f EXCEPT !.phase = "failed"]
                  ELSE [f EXCEPT !.at = @ + 1, !.rows = ReadNext(k, f),
                                 !.asOf = asOf, !.phase = stage]
             e == [cache[k] EXCEPT !.fetch = g]
  <2>1. f.phase = "reading" /\ cache' = [cache EXCEPT ![k] = e] /\ UNCHANGED ui
    BY <1>3 DEF Answer
  <2>2. IsFetch(f)
    BY <1>0 DEF IsEntry
  <2>3. stage \in {"read", "reading"} /\ (k[1] = "rules" => stage = "read" /\ asOf = lastId)
    BY <1>0, <2>1 DEF Listed, Awaits
  <2> HIDE DEF f, refused, stage, asOf
  <2>4. IsFetch(g) /\ (g.phase = "failed" \/ (g.phase = stage /\ g.asOf = asOf))
    <3>1. CASE refused
      <4>1. g = [f EXCEPT !.phase = "failed"]
        BY <3>1
      <4> HIDE DEF g
      <4> QED
        BY <2>2, <4>1 DEF IsFetch
    <3>2. CASE ~refused
      <4> DEFINE at == f.at + 1
                 rows == ReadNext(k, f)
      <4>1. g = [f EXCEPT !.at = at, !.rows = rows, !.asOf = asOf, !.phase = stage]
        BY <3>2
      <4> HIDE DEF g, at, rows
      <4> QED
        BY <2>2, <4>1 DEF IsFetch
    <3> QED
      BY <3>1, <3>2
  <2> HIDE DEF g
  <2>5. g.phase \in {"failed", "read", "reading"}
        /\ (k[1] = "rules" => g.phase = "failed" \/ (g.phase = "read" /\ g.asOf = lastId))
    BY <2>3, <2>4
  <2>6. IsEntry(e) /\ (k[1] = "rules" => Listed(e, k \in OnScreen, Due(own, k)))
    BY <1>0, <2>4, <2>5, OwnNumbered DEF IsEntry, Listed, Busy
  <2> HIDE DEF e
  <2> QED
    BY <1>2, <2>1, <2>6
<1>4. CASE LoseAnswer(k)
  <2> DEFINE e == [cache[k] EXCEPT !.fetch.phase = "failed"]
  <2>1. cache' = [cache EXCEPT ![k] = e] /\ UNCHANGED ui
    BY <1>4 DEF LoseAnswer
  <2>2. IsEntry(e) /\ (k[1] = "rules" => Listed(e, k \in OnScreen, Due(own, k)))
    BY <1>0 DEF IsEntry, IsFetch, Listed, Busy
  <2> HIDE DEF e
  <2> QED
    BY <1>2, <2>1, <2>2
<1>5. CASE Deliver(k)
  <2> DEFINE e == IF cache[k].fetch.phase = "read" THEN Loaded(cache[k])
                  ELSE Failed(cache[k], k \in OnScreen, stored)
  <2>1. Present(ui, [cache EXCEPT ![k] = e])
    BY <1>5 DEF Deliver
  <2>2. IsEntry(e)
    BY <1>0, EntryKept
  <2>3. ASSUME k[1] = "rules"
        PROVE  Listed(e, k \in OnScreen, Due(own, k))
    BY <1>0, <2>3, EntryListed
  <2> HIDE DEF e
  <2> QED
    BY <1>2, <2>1, <2>2, <2>3
<1>6. CASE Poll(k)
  <2>1. Present(ui, [cache EXCEPT ![k] = Polled(cache[k], stored)]) /\ k[1] # "rules"
    BY <1>6 DEF Poll, Polling
  <2>2. IsEntry(Polled(cache[k], stored))
    BY <1>0, EntryKept
  <2> QED
    BY <1>2, <2>1, <2>2
<1> QED
  BY <1>3, <1>4, <1>5, <1>6 DEF FetchStep

\* Unless its fetch is spared, an entry that is invalidated is read anew: it will
\* show whatever there is, J included.
LEMMA InvalidatedListed ==
    ASSUME NEW e, IsEntry(e), NEW shown \in BOOLEAN, NEW t, NEW J,
           ~Busy(e) \/ (shown /\ e.loaded)
    PROVE  Listed(IF shown THEN Refetched([e EXCEPT !.invalid = TRUE], t)
                  ELSE [e EXCEPT !.invalid = TRUE], shown, J)
<1> DEFINE f == [e EXCEPT !.invalid = TRUE]
<1>1. IsEntry(f) /\ f.invalid /\ f.fetch = e.fetch /\ f.loaded = e.loaded
  BY DEF IsEntry
<1> HIDE DEF f
<1>2. CASE shown
  <2>1. Refetched(f, t) = Fetching(f, t)
    BY <1>1, <1>2 DEF Refetched, Busy
  <2>2. /\ Fetching(f, t).fetch.phase = "reading" /\ Fetching(f, t).fetch.at = 0
        /\ Fetching(f, t).invalid
    BY <1>1 DEF Fetching, IsEntry, Sent, Idle
  <2>3. Listed(Fetching(f, t), shown, J)
    BY <2>2, Zenon DEF Listed, Busy
  <2> QED
    BY <1>2, <2>1, <2>3 DEF f
<1>3. CASE ~shown
  <2>1. Listed(f, shown, J)
    BY <1>1, <1>3 DEF Listed, Busy
  <2> QED
    BY <1>3, <2>1 DEF f
<1> QED
  BY <1>2, <1>3

\* When the console is told of a rule, each entry lists what it listed, and the
\* rule unless it is spared.
LEMMA ToldListed ==
    ASSUME ScreenInv, NEW t, NEW I,
           own' = own \cup {[id |-> i, spared |-> Spared] : i \in I}
    PROVE  AllListed(Invalidated(cache, OnScreen, "rules", t), OnScreen, own')
<1> DEFINE c == Invalidated(cache, OnScreen, "rules", t)
<1>1. AllListed(c, OnScreen, own)
  BY CacheListed DEF ScreenInv
<1>2. DOMAIN c = DOMAIN cache
  BY DEF Invalidated
<1>3. ASSUME NEW k \in DOMAIN cache, k[1] = "rules"
      PROVE  Listed(c[k], k \in OnScreen, Due(own', k))
  <2>1. CASE k \in Spared
    <3>1. Due(own', k) = Due(own, k)
      BY <2>1 DEF Due
    <3> QED
      BY <1>1, <1>2, <1>3, <3>1 DEF AllListed
  <2>2. CASE k \notin Spared
    <3>1. ~Busy(cache[k]) \/ (k \in OnScreen /\ cache[k].loaded)
      BY <1>3, <2>2 DEF Spared
    <3>2. c[k] = IF k \in OnScreen THEN Refetched([cache[k] EXCEPT !.invalid = TRUE], t)
                 ELSE [cache[k] EXCEPT !.invalid = TRUE]
      BY <1>3 DEF Invalidated
    <3> DEFINE e == cache[k]
               shown == k \in OnScreen
               J == Due(own', k)
    <3>3. IsEntry(e) /\ shown \in BOOLEAN /\ (~Busy(e) \/ (shown /\ e.loaded))
      BY <3>1 DEF ScreenInv, AllListed
    <3>4. c[k] = IF shown THEN Refetched([e EXCEPT !.invalid = TRUE], t)
                 ELSE [e EXCEPT !.invalid = TRUE]
      BY <3>2
    <3> HIDE DEF c, e, shown, J
    <3>5. Listed(c[k], shown, J)
      BY <3>3, <3>4, InvalidatedListed
    <3> QED
      BY <3>5 DEF shown, J
  <2> QED
    BY <2>1, <2>2
<1> QED
  BY <1>1, <1>2, <1>3 DEF AllListed

LEMMA PostsKeepScreen ==
    ASSUME ScreenInv, NEW p, PostStep(p) \/ LosePost(p)
    PROVE  ScreenInv'
<1>0. UNCHANGED <<ui, cache, own>> => ScreenInv'
  BY DEF ScreenInv, OnScreen
<1>1. CASE CreateRule(p) \/ CheckReplay(p) \/ LogReplay(p) \/ CarryOutReplay(p) \/ LosePost(p)
  BY <1>0, <1>1 DEF CreateRule, CheckReplay, LogReplay, CarryOutReplay, LosePost, Serving, pageVars
<1>2. CASE RuleCreated(p)
  <2> DEFINE c == Invalidated(cache, OnScreen, "rules", stored)
  <2>1. CASE p.from = "gone"
    BY <1>0, <1>2, <2>1 DEF RuleCreated, pageVars
  <2>2. CASE p.from # "gone"
    <3>1. Present(ui, c)
      BY <1>2, <2>2 DEF RuleCreated
    <3>2. AllListed(c, OnScreen, own')
      <4> DEFINE I == {d.id : d \in {d \in db["rules"] : d.ref = p.about}}
      <4>1. own' = own \cup {[id |-> i, spared |-> Spared] : i \in I}
        BY <1>2, <2>2 DEF RuleCreated
      <4> HIDE DEF I
      <4> QED
        BY <4>1, ToldListed
    <3> HIDE DEF c
    <3> QED
      BY <3>1, <3>2, PresentListed DEF ScreenInv, OnScreen
  <2> QED
    BY <2>1, <2>2
<1>3. CASE ReplayAccepted(p)
  <2>1. CASE p.from = "gone"
    BY <1>0, <1>3, <2>1 DEF ReplayAccepted, pageVars
  <2>2. CASE p.from # "gone"
    <3> DEFINE c1 == Invalidated(cache, OnScreen, "executions", stored)
               c2 == Invalidated(c1, OnScreen, "replays", stored)
               c3 == Invalidated(c2, OnScreen, "stats", stored)
               u == IF p.from = "view" THEN [ui EXCEPT !.replaying = 0] ELSE ui
    <3>1. Present(u, c3) /\ UNCHANGED own
      BY <1>3, <2>2 DEF ReplayAccepted
    <3>2. DOMAIN u = UiFields /\ KeysOf(u) = OnScreen
      BY KeysStay DEF ScreenInv, OnScreen, UiFields
    <3>3. AllListed(c3, OnScreen, own)
      <4>1. AllListed(c1, OnScreen, own)
        BY CacheListed DEF ScreenInv
      <4> HIDE DEF c1
      <4>2. AllListed(c2, OnScreen, own)
        BY <4>1, CacheListed
      <4> HIDE DEF c2
      <4> QED
        BY <4>2, CacheListed
    <3> HIDE DEF c3, u
    <3> QED
      BY <3>1, <3>2, <3>3, PresentListed
  <2> QED
    BY <2>1, <2>2
<1>4. CASE PostRefused(p)
  <2>1. UNCHANGED <<cache, own>> /\ (ui' = [ui EXCEPT !.replaying = 0] \/ ui' = ui)
    BY <1>4 DEF PostRefused
  <2>2. DOMAIN ui' = UiFields /\ KeysOf(ui') = KeysOf(ui)
    BY <2>1, KeysStay DEF ScreenInv, UiFields
  <2> QED
    BY <2>1, <2>2 DEF ScreenInv, OnScreen
<1> QED
  BY <1>1, <1>2, <1>3, <1>4 DEF PostStep

\* Numbers are given out, by the seed script too, and never taken back.
LEMMA SeedNumbers ==
    ASSUME DocsInv, ClearedInv, SeedNext
    PROVE  lastId' \in Nat /\ lastId' >= lastId
<1>0. /\ lastId \in Nat /\ RulesPer \in Nat /\ EventsPer \in Nat /\ ExecutionsPer \in Nat
      /\ ReplaysPer \in Nat /\ Len(Demo) \in Nat
  BY SeedAssumption, ApiAssumption DEF ClearedInv, EventsPer, ExecutionsPer
<1>1. ASSUME UNCHANGED lastId
      PROVE  lastId' \in Nat /\ lastId' >= lastId
  BY <1>0, <1>1
<1>2. CASE AddRules
  <2>1. lastId' = lastId + Len(Demo) * RulesPer + Len(Demo) * EventsPer + Len(Demo) * ExecutionsPer
    BY <1>2 DEF AddRules
  <2>2. /\ Len(Demo) * RulesPer \in Nat /\ Len(Demo) * EventsPer \in Nat
        /\ Len(Demo) * ExecutionsPer \in Nat
    BY <1>0
  <2> DEFINE a == Len(Demo) * RulesPer
             b == Len(Demo) * EventsPer
             e == Len(Demo) * ExecutionsPer
  <2>3. lastId' = lastId + a + b + e /\ a \in Nat /\ b \in Nat /\ e \in Nat
    BY <2>1, <2>2
  <2> HIDE DEF a, b, e
  <2> QED
    BY <1>0, <2>3
<1>3. CASE AddReplays
  <2>1. lastId' = lastId + Len(Demo) * ReplaysPer
    BY <1>3 DEF AddReplays
  <2>2. Len(Demo) * ReplaysPer \in Nat
    BY <1>0
  <2> QED
    BY <1>0, <2>1, <2>2
<1>4. ASSUME NEW c, NEW pc, NEW D, InsertFault(c, pc, D), \A d \in D : d.id \in Nat
      PROVE  lastId' \in Nat /\ lastId' >= lastId
  <2>1. PICK d \in D : lastId' = IF d.id > lastId THEN d.id ELSE lastId
    BY <1>4 DEF InsertFault
  <2> QED
    BY <1>0, <1>4, <2>1
<1>5. CASE \E off \in Draws : InsertFault("rules", "addRules", PlannedRules(lastId, off))
  <2>1. PICK off \in Draws : InsertFault("rules", "addRules", PlannedRules(lastId, off))
    BY <1>5
  <2>2. \A d \in PlannedRules(lastId, off) : d.id \in Nat
    BY <1>0, PlannedIds DEF NewerThan
  <2> QED
    BY <1>4, <2>1, <2>2
<1>6. CASE InsertFault("replays", "addReplays", PlannedReplays(lastId))
  <2>1. \A d \in PlannedReplays(lastId) : d.id \in Nat
    BY <1>0, PlannedIds DEF NewerThan
  <2> QED
    BY <1>4, <1>6, <2>1
<1>7. CASE \/ InsertFault("webhooks", "addWebhooks", seed.webhooks)
           \/ InsertFault("executions", "addExecutions", seed.executions)
  <2>1. \A d \in seed.webhooks \cup seed.executions : d.id \in Nat
    BY DEF ClearedInv
  <2> QED
    BY <1>4, <1>7, <2>1
<1>8. CASE \/ StartSeed \/ SeedFault \/ DeleteTenants \/ CreateTenant \/ AddWebhooks
           \/ AddExecutions \/ \E c \in DOMAIN Cleanup : DeleteDocuments(c)
  BY <1>1, <1>8 DEF StartSeed, SeedFault, DeleteTenants, CreateTenant, AddWebhooks,
     AddExecutions, DeleteDocuments
<1> QED
  BY <1>2, <1>3, <1>5, <1>6, <1>7, <1>8 DEF SeedNext, SeedStep

LEMMA NumbersKept ==
    ASSUME DocsInv, ClearedInv, FormInv, NumbersInv, [Next]_vars
    PROVE  NumbersInv'
<1>0. lastId \in Nat /\ \A r \in db["rules"] : IsDoc(r)
  BY DEF DocsInv, ClearedInv, Collections
<1>1. ASSUME lastId' \in Nat, lastId' >= lastId, UNCHANGED own, RulesKept
      PROVE  NumbersInv'
  <2>1. \A r \in db'["rules"] : r.ref # 0 => \E s \in db["rules"] : s.ref # 0 /\ s.id = r.id
    BY <1>0, <1>1 DEF RulesKept, IsDoc
  <2> QED
    BY <1>0, <1>1, <2>1 DEF NumbersInv
<1>2. CASE Others \/ Reseed
  <2>1. UNCHANGED own
    BY <1>2 DEF Others, Reseed, consoleVars
  <2>2. RulesKept
    BY <1>2, OthersKeepRules DEF Others, Reseed
  <2>3. lastId' \in Nat /\ lastId' >= lastId
    BY <1>2, OthersGrow, SeedNumbers DEF Others, Reseed, Grows
  <2> QED
    BY <1>1, <2>1, <2>2, <2>3
<1>3. CASE Use
  <2>0. lastId' \in Nat /\ lastId' >= lastId
    BY <1>3, UseGrows DEF Use, Grows
  <2>1. ASSUME UNCHANGED own, db'["rules"] = db["rules"]
        PROVE  NumbersInv'
    BY <1>1, <2>0, <2>1 DEF RulesKept
  <2>2. CASE UserStep
    BY <2>1, <2>2 DEF UserStep, Navigate, SwitchTenant, OtherTab, TurnPage, SelectFilter, TurnTo,
          Refresh, Reload, OpenForm, FillForm, AddAct, CancelForm, Submit, RemoveAct, EditForm,
          ClickReplay
  <2>3. ASSUME NEW k, FetchStep(k) \/ LoseAnswer(k) \/ Poll(k)
        PROVE  NumbersInv'
    BY <2>1, <2>3 DEF FetchStep, Answer, Deliver, LoseAnswer, Poll, apiVars
  <2>4. ASSUME NEW p \in posts, PostStep(p) \/ LosePost(p)
        PROVE  NumbersInv'
    <3>1. CASE CreateRule(p)
      <4> DEFINE new == RuleDoc(lastId + 1, p.tenant, p.about, p.orders)
      <4>1. \/ UNCHANGED db
            \/ Insert("rules", new) /\ lastId' = lastId + 1
        BY <3>1 DEF CreateRule
      <4>2. UNCHANGED own
        BY <3>1 DEF CreateRule, Serving
      <4>3. CASE UNCHANGED db
        BY <2>1, <4>2, <4>3
      <4>4. CASE Insert("rules", new) /\ lastId' = lastId + 1
        <5>1. db'["rules"] = db["rules"] \cup {new} /\ new.id = lastId + 1
          BY <4>4 DEF Insert, DocsInv, Collections, RuleDoc
        <5> HIDE DEF new
        <5> QED
          BY <1>0, <4>2, <4>4, <5>1 DEF NumbersInv
      <4> QED
        BY <4>1, <4>3, <4>4
    <3>2. CASE CheckReplay(p) \/ LogReplay(p) \/ CarryOutReplay(p) \/ LosePost(p)
      <4>1. UNCHANGED own
        BY <3>2 DEF CheckReplay, LogReplay, CarryOutReplay, LosePost, Serving
      <4>2. db'["rules"] = db["rules"]
        BY <3>2 DEF CheckReplay, LogReplay, CarryOutReplay, LosePost, Insert, SetStatus, DocsInv,
              Collections
      <4> QED
        BY <2>1, <4>1, <4>2
    <3>3. CASE RuleCreated(p)
      <4>1. UNCHANGED <<db, lastId>>
        BY <3>3 DEF RuleCreated, apiVars
      <4>2. p.about # 0
        BY <3>3 DEF RuleCreated, FormInv, OrdersInv, OnceInv, Creation
      <4>3. \A r \in own' : r \in own \/ \E d \in db["rules"] : d.ref = p.about /\ r.id = d.id
        BY <3>3 DEF RuleCreated
      <4>4. \A r \in own' : r \in own \/ \E d \in db["rules"] : d.ref # 0 /\ d.id = r.id
        BY <4>2, <4>3
      <4> QED
        BY <1>0, <4>1, <4>4 DEF NumbersInv
    <3>4. CASE ReplayAccepted(p) \/ PostRefused(p)
      BY <2>1, <3>4 DEF ReplayAccepted, PostRefused, apiVars
    <3> QED
      BY <2>4, <3>1, <3>2, <3>3, <3>4 DEF PostStep
  <2> QED
    BY <1>3, <2>2, <2>3, <2>4 DEF Use, ConsoleNext
<1>4. CASE UNCHANGED vars
  BY <1>4 DEF vars, apiVars, consoleVars, NumbersInv
<1> QED
  BY <1>2, <1>3, <1>4 DEF Next

\* What is on screen lists every rule created from this tab, on every step.
LEMMA ScreenHolds == Spec => [](ScreenInv /\ NumbersInv)
<1>1. Init => ScreenInv /\ NumbersInv
  <2> SUFFICES ASSUME Init PROVE ScreenInv /\ NumbersInv
    OBVIOUS
  <2>1. /\ cache = Observed(NoEntries, KeysOf(ui), {}, stored) /\ own = {}
        /\ \E view : ui = Fresh(stored, view)
    BY DEF Init, ConsoleInit
  <2>2. DOMAIN ui = UiFields
    BY <2>1 DEF Fresh, UiFields
  <2>3. AllListed(NoEntries, {}, own)
    BY DEF AllListed, NoEntries
  <2>4. ScreenInv
    BY <2>1, <2>2, <2>3, CacheListed DEF ScreenInv, OnScreen
  <2>5. NumbersInv
    BY <2>1, ApiAssumption DEF NumbersInv, Init, ApiInit
  <2> QED
    BY <2>4, <2>5
<1>2. ScreenInv /\ NumbersInv /\ [Next]_vars => ScreenInv'
  <2> SUFFICES ASSUME ScreenInv, NumbersInv, [Next]_vars PROVE ScreenInv'
    OBVIOUS
  <2>1. CASE Use
    <3>1. OnScreen \subseteq DOMAIN cache
      BY DEF ScreenInv, AllListed
    <3> QED
      BY <2>1, <3>1, UserKeepsScreen, NetworkKeepsScreen, PostsKeepScreen DEF Use, ConsoleNext
  <2>2. CASE Others \/ Reseed \/ UNCHANGED vars
    <3>1. UNCHANGED <<ui, cache, own>>
      BY <2>2 DEF Others, Reseed, vars, consoleVars
    <3> QED
      BY <3>1 DEF ScreenInv, OnScreen
  <2> QED
    BY <2>1, <2>2 DEF Next
<1>3. DocsInv /\ ClearedInv /\ FormInv /\ NumbersInv /\ [Next]_vars => NumbersInv'
  BY NumbersKept
<1> QED
  BY <1>1, <1>2, <1>3, DocumentsMade, ClearedHolds, FormInvariant, PTL DEF Spec

\* However the list is turned, filtered, left, reset and loaded again, whatever is
\* in flight when the API answers that a rule was created, a list of rules at
\* rest on screen was read after that rule, but for the entries invalidateQueries
\* spares: one that was being loaded for the first time, or fetched off screen.
THEOREM CreatedRulesListed == Spec => []OwnRulesListed
<1>1. ASSUME ScreenInv PROVE OwnRulesListed
  <2>1. ASSUME NEW k \in OnScreen, NEW r \in own, k[1] = "rules", k \notin r.spared,
               cache[k].loaded, ~Busy(cache[k]), ~cache[k].error
        PROVE  cache[k].asOf >= r.id
    <3>1. Listed(cache[k], k \in OnScreen, Due(own, k))
      BY <1>1, <2>1 DEF ScreenInv, AllListed
    <3>2. r.id \in Due(own, k)
      BY <2>1 DEF Due
    <3> QED
      BY <2>1, <3>1, <3>2 DEF Listed
  <2> QED
    BY <2>1 DEF OwnRulesListed
<1> QED
  BY <1>1, ScreenHolds, PTL

-----------------------------------------------------------------------------
(* Types *)

Tables == [Collections -> SUBSET Doc]

Screen == [tenant: Tenants, view: Views, page: Nat \ {0},
           filter: DocStatus \cup {AnyStatus}, replaying: Nat, blank: BOOLEAN]

Draft == [open: BOOLEAN, named: BOOLEAN, orders: Seq(Nat), draft: Nat]

Script == [pc: SeedPc, at: 1..(Len(Demo) + 1), since: Nat, webhooks: SUBSET Doc,
           executions: SUBSET Doc, replays: SUBSET Doc]

\* A fetch that goes on has an await left.
EntryTyped(k, e) ==
    e \in Entry /\ (e.fetch.phase = "reading" => e.fetch.at < Awaits[k[1]])

CacheTyped(c) == DOMAIN c \subseteq Key /\ \A k \in DOMAIN c : EntryTyped(k, c[k])

PageTyped == stored \in Tenants /\ ui \in Screen /\ CacheTyped(cache) /\ meddled \in BOOLEAN

PostsTyped == posts \subseteq Post /\ unsure \subseteq Nat

OwnTyped == own \subseteq [id: Nat, spared: SUBSET Key]

\* A script that is not done with the tenants has one left to create.
ScriptTyped ==
    /\ seed \in Script
    /\ seed.pc \in CleanupPc \cup {"create"} => seed.at <= Len(Demo)

TypesInv ==
    ApiTypeOK /\ PageTyped /\ form \in Draft /\ PostsTyped /\ OwnTyped /\ ScriptTyped

LEMMA DocTypes ==
    /\ \A id, draft \in Nat, t \in Tenants, orders \in Seq(Nat) :
          RuleDoc(id, t, draft, orders) \in Doc
    /\ \A id, x, event \in Nat, t \in Tenants : HistoryDoc(id, t, x, event) \in Doc
    /\ \A d \in Doc, status \in DocStatus : [d EXCEPT !.status = status] \in Doc
    /\ \A d \in Doc, x \in Nat, event \in Nat : [d EXCEPT !.ref = x, !.event = event] \in Doc
<1>1. "active" \in DocStatus /\ "triggered" \in DocStatus
  BY DEF DocStatus, RuleStatus
<1>2. \A id, draft \in Nat, t \in Tenants, orders \in Seq(Nat) :
         RuleDoc(id, t, draft, orders) \in Doc
  BY <1>1 DEF RuleDoc, Doc
<1>3. \A id, x, event \in Nat, t \in Tenants : HistoryDoc(id, t, x, event) \in Doc
  BY <1>1 DEF HistoryDoc, Doc
<1>4. \A d \in Doc, status \in DocStatus : [d EXCEPT !.status = status] \in Doc
  BY DEF Doc
<1>5. \A d \in Doc, x \in Nat, event \in Nat : [d EXCEPT !.ref = x, !.event = event] \in Doc
  BY DEF Doc
<1> QED
  BY <1>2, <1>3, <1>4, <1>5

LEMMA TableTypes ==
    ASSUME db \in Tables, NEW c \in Collections
    PROVE  /\ \A d \in Doc : Insert(c, d) => db' \in Tables
           /\ \A d \in db[c], status \in DocStatus : SetStatus(c, d, status) => db' \in Tables
           /\ \A D \in SUBSET Doc : InsertMany(c, D) => db' \in Tables
<1>1. ASSUME NEW D \in SUBSET Doc
      PROVE  [db EXCEPT ![c] = D] \in Tables
  BY DEF Tables
<1>2. db[c] \subseteq Doc
  BY DEF Tables
<1>3. ASSUME NEW d \in db[c], NEW status \in DocStatus
      PROVE  (db[c] \ {d}) \cup {[d EXCEPT !.status = status]} \subseteq Doc
  <2>1. [d EXCEPT !.status = status] \in Doc
    BY <1>2, DocTypes
  <2> QED
    BY <1>2, <2>1
<1>4. \A d \in Doc : db[c] \cup {d} \subseteq Doc
  BY <1>2
<1>5. \A D \in SUBSET Doc : db[c] \cup D \subseteq Doc
  BY <1>2
<1> QED
  BY <1>1, <1>3, <1>4, <1>5 DEF Insert, SetStatus, InsertMany

\* What the script plans are documents.
LEMMA PlannedTypes ==
    ASSUME NEW base \in Nat
    PROVE  /\ \A off : PlannedRules(base, off) \subseteq Doc
           /\ \A lists \in [1..Len(Demo) -> Shuffles], rules \in Nat, webhooks \in Nat :
                 PlannedExecutions(lists, base, rules, webhooks) \subseteq Doc
           /\ \A executions \in SUBSET Doc : PlannedWebhooks(executions, base) \subseteq Doc
           /\ seed.executions \subseteq Doc /\ Ready(seed.executions)
                 => PlannedReplays(base) \subseteq Doc
<1>0. /\ RulesPer \in Nat /\ EventsPer \in Nat /\ ExecutionsPer \in Nat /\ ReplaysPer \in Nat
      /\ Len(Demo) \in Nat /\ \A i \in 1..Len(Demo) : Demo[i] \in Tenants
  BY SeedAssumption, ApiAssumption DEF EventsPer, ExecutionsPer
<1>1. /\ {"active", "inactive", "success", "failed", "triggered", "processing", "completed",
          "pending"} \subseteq DocStatus
      /\ EngineStatus \subseteq DocStatus
  BY DEF DocStatus, RuleStatus, EngineStatus
<1>2. ASSUME NEW off, NEW d \in PlannedRules(base, off)
      PROVE  d \in Doc
  <2>1. PICK i \in 1..Len(Demo), r \in 1..RulesPer :
           d = [RuleDoc(base + (i - 1) * RulesPer + r, Demo[i], 0,
                        IF r % 5 = 1 THEN <<0, 1>> ELSE <<0>>)
                  EXCEPT !.status = IF r \in off THEN "inactive" ELSE "active"]
    BY <1>2 DEF PlannedRules
  <2> DEFINE id == base + (i - 1) * RulesPer + r
             orders == IF r % 5 = 1 THEN <<0, 1>> ELSE <<0>>
             status == IF r \in off THEN "inactive" ELSE "active"
             rule == RuleDoc(id, Demo[i], 0, orders)
  <2>2. id \in Nat
    <3>1. i \in Nat /\ i >= 1 /\ r \in Nat /\ r >= 1
      BY <1>0
    <3> QED
      BY <1>0, <3>1, PlaceOf
  <2>3. orders \in Seq(Nat) /\ status \in DocStatus /\ Demo[i] \in Tenants
    BY <1>0, <1>1
  <2>4. d = [rule EXCEPT !.status = status]
    BY <2>1
  <2> HIDE DEF id, orders, status
  <2>5. rule \in Doc
    BY <2>2, <2>3, DocTypes
  <2> HIDE DEF rule
  <2> QED
    BY <2>3, <2>4, <2>5, DocTypes
<1>3. ASSUME NEW lists \in [1..Len(Demo) -> Shuffles], NEW rules \in Nat, NEW webhooks \in Nat,
             NEW d \in PlannedExecutions(lists, base, rules, webhooks)
      PROVE  d \in Doc
  <2>1. PICK i \in 1..Len(Demo), n \in 1..ExecutionsPer :
           d = [id |-> base + (i - 1) * ExecutionsPer + n, tenant |-> Demo[i],
                status |-> lists[i][n],
                ref |-> rules + (i - 1) * RulesPer + RuleOf(n),
                event |-> webhooks + (i - 1) * EventsPer + WebhookOf(n), orders |-> <<>>]
    BY <1>3 DEF PlannedExecutions
  <2>2. i \in Nat /\ i >= 1 /\ n \in Nat /\ n >= 1
    BY <1>0
  <2>3. RuleOf(n) \in Nat /\ RuleOf(n) >= 1 /\ WebhookOf(n) \in Nat /\ WebhookOf(n) >= 1
    BY <1>0, DrawsWithin
  <2>4. /\ base + (i - 1) * ExecutionsPer + n \in Nat
        /\ rules + (i - 1) * RulesPer + RuleOf(n) \in Nat
        /\ webhooks + (i - 1) * EventsPer + WebhookOf(n) \in Nat
    BY <1>0, <2>2, <2>3, PlaceOf
  <2>5. lists[i][n] \in DocStatus
    <3>1. lists[i] \in [1..ExecutionsPer -> EngineStatus]
      BY DEF Shuffles
    <3> QED
      BY <1>1, <3>1
  <2>6. <<>> \in Seq(Nat) /\ Demo[i] \in Tenants
    BY <1>0
  <2> QED
    BY <2>1, <2>4, <2>5, <2>6 DEF Doc
<1>4. ASSUME NEW executions \in SUBSET Doc, NEW d \in PlannedWebhooks(executions, base)
      PROVE  d \in Doc
  <2>1. PICK i \in 1..Len(Demo), w \in 1..EventsPer :
           d = WebhookDoc(base + (i - 1) * EventsPer + w, Demo[i], executions)
    BY <1>4 DEF PlannedWebhooks
  <2>2. base + (i - 1) * EventsPer + w \in Nat
    <3>1. i \in Nat /\ i >= 1 /\ w \in Nat /\ w >= 1
      BY <1>0
    <3> QED
      BY <1>0, <3>1, PlaceOf
  <2>3. \A statuses : Aligned(statuses) \in DocStatus
    BY <1>1 DEF Aligned
  <2>4. <<>> \in Seq(Nat) /\ Demo[i] \in Tenants
    BY <1>0
  <2> QED
    BY <2>1, <2>2, <2>3, <2>4 DEF WebhookDoc, Doc
<1>5. ASSUME seed.executions \subseteq Doc, Ready(seed.executions), NEW d \in PlannedReplays(base)
      PROVE  d \in Doc
  <2>1. PICK i \in 1..Len(Demo), n \in 1..(IF ExecutionsPer = 0 THEN 0 ELSE ReplaysPer) :
           d = ReplayOf(InTurn(Sources(Demo[i]), n - 1), base + (i - 1) * ReplaysPer + n,
                        ReplayStatus[((n - 1) % 3) + 1])
    BY <1>5 DEF PlannedReplays
  <2>2. ExecutionsPer > 0 /\ n - 1 \in Nat /\ n \in Nat /\ n >= 1 /\ i \in Nat /\ i >= 1
    BY <1>0
  <2>3. base + (i - 1) * ReplaysPer + n \in Nat
    BY <1>0, <2>2, PlaceOf
  <2>4. InTurn(Sources(Demo[i]), n - 1) \in Doc
    <3>1. \A x \in seed.executions : x.id \in Nat
      BY <1>5 DEF Doc
    <3> QED
      BY <1>5, <2>2, <3>1, SourceInTurn
  <2>5. ReplayStatus[((n - 1) % 3) + 1] \in DocStatus
    <3>1. ((n - 1) % 3) + 1 \in 1..3
      BY <2>2
    <3> QED
      BY <1>1, <3>1 DEF ReplayStatus
  <2> DEFINE x == InTurn(Sources(Demo[i]), n - 1)
             id == base + (i - 1) * ReplaysPer + n
             status == ReplayStatus[((n - 1) % 3) + 1]
  <2>6. x \in Doc /\ id \in Nat /\ status \in DocStatus /\ d = ReplayOf(x, id, status)
    BY <2>1, <2>3, <2>4, <2>5
  <2> HIDE DEF x, id, status
  <2>7. x.id \in Nat /\ x.event \in Nat /\ x.tenant \in Tenants
    BY <2>6 DEF Doc
  <2>8. HistoryDoc(id, x.tenant, x.id, x.event) \in Doc
    BY <2>6, <2>7, DocTypes
  <2> QED
    BY <2>6, <2>8, DocTypes DEF ReplayOf
<1> QED
  BY <1>2, <1>3, <1>4, <1>5

\* What is stored, and what the scenario has left, keeps its types.
LEMMA ApiTyped ==
    ASSUME TypesInv, ClosedInv, lastId' \in Nat, [Next]_vars
    PROVE  ApiTypeOK'
<1>0. /\ db \in Tables /\ keys \in [Tenants -> KeyKinds] /\ lastId \in Nat
      /\ left \in [Happenings -> Nat] /\ scene \in Scenario
  BY DEF TypesInv, ApiTypeOK, Tables
<1>1. left' \in [Happenings -> Nat] /\ scene' \in Scenario
  <2>1. CASE \E kind \in Happenings : Happen(kind)
    BY <1>0, <2>1 DEF Happen
  <2>2. CASE UNCHANGED <<scene, left>>
    BY <1>0, <2>2
  <2> QED
    BY <2>1, <2>2, NextHappens
<1>2. keys' \in [Tenants -> KeyKinds]
  <2>1. WithDefaults(keys) \in [Tenants -> KeyKinds]
    BY <1>0 DEF WithDefaults, KeyKinds
  <2>2. UNCHANGED keys => keys' \in [Tenants -> KeyKinds]
    BY <1>0
  <2>3. CASE Use
    BY <2>2, <2>3, UseKeepsKeys DEF Use
  <2>4. CASE Others
    BY <2>1, <2>2, <2>4 DEF Others, OthersNext, EngineWrites, EngineStarts, UpdateRule, RemoveRule,
       RestartServer
  <2>5. CASE Reseed
    <3>1. CASE StartSeed
      BY <2>1, <3>1 DEF StartSeed
    <3>2. CASE DeleteTenants
      BY <1>0, <3>2 DEF DeleteTenants, KeyKinds
    <3>3. CASE CreateTenant
      <4>1. UNCHANGED keys \/ \E t : keys' = [keys EXCEPT ![t] = "demo"]
        BY <3>3 DEF CreateTenant
      <4> QED
        BY <1>0, <2>2, <4>1 DEF KeyKinds
    <3>4. CASE \/ \E c \in DOMAIN Cleanup : DeleteDocuments(c)
               \/ AddRules \/ AddWebhooks \/ AddExecutions \/ AddReplays \/ SeedFault
               \/ \E c, pc, D : InsertFault(c, pc, D)
      BY <2>2, <3>4 DEF DeleteDocuments, AddRules, AddWebhooks, AddExecutions, AddReplays,
         SeedFault, InsertFault
    <3> QED
      BY <2>5, <3>1, <3>2, <3>3, <3>4 DEF Reseed, SeedNext, SeedStep
  <2>6. CASE UNCHANGED vars
    BY <2>2, <2>6 DEF vars, apiVars
  <2> QED
    BY <2>3, <2>4, <2>5, <2>6 DEF Next
<1>3. db' \in Tables
  <2>0. /\ UNCHANGED db => db' \in Tables
        /\ {"rules", "webhooks", "executions", "replays"} = Collections
        /\ \A c \in Collections : db[c] \subseteq Doc
    BY <1>0 DEF Tables, Collections
  <2>1. CASE Use
    <3>1. CASE UserStep
      BY <2>0, <3>1 DEF UserStep, Navigate, SwitchTenant, OtherTab, TurnPage, SelectFilter, TurnTo,
            Refresh, Reload, OpenForm, FillForm, AddAct, CancelForm, Submit, RemoveAct, EditForm,
            ClickReplay
    <3>2. ASSUME NEW k, FetchStep(k) \/ LoseAnswer(k) \/ Poll(k)
          PROVE  db' \in Tables
      BY <2>0, <3>2 DEF FetchStep, Answer, Deliver, LoseAnswer, Poll, apiVars
    <3>3. ASSUME NEW p \in posts, PostStep(p) \/ LosePost(p)
          PROVE  db' \in Tables
      <4>0. /\ p.tenant \in Tenants /\ p.about \in Nat /\ p.event \in Nat /\ p.orders \in Seq(Nat)
            /\ lastId + 1 \in Nat
        BY <1>0, <3>3 DEF TypesInv, PostsTyped, Post
      <4>1. CASE CreateRule(p)
        <5>1. UNCHANGED db \/ Insert("rules", RuleDoc(lastId + 1, p.tenant, p.about, p.orders))
          BY <4>1 DEF CreateRule
        <5>2. RuleDoc(lastId + 1, p.tenant, p.about, p.orders) \in Doc
          BY <4>0, DocTypes
        <5> QED
          BY <1>0, <2>0, <5>1, <5>2, TableTypes
      <4>2. CASE LogReplay(p)
        <5>1. Insert("replays", HistoryDoc(lastId + 1, p.tenant, p.about, p.event))
          BY <4>2 DEF LogReplay
        <5>2. HistoryDoc(lastId + 1, p.tenant, p.about, p.event) \in Doc
          BY <4>0, DocTypes
        <5> QED
          BY <1>0, <2>0, <5>1, <5>2, TableTypes
      <4>3. CASE CarryOutReplay(p)
        <5>1. UNCHANGED db \/ \E x \in db["executions"] : SetStatus("executions", x, "queued")
          BY <4>3 DEF CarryOutReplay, OfTenant
        <5>2. "queued" \in DocStatus
          BY DEF DocStatus, EngineStatus
        <5> QED
          BY <1>0, <2>0, <5>1, <5>2, TableTypes
      <4>4. CASE CheckReplay(p) \/ LosePost(p) \/ RuleCreated(p) \/ ReplayAccepted(p)
                 \/ PostRefused(p)
        BY <2>0, <4>4 DEF CheckReplay, LosePost, RuleCreated, ReplayAccepted, PostRefused, apiVars
      <4> QED
        BY <3>3, <4>1, <4>2, <4>3, <4>4 DEF PostStep
    <3> QED
      BY <2>1, <3>1, <3>2, <3>3 DEF Use, ConsoleNext
  <2>2. CASE Others
    <3>1. CASE EngineWrites
      <4>1. PICK c \in DOMAIN EngineMoves :
               \E d \in db[c], move \in EngineMoves[c] : SetStatus(c, d, move[2])
        BY <3>1 DEF EngineWrites
      <4>2. c \in {"webhooks", "executions"} /\ \A move \in EngineMoves[c] : move[2] \in DocStatus
        BY DEF EngineMoves, DocStatus, EngineStatus
      <4> QED
        BY <1>0, <2>0, <4>1, <4>2, TableTypes
    <3>2. CASE EngineStarts
      <4>1. PICK r \in db["rules"] :
               LET event == [id |-> lastId + 1, tenant |-> r.tenant, status |-> "processing",
                             ref |-> 0, event |-> 0, orders |-> <<>>]
                   execution == [event EXCEPT !.id = lastId + 2, !.ref = r.id,
                                              !.event = lastId + 1]
               IN db' = [db EXCEPT !["webhooks"] = @ \cup {event},
                                   !["executions"] = @ \cup {execution}]
        BY <3>2 DEF EngineStarts
      <4> DEFINE event == [id |-> lastId + 1, tenant |-> r.tenant, status |-> "processing",
                           ref |-> 0, event |-> 0, orders |-> <<>>]
                 execution == [event EXCEPT !.id = lastId + 2, !.ref = r.id,
                                            !.event = lastId + 1]
      <4>2. r.id \in Nat /\ r.tenant \in Tenants /\ "processing" \in DocStatus
        BY <2>0 DEF Doc, DocStatus, EngineStatus
      <4>3. event \in Doc
        BY <1>0, <4>2 DEF Doc
      <4>4. execution \in Doc
        <5>1. lastId + 1 \in Nat /\ lastId + 2 \in Nat
          BY <1>0
        <5> HIDE DEF event
        <5> QED
          BY <4>2, <4>3, <5>1 DEF Doc
      <4>5. db' = [db EXCEPT !["webhooks"] = @ \cup {event},
                             !["executions"] = @ \cup {execution}]
        BY <4>1
      <4> HIDE DEF event, execution
      <4> QED
        BY <1>0, <2>0, <4>3, <4>4, <4>5 DEF Tables
    <3>3. CASE UpdateRule
      <4>1. PICK r \in db["rules"], status \in RuleStatus : SetStatus("rules", r, status)
        BY <3>3 DEF UpdateRule
      <4>2. status \in DocStatus
        BY DEF DocStatus
      <4> QED
        BY <1>0, <2>0, <4>1, <4>2, TableTypes
    <3>4. CASE RemoveRule
      BY <1>0, <2>0, <3>4 DEF RemoveRule, Tables
    <3>5. CASE RestartServer
      BY <2>0, <3>5 DEF RestartServer
    <3> QED
      BY <2>2, <3>1, <3>2, <3>3, <3>4, <3>5 DEF Others, OthersNext
  <2>3. CASE Reseed
    <3>0. seed.webhooks \subseteq Doc /\ seed.executions \subseteq Doc /\ seed.replays \subseteq Doc
      BY DEF TypesInv, ScriptTyped, Script
    <3>1. CASE StartSeed \/ DeleteTenants \/ CreateTenant \/ SeedFault
      BY <2>0, <3>1 DEF StartSeed, DeleteTenants, CreateTenant, SeedFault
    <3>2. CASE \E c \in DOMAIN Cleanup : DeleteDocuments(c)
      BY <1>0, <2>0, <3>2 DEF DeleteDocuments, Tables
    <3>3. ASSUME NEW c \in Collections, NEW D \in SUBSET Doc,
                 InsertMany(c, D) \/ \E pc : InsertFault(c, pc, D)
          PROVE  db' \in Tables
      <4>1. PICK W \in SUBSET Doc : InsertMany(c, W)
        BY <3>3 DEF InsertFault
      <4> QED
        BY <1>0, <4>1, TableTypes
    <3>4. CASE AddRules \/ \E off \in Draws : InsertFault("rules", "addRules", PlannedRules(lastId, off))
      <4>1. PICK off : \/ InsertMany("rules", PlannedRules(lastId, off))
                       \/ \E pc : InsertFault("rules", pc, PlannedRules(lastId, off))
        BY <3>4 DEF AddRules
      <4>2. PlannedRules(lastId, off) \in SUBSET Doc
        BY <1>0, PlannedTypes
      <4> QED
        BY <2>0, <3>3, <4>1, <4>2
    <3>5. CASE AddWebhooks \/ InsertFault("webhooks", "addWebhooks", seed.webhooks)
      BY <2>0, <3>0, <3>3, <3>5 DEF AddWebhooks
    <3>6. CASE AddExecutions \/ InsertFault("executions", "addExecutions", seed.executions)
      BY <2>0, <3>0, <3>3, <3>6 DEF AddExecutions
    <3>7. CASE AddReplays \/ InsertFault("replays", "addReplays", PlannedReplays(lastId))
      <4>1. \/ InsertMany("replays", PlannedReplays(lastId))
            \/ \E pc : InsertFault("replays", pc, PlannedReplays(lastId))
        BY <3>7 DEF AddReplays
      <4>2. seed.pc = "addReplays"
        BY <3>7 DEF AddReplays, InsertFault
      <4>3. PlannedReplays(lastId) \in SUBSET Doc
        BY <1>0, <3>0, <4>2, PlannedTypes DEF ClosedInv, PlanInv
      <4> QED
        BY <2>0, <3>3, <4>1, <4>3
    <3> QED
      BY <2>3, <3>1, <3>2, <3>4, <3>5, <3>6, <3>7 DEF Reseed, SeedNext, SeedStep
  <2>4. CASE UNCHANGED vars
    BY <2>0, <2>4 DEF vars, apiVars
  <2> QED
    BY <2>1, <2>2, <2>3, <2>4 DEF Next
<1> QED
  BY <1>1, <1>2, <1>3 DEF ApiTypeOK, Tables

\* The script's place, and what it has planned, keep their types.
LEMMA ScriptStaysTyped ==
    ASSUME TypesInv, ClosedInv, [Next]_vars
    PROVE  ScriptTyped'
<1>0. /\ seed \in Script
      /\ seed.pc \in CleanupPc \cup {"create"} => seed.at <= Len(Demo)
      /\ lastId \in Nat /\ Len(Demo) \in Nat /\ Len(Demo) >= 1
      /\ {} \subseteq Doc
  BY SeedAssumption, ApiAssumption DEF TypesInv, ScriptTyped, ApiTypeOK
<1>1. UNCHANGED seed => ScriptTyped'
  BY <1>0 DEF ScriptTyped
<1>2. ASSUME NEW pc \in SeedPc \ (CleanupPc \cup {"create"}), seed' = [seed EXCEPT !.pc = pc]
      PROVE  ScriptTyped'
  BY <1>0, <1>2 DEF ScriptTyped, Script
<1>3. ASSUME NEW pc \in SeedPc \ (CleanupPc \cup {"create"}), NEW R \in SUBSET Doc,
             seed' = [seed EXCEPT !.pc = pc, !.replays = R]
      PROVE  ScriptTyped'
  BY <1>0, <1>3 DEF ScriptTyped, Script
<1>4. {"aborted", "addRules", "addWebhooks", "addExecutions", "addReplays", "done"}
         \subseteq SeedPc \ (CleanupPc \cup {"create"})
  BY DEF SeedPc, CleanupPc
<1>5. CASE StartSeed
  BY <1>0, <1>5 DEF StartSeed, ScriptTyped, Script, SeedPc
<1>6. ASSUME NEW pc \in CleanupPc \cup {"create"}, seed.pc \in CleanupPc,
             seed' = [seed EXCEPT !.pc = pc]
      PROVE  ScriptTyped'
  BY <1>0, <1>6 DEF ScriptTyped, Script, SeedPc, CleanupPc
<1>7. CASE DeleteTenants
  BY <1>6, <1>7 DEF DeleteTenants, CleanupPc
<1>8. ASSUME NEW c \in DOMAIN Cleanup, DeleteDocuments(c)
      PROVE  ScriptTyped'
  <2>1. c \in CleanupPc /\ Cleanup[c] \in CleanupPc \cup {"create"}
    BY DEF Cleanup, CleanupPc
  <2> QED
    BY <1>6, <1>8, <2>1 DEF DeleteDocuments
<1>9. CASE CreateTenant
  <2>1. \/ seed' = [seed EXCEPT !.at = @ + 1,
                                !.pc = IF seed.at = Len(Demo) THEN "addRules" ELSE @]
        \/ seed' = [seed EXCEPT !.pc = "aborted"]
    BY <1>9, Zenon DEF CreateTenant
  <2>2. seed.pc = "create" /\ seed.at \in 1..Len(Demo)
    BY <1>0, <1>9 DEF CreateTenant, Script
  <2>3. CASE seed' = [seed EXCEPT !.at = @ + 1,
                                  !.pc = IF seed.at = Len(Demo) THEN "addRules" ELSE @]
    <3> DEFINE at == seed.at + 1
               pc == IF seed.at = Len(Demo) THEN "addRules" ELSE "create"
    <3>1. seed' = [seed EXCEPT !.at = at, !.pc = pc]
      BY <2>2, <2>3
    <3>2. at \in 1..(Len(Demo) + 1) /\ (pc = "create" => at <= Len(Demo))
          /\ pc \in {"create", "addRules"}
      BY <1>0, <2>2
    <3> HIDE DEF at, pc
    <3> QED
      BY <1>0, <3>1, <3>2 DEF ScriptTyped, Script, SeedPc, CleanupPc
  <2> QED
    BY <1>2, <1>4, <2>1, <2>3
<1>10. CASE AddRules
  <2> DEFINE webhooksFrom == lastId + Len(Demo) * RulesPer
             executionsFrom == webhooksFrom + Len(Demo) * EventsPer
  <2>1. webhooksFrom \in Nat /\ executionsFrom \in Nat
    <3>1. RulesPer \in Nat /\ EventsPer \in Nat
      BY SeedAssumption DEF EventsPer
    <3>2. Len(Demo) * RulesPer \in Nat /\ Len(Demo) * EventsPer \in Nat
      BY <1>0, <3>1
    <3> DEFINE a == Len(Demo) * RulesPer
               b == Len(Demo) * EventsPer
    <3>3. a \in Nat /\ b \in Nat
      BY <3>2
    <3> HIDE DEF a, b
    <3>4. lastId + a \in Nat /\ lastId + a + b \in Nat
      BY <1>0, <3>3
    <3> QED
      BY <3>4 DEF a, b
  <2>2. PICK lists \in [1..Len(Demo) -> Shuffles] :
           LET executions == PlannedExecutions(lists, executionsFrom, lastId, webhooksFrom)
           IN seed' = [seed EXCEPT !.pc = "addWebhooks", !.executions = executions,
                                   !.webhooks = PlannedWebhooks(executions, webhooksFrom)]
    BY <1>10 DEF AddRules
  <2> HIDE DEF webhooksFrom, executionsFrom
  <2> DEFINE executions == PlannedExecutions(lists, executionsFrom, lastId, webhooksFrom)
             webhooks == PlannedWebhooks(executions, webhooksFrom)
  <2>3. executions \in SUBSET Doc
    BY <1>0, <2>1, PlannedTypes
  <2>4. seed' = [seed EXCEPT !.pc = "addWebhooks", !.executions = executions,
                             !.webhooks = webhooks]
    BY <2>2
  <2> HIDE DEF executions
  <2>5. webhooks \in SUBSET Doc
    BY <2>1, <2>3, PlannedTypes
  <2> HIDE DEF webhooks
  <2> QED
    BY <1>0, <2>3, <2>4, <2>5 DEF ScriptTyped, Script, SeedPc, CleanupPc
<1>11. CASE AddWebhooks \/ AddExecutions \/ SeedFault
  BY <1>2, <1>4, <1>11 DEF AddWebhooks, AddExecutions, SeedFault
\* The replays planned, when they are.
<1>12. seed.pc = "addReplays" => PlannedReplays(lastId) \subseteq Doc
  <2>1. seed.executions \subseteq Doc
    BY <1>0 DEF Script
  <2> QED
    BY <1>0, <2>1, PlannedTypes DEF ClosedInv, PlanInv
<1>13. CASE AddReplays
  BY <1>3, <1>4, <1>12, <1>13 DEF AddReplays
<1>14. ASSUME NEW c, NEW pc, NEW D, InsertFault(c, pc, D), c = "replays" => D \subseteq Doc
       PROVE  ScriptTyped'
  <2>1. PICK d \in D :
           LET written == {e \in D : e.id <= d.id}
           IN seed' = [seed EXCEPT !.pc = "aborted",
                                   !.replays = IF c = "replays" THEN written ELSE {}]
    BY <1>14 DEF InsertFault
  <2> DEFINE R == IF c = "replays" THEN {e \in D : e.id <= d.id} ELSE {}
  <2>2. R \in SUBSET Doc /\ seed' = [seed EXCEPT !.pc = "aborted", !.replays = R]
    BY <1>14, <2>1
  <2> HIDE DEF R
  <2> QED
    BY <1>3, <1>4, <2>2
<1>15. CASE \/ \E off \in Draws : InsertFault("rules", "addRules", PlannedRules(lastId, off))
            \/ InsertFault("webhooks", "addWebhooks", seed.webhooks)
            \/ InsertFault("executions", "addExecutions", seed.executions)
  <2>1. PICK c, pc, D : c # "replays" /\ InsertFault(c, pc, D)
    BY <1>15
  <2> QED
    BY <1>14, <2>1
<1>16. CASE InsertFault("replays", "addReplays", PlannedReplays(lastId))
  <2>1. seed.pc = "addReplays"
    BY <1>16 DEF InsertFault
  <2> QED
    BY <1>12, <1>14, <1>16, <2>1
<1>17. CASE SeedNext
  BY <1>5, <1>7, <1>8, <1>9, <1>10, <1>11, <1>13, <1>15, <1>16, <1>17 DEF SeedNext, SeedStep
<1> QED
  BY <1>1, <1>17 DEF Next, Use, Others, Reseed, vars, seedVars

\* What the operations of the query cache make of an entry is one.
LEMMA EntryTypes ==
    ASSUME NEW k \in Key, NEW e, EntryTyped(k, e), NEW t \in Tenants
    PROVE  /\ EntryTyped(k, Fetching(NoData, t)) /\ EntryTyped(k, Fetching(e, t))
           /\ EntryTyped(k, Polled(e, t)) /\ EntryTyped(k, Refetched(e, t))
           /\ EntryTyped(k, [e EXCEPT !.invalid = TRUE])
           /\ EntryTyped(k, Loaded(e))
           /\ \A onScreen : EntryTyped(k, Failed(e, onScreen, t))
<1>0. e \in Entry /\ Awaits[k[1]] \in 1..3 /\ e.fetch \in Fetch
  <2>1. k[1] \in Queries
    BY DEF Key
  <2>2. \A q \in Queries : Awaits[q] \in 1..3
    BY DEF Queries, Views, Awaits
  <2> QED
    BY <2>1, <2>2 DEF EntryTyped, Entry
<1>a. \A a : a = 0 => a < Awaits[k[1]]
  <2>1. \A n \in 1..3 : 0 < n
    OBVIOUS
  <2>2. 0 < Awaits[k[1]]
    BY <1>0, <2>1, Zenon
  <2> QED
    BY <2>2, Zenon
<1>1. Idle \in Fetch /\ Idle.phase = "idle"
  BY DEF Idle, Fetch
<1>2. ASSUME NEW again \in BOOLEAN
      PROVE  /\ Sent(t, again) \in Fetch
             /\ Sent(t, again).phase = "reading" /\ Sent(t, again).at = 0
  <2>1. Idle \in Fetch /\ Idle.at = 0
    BY <1>1 DEF Idle
  <2> QED
    BY <2>1 DEF Sent, Fetch
<1>3. NoData \in Entry /\ NoData.fetch = Idle
  BY <1>1 DEF NoData, Entry
<1>4. ASSUME NEW d \in Entry, NEW f \in Fetch, NEW error \in BOOLEAN,
             f.phase = "reading" => f.at < Awaits[k[1]]
      PROVE  EntryTyped(k, [d EXCEPT !.fetch = f, !.error = error])
  BY <1>4 DEF EntryTyped, Entry
<1>5. ASSUME NEW d \in Entry
      PROVE  EntryTyped(k, Fetching(d, t))
  <2> DEFINE error == d.error /\ d.loaded
  <2>1. error \in BOOLEAN
    BY DEF Entry
  <2>2. Fetching(d, t) = [d EXCEPT !.fetch = Sent(t, FALSE), !.error = error]
    BY DEF Fetching
  <2> HIDE DEF error
  <2>3. Sent(t, FALSE) \in Fetch /\ Sent(t, FALSE).at = 0
    BY <1>2
  <2>4. Sent(t, FALSE).at < Awaits[k[1]]
    BY <1>a, <2>3, Zenon
  <2> QED
    BY <1>4, <2>1, <2>2, <2>3, <2>4
<1>6. EntryTyped(k, Polled(e, t)) /\ EntryTyped(k, Refetched(e, t))
  BY <1>0, <1>5 DEF Polled, Refetched
<1>7. EntryTyped(k, [e EXCEPT !.invalid = TRUE])
  BY <1>0 DEF EntryTyped, Entry
<1>8. EntryTyped(k, Loaded(e))
  <2>1. e.fetch.rows \in SUBSET Doc /\ e.fetch.asOf \in Nat
    BY <1>0 DEF Fetch
  <2>2. Loaded(e) \in Entry /\ Loaded(e).fetch = Idle
    BY <1>1, <2>1 DEF Loaded, NoData, Entry
  <2> QED
    BY <1>1, <2>2 DEF EntryTyped
<1>9. ASSUME NEW onScreen
      PROVE  EntryTyped(k, Failed(e, onScreen, t))
  <2>1. EntryTyped(k, [e EXCEPT !.fetch = Sent(t, TRUE)])
    <3>1. [e EXCEPT !.fetch = Sent(t, TRUE)] \in Entry
      BY <1>0, <1>2 DEF Entry
    <3>2. [e EXCEPT !.fetch = Sent(t, TRUE)].fetch = Sent(t, TRUE)
      BY <1>0 DEF Entry
    <3>3. Sent(t, TRUE).at = 0
      BY <1>2
    <3>4. Sent(t, TRUE).at < Awaits[k[1]]
      BY <1>a, <3>3, Zenon
    <3> QED
      BY <3>1, <3>2, <3>4 DEF EntryTyped
  <2>2. EntryTyped(k, [e EXCEPT !.error = TRUE, !.invalid = TRUE, !.fetch = Idle])
    <3>1. [e EXCEPT !.error = TRUE, !.invalid = TRUE, !.fetch = Idle] \in Entry
      BY <1>0, <1>1 DEF Entry
    <3>2. [e EXCEPT !.error = TRUE, !.invalid = TRUE, !.fetch = Idle].fetch = Idle
      BY <1>0 DEF Entry
    <3> QED
      BY <1>1, <3>1, <3>2 DEF EntryTyped
  <2> QED
    BY <2>1, <2>2 DEF Failed
<1> QED
  BY <1>0, <1>3, <1>5, <1>6, <1>7, <1>8, <1>9

LEMMA CacheTypes ==
    ASSUME NEW c, CacheTyped(c), NEW t \in Tenants, NEW K \in SUBSET Key, NEW old, NEW query
    PROVE  /\ CacheTyped(Observed(c, K, old, t)) /\ CacheTyped(Observed(NoEntries, K, old, t))
           /\ CacheTyped(Reset(c, K, t)) /\ CacheTyped(Invalidated(c, K, query, t))
           /\ \A k \in DOMAIN c : \A e : EntryTyped(k, e) => CacheTyped([c EXCEPT ![k] = e])
<1>1. ASSUME NEW k \in Key
      PROVE  EntryTyped(k, Fetching(NoData, t))
  <2>1. EntryTyped(k, NoData)
    BY DEF EntryTyped, Entry, NoData, Idle, Fetch
  <2> QED
    BY <2>1, EntryTypes
<1>2. ASSUME NEW k \in DOMAIN c
      PROVE  /\ k \in Key /\ EntryTyped(k, c[k]) /\ EntryTyped(k, Polled(c[k], t))
             /\ EntryTyped(k, [c[k] EXCEPT !.invalid = TRUE])
             /\ EntryTyped(k, Refetched([c[k] EXCEPT !.invalid = TRUE], t))
  <2>1. k \in Key /\ EntryTyped(k, c[k])
    BY DEF CacheTyped
  <2>2. EntryTyped(k, [c[k] EXCEPT !.invalid = TRUE])
    BY <2>1, EntryTypes
  <2> QED
    BY <2>1, <2>2, EntryTypes
<1>3. CacheTyped(Observed(c, K, old, t))
  BY <1>1, <1>2 DEF CacheTyped, Observed
<1>4. CacheTyped(Observed(NoEntries, K, old, t))
  BY <1>1 DEF CacheTyped, Observed, NoEntries
<1>5. CacheTyped(Reset(c, K, t))
  BY <1>1 DEF CacheTyped, Reset
<1>6. CacheTyped(Invalidated(c, K, query, t))
  BY <1>2 DEF CacheTyped, Invalidated
<1>7. \A k \in DOMAIN c : \A e : EntryTyped(k, e) => CacheTyped([c EXCEPT ![k] = e])
  BY DEF CacheTyped
<1> QED
  BY <1>3, <1>4, <1>5, <1>6, <1>7

LEMMA KeysTyped ==
    ASSUME NEW u \in Screen
    PROVE  KeysOf(u) \subseteq Key
<1>1. u.view \in Views /\ u.page \in Nat \ {0} /\ u.filter \in DocStatus \cup {AnyStatus}
  BY DEF Screen
<1>2. \A q \in Queries : <<q, u.page, u.filter>> \in Key /\ <<q, 1, AnyStatus>> \in Key
  BY <1>1 DEF Key
<1>3. {"stats", "recent", "webhooks", "rules", "executions", "replays"} = Queries
  BY DEF Queries, Views
<1> QED
  BY <1>1, <1>2, <1>3
     DEF KeysOf, DashboardKeys, WebhooksKey, RulesKey, ExecutionsKey, ReplaysKey

\* A view that is shown, and its cache, keep their types.
LEMMA PresentTyped ==
    ASSUME NEW u \in Screen, NEW c, CacheTyped(c), Present(u, c), stored' \in Tenants,
           meddled' \in BOOLEAN
    PROVE  PageTyped'
<1>1. cache' = c /\ \E b \in BOOLEAN : ui' = [u EXCEPT !.blank = b]
  <2> DEFINE b == u.blank \/ /\ u.view = "executions"
                             /\ \E k \in KeysOf(u) : \E row \in ExecutionRows(c, k) : Unreadable(row)
  <2>1. cache' = c /\ ui' = [u EXCEPT !.blank = b]
    BY DEF Present
  <2>2. b \in BOOLEAN
    BY DEF Screen
  <2> HIDE DEF b
  <2> QED
    BY <2>1, <2>2
<1>2. ui' \in Screen
  BY <1>1 DEF Screen
<1> QED
  BY <1>1, <1>2 DEF PageTyped

LEMMA ReadTyped ==
    ASSUME db \in Tables, NEW k, NEW f \in Fetch
    PROVE  ReadNext(k, f) \subseteq Doc
<1>1. \A c \in Collections : \A t : OfTenant(c, t) \subseteq Doc
  BY DEF OfTenant, Tables
<1>2. \A S, page : PageOf(S, page) \subseteq S
  BY DEF PageOf
<1>3. \A t, filter : /\ FindRules(t, filter) \subseteq OfTenant("rules", t)
                     /\ FindWebhooks(t, filter) \subseteq OfTenant("webhooks", t)
                     /\ FindReplays(t, filter) \subseteq OfTenant("replays", t)
                     /\ FindExecutions(t, filter) \subseteq OfTenant("executions", t)
  BY DEF FindRules, FindWebhooks, FindReplays, FindExecutions
<1>4. {"rules", "webhooks", "replays", "executions"} \subseteq Collections
  BY DEF Collections
<1>5. f.rows \subseteq Doc
  BY DEF Fetch
<1>6. ASSUME NEW d \in Populated(f.rows)
      PROVE  d \in Doc
  <2>1. PICK x \in f.rows : d = [x EXCEPT !.ref = IF @ \in Ids(db) THEN @ ELSE 0,
                                        !.event = IF @ \in Ids(db) THEN @ ELSE 0]
    BY <1>6 DEF Populated
  <2> DEFINE ref == IF x.ref \in Ids(db) THEN x.ref ELSE 0
             event == IF x.event \in Ids(db) THEN x.event ELSE 0
  <2>2. x \in Doc /\ ref \in Nat /\ event \in Nat
    BY <1>5 DEF Doc
  <2>3. d = [x EXCEPT !.ref = ref, !.event = event]
    BY <2>1
  <2> HIDE DEF ref, event
  <2> QED
    BY <2>2, <2>3, DocTypes
<1>7. \A t, at : Stats(t, at) \subseteq Doc
  BY <1>1, <1>4 DEF Stats
<1> QED
  BY <1>1, <1>2, <1>3, <1>4, <1>5, <1>6, <1>7 DEF ReadNext

LEMMA UserKeepsPage ==
    ASSUME TypesInv, ScreenInv, UserStep
    PROVE  PageTyped'
<1>0. /\ stored \in Tenants /\ ui \in Screen /\ CacheTyped(cache) /\ meddled \in BOOLEAN
      /\ ui.tenant \in Tenants /\ ui.view \in Views /\ ui.page \in Nat \ {0}
      /\ ui.filter \in DocStatus \cup {AnyStatus}
  BY DEF TypesInv, PageTyped, Screen
<1>1. \A t \in Tenants, view \in Views : Fresh(t, view) \in Screen
  BY DEF Fresh, Screen
<1>2. ASSUME NEW view \in scene.views, NEW old, Navigate(view, old)
      PROVE  PageTyped'
  <2>1. view \in Views
    BY DEF TypesInv, ApiTypeOK, Scenario
  <2> DEFINE u == Fresh(ui.tenant, view)
  <2>2. Present(u, Observed(cache, KeysOf(u), old, stored)) /\ UNCHANGED <<stored, meddled>>
    BY <1>2 DEF Navigate
  <2>3. u \in Screen
    BY <1>0, <1>1, <2>1
  <2> HIDE DEF u
  <2> QED
    BY <1>0, <2>2, <2>3, KeysTyped, CacheTypes, PresentTyped
<1>3. ASSUME NEW t \in Tenants, SwitchTenant(t)
      PROVE  PageTyped'
  <2> DEFINE u == [ui EXCEPT !.tenant = t]
  <2>1. Present(u, Reset(cache, KeysOf(ui), t)) /\ stored' = t /\ UNCHANGED meddled
    BY <1>3 DEF SwitchTenant
  <2>2. u \in Screen
    BY <1>0 DEF Screen
  <2> HIDE DEF u
  <2> QED
    BY <1>0, <2>1, <2>2, KeysTyped, CacheTypes, PresentTyped
<1>4. ASSUME NEW t \in Tenants, OtherTab(t)
      PROVE  PageTyped'
  BY <1>0, <1>4 DEF OtherTab, PageTyped
<1>5. ASSUME NEW page \in Nat \ {0}, NEW filter \in DocStatus \cup {AnyStatus}, NEW old,
             TurnTo(page, filter, old)
      PROVE  PageTyped'
  <2> DEFINE u == [ui EXCEPT !.page = page, !.filter = filter]
  <2>1. Present(u, Observed(cache, KeysOf(u), old, stored)) /\ UNCHANGED <<stored, meddled>>
    BY <1>5 DEF TurnTo
  <2>2. u \in Screen
    BY <1>0 DEF Screen
  <2> HIDE DEF u
  <2> QED
    BY <1>0, <2>1, <2>2, KeysTyped, CacheTypes, PresentTyped
<1>6. ASSUME NEW old, TurnPage(old) \/ \E filter \in DocStatus \cup {AnyStatus} : SelectFilter(filter, old)
      PROVE  PageTyped'
  <2>1. CASE TurnPage(old)
    <3>1. \E page \in Nat \ {0} : TurnTo(page, ui.filter, old)
      BY <1>0, <2>1 DEF TurnPage
    <3> QED
      BY <1>0, <1>5, <3>1
  <2>2. CASE \E filter \in DocStatus \cup {AnyStatus} : SelectFilter(filter, old)
    BY <1>5, <2>2 DEF SelectFilter
  <2> QED
    BY <1>6, <2>1, <2>2
<1>7. ASSUME NEW k \in OnScreen, Refresh(k)
      PROVE  PageTyped'
  <2>1. Present(ui, [cache EXCEPT ![k] = Refetched(cache[k], stored)])
        /\ UNCHANGED <<stored, meddled>>
    BY <1>7 DEF Refresh
  <2>2. k \in DOMAIN cache
    BY DEF ScreenInv, AllListed
  <2>3. EntryTyped(k, Refetched(cache[k], stored))
    BY <1>0, <2>2, EntryTypes DEF CacheTyped
  <2> QED
    BY <1>0, <2>1, <2>2, <2>3, CacheTypes, PresentTyped
<1>8. CASE Reload
  <2> DEFINE u == Fresh(stored, ui.view)
  <2>1. Present(u, Observed(NoEntries, KeysOf(u), {}, stored)) /\ UNCHANGED stored
        /\ meddled' = FALSE
    BY <1>8 DEF Reload
  <2>2. u \in Screen
    BY <1>0, <1>1
  <2> HIDE DEF u
  <2> QED
    BY <1>0, <2>1, <2>2, KeysTyped, CacheTypes, PresentTyped
<1>9. CASE \/ OpenForm \/ FillForm \/ AddAct \/ CancelForm \/ Submit
           \/ \E i \in 1..Len(form.orders) : RemoveAct(i)
  <2>1. UNCHANGED <<stored, ui, cache, meddled>>
    BY <1>9 DEF OpenForm, FillForm, AddAct, CancelForm, Submit, RemoveAct, EditForm
  <2> QED
    BY <1>0, <2>1 DEF PageTyped
<1>10. ASSUME NEW d \in db["executions"], ClickReplay(d.id)
       PROVE  PageTyped'
  <2>1. ui' = [ui EXCEPT !.replaying = d.id] /\ UNCHANGED <<stored, cache, meddled>>
    BY <1>10 DEF ClickReplay
  <2>2. d.id \in Nat
    BY DEF TypesInv, ApiTypeOK, Collections, Doc
  <2>3. ui' \in Screen
    BY <1>0, <2>1, <2>2 DEF Screen
  <2> QED
    BY <1>0, <2>1, <2>3 DEF PageTyped
<1> QED
  BY <1>2, <1>3, <1>4, <1>6, <1>7, <1>8, <1>9, <1>10 DEF UserStep

LEMMA NetworkKeepsPage ==
    ASSUME TypesInv, ScreenInv, NEW k \in DOMAIN cache, FetchStep(k) \/ LoseAnswer(k) \/ Poll(k)
    PROVE  PageTyped'
<1>0. /\ stored \in Tenants /\ ui \in Screen /\ CacheTyped(cache) /\ meddled \in BOOLEAN
      /\ k \in Key /\ EntryTyped(k, cache[k]) /\ lastId \in Nat /\ db \in Tables
  BY DEF TypesInv, PageTyped, CacheTyped, ApiTypeOK, Tables
<1>1. ASSUME NEW e, EntryTyped(k, e), UNCHANGED <<stored, meddled>>,
             \/ cache' = [cache EXCEPT ![k] = e] /\ UNCHANGED ui
             \/ Present(ui, [cache EXCEPT ![k] = e])
      PROVE  PageTyped'
  <2>1. CacheTyped([cache EXCEPT ![k] = e])
    BY <1>0, <1>1, KeysTyped, CacheTypes
  <2> QED
    BY <1>0, <1>1, <2>1, PresentTyped DEF PageTyped
<1> DEFINE f == cache[k].fetch
<1>2. cache[k] \in Entry /\ f \in Fetch /\ (f.phase = "reading" => f.at < Awaits[k[1]])
  BY <1>0 DEF EntryTyped, Entry
<1>3. ASSUME NEW g \in Fetch, g.phase = "reading" => g.at < Awaits[k[1]]
      PROVE  EntryTyped(k, [cache[k] EXCEPT !.fetch = g])
  <2> HIDE DEF f
  <2> QED
    BY <1>2, <1>3 DEF EntryTyped, Entry
<1>4. [f EXCEPT !.phase = "failed"] \in Fetch /\ [f EXCEPT !.phase = "failed"].phase = "failed"
  <2> HIDE DEF f
  <2> QED
    BY <1>2 DEF Fetch
<1>5. CASE Answer(k)
  <2> DEFINE last == f.at + 1 = Awaits[k[1]]
             rows == ReadNext(k, f)
             asOf == IF f.at = 0 THEN lastId ELSE f.asOf
             phase == IF last THEN "read" ELSE "reading"
             read == [f EXCEPT !.at = @ + 1, !.rows = rows, !.asOf = asOf, !.phase = phase]
             g == IF f.at = 0 /\ ~Admits(f.tenant) THEN [f EXCEPT !.phase = "failed"] ELSE read
  <2>1. /\ f.phase = "reading" /\ cache' = [cache EXCEPT ![k].fetch = g]
        /\ UNCHANGED <<stored, ui, meddled>>
    BY <1>5 DEF Answer
  <2>2. Awaits[k[1]] \in 1..3
    <3>1. k[1] \in Queries
      BY <1>0 DEF Key
    <3> QED
      BY <3>1 DEF Queries, Views, Awaits
  <2>3. rows \in SUBSET Doc /\ asOf \in Nat
    <3>1. rows \in SUBSET Doc
      BY <1>0, <1>2, ReadTyped
    <3>2. f.asOf \in Nat
      <4> HIDE DEF f
      <4> QED
        BY <1>2 DEF Fetch
    <3> QED
      BY <1>0, <3>1, <3>2
  <2>4. /\ f.at \in 0..3 /\ f.at < Awaits[k[1]]
    <3> HIDE DEF f
    <3> QED
      BY <1>2, <2>1 DEF Fetch
  <2>5. /\ f.at + 1 \in 0..3 /\ phase \in {"read", "reading"}
        /\ phase = "reading" => f.at + 1 < Awaits[k[1]]
    <3> HIDE DEF f
    <3> QED
      BY <2>2, <2>4
  <2> HIDE DEF f, rows, asOf, phase
  <2>6. read \in Fetch /\ read.phase = phase /\ read.at = f.at + 1
    BY <1>2, <2>3, <2>5 DEF Fetch
  <2> HIDE DEF read
  <2>7. g \in Fetch /\ (g.phase = "reading" => g.at < Awaits[k[1]])
    BY <1>4, <2>5, <2>6
  <2> HIDE DEF g
  <2>8. cache' = [cache EXCEPT ![k] = [cache[k] EXCEPT !.fetch = g]]
    BY <2>1
  <2> QED
    BY <1>1, <1>3, <2>1, <2>7, <2>8
<1>6. CASE LoseAnswer(k)
  <2>1. /\ cache' = [cache EXCEPT ![k] = [cache[k] EXCEPT !.fetch = [f EXCEPT !.phase = "failed"]]]
        /\ UNCHANGED <<stored, ui, meddled>>
    BY <1>6 DEF LoseAnswer
  <2> HIDE DEF f
  <2>2. EntryTyped(k, [cache[k] EXCEPT !.fetch = [f EXCEPT !.phase = "failed"]])
    BY <1>3, <1>4
  <2> QED
    BY <1>1, <2>1, <2>2
<1>7. CASE Deliver(k)
  <2> DEFINE e == IF f.phase = "read" THEN Loaded(cache[k])
                  ELSE Failed(cache[k], k \in OnScreen, stored)
  <2>1. Present(ui, [cache EXCEPT ![k] = e]) /\ UNCHANGED <<stored, meddled>>
    BY <1>7 DEF Deliver
  <2>2. EntryTyped(k, e)
    BY <1>0, EntryTypes
  <2> HIDE DEF e
  <2> QED
    BY <1>1, <2>1, <2>2
<1>8. CASE Poll(k)
  <2>1. Present(ui, [cache EXCEPT ![k] = Polled(cache[k], stored)])
        /\ UNCHANGED <<stored, meddled>>
    BY <1>8 DEF Poll
  <2>2. EntryTyped(k, Polled(cache[k], stored))
    BY <1>0, EntryTypes
  <2> QED
    BY <1>1, <2>1, <2>2
<1> QED
  BY <1>5, <1>6, <1>7, <1>8 DEF FetchStep

LEMMA PostsKeepPage ==
    ASSUME TypesInv, NEW p, PostStep(p) \/ LosePost(p)
    PROVE  PageTyped'
<1>0. /\ stored \in Tenants /\ ui \in Screen /\ CacheTyped(cache) /\ meddled \in BOOLEAN
      /\ OnScreen \in SUBSET Key
  BY KeysTyped DEF TypesInv, PageTyped, OnScreen
<1>1. \A query, c : CacheTyped(c) => CacheTyped(Invalidated(c, OnScreen, query, stored))
  <2> SUFFICES ASSUME NEW query, NEW c, CacheTyped(c)
               PROVE  CacheTyped(Invalidated(c, OnScreen, query, stored))
    OBVIOUS
  <2> HIDE DEF OnScreen
  <2> QED
    BY <1>0, CacheTypes
<1>2. [ui EXCEPT !.replaying = 0] \in Screen
  BY <1>0 DEF Screen
<1>3. CASE CreateRule(p) \/ CheckReplay(p) \/ LogReplay(p) \/ CarryOutReplay(p) \/ LosePost(p)
  <2>1. UNCHANGED <<stored, ui, cache, meddled>>
    BY <1>3 DEF CreateRule, CheckReplay, LogReplay, CarryOutReplay, LosePost, Serving, pageVars
  <2> QED
    BY <1>0, <2>1 DEF PageTyped
<1>4. CASE RuleCreated(p)
  <2>1. UNCHANGED <<stored, meddled>>
    BY <1>4 DEF RuleCreated, pageVars
  <2>2. CASE p.from = "gone"
    BY <1>0, <1>4, <2>1, <2>2 DEF RuleCreated, pageVars, PageTyped
  <2>3. CASE p.from # "gone"
    <3>1. Present(ui, Invalidated(cache, OnScreen, "rules", stored))
      BY <1>4, <2>3 DEF RuleCreated
    <3>2. CacheTyped(Invalidated(cache, OnScreen, "rules", stored))
      BY <1>0, <1>1
    <3> QED
      BY <1>0, <2>1, <3>1, <3>2, PresentTyped
  <2> QED
    BY <2>2, <2>3
<1>5. CASE ReplayAccepted(p)
  <2>1. UNCHANGED <<stored, meddled>>
    BY <1>5 DEF ReplayAccepted, pageVars
  <2>2. CASE p.from = "gone"
    BY <1>0, <1>5, <2>1, <2>2 DEF ReplayAccepted, pageVars, PageTyped
  <2>3. CASE p.from # "gone"
    <3> DEFINE c1 == Invalidated(cache, OnScreen, "executions", stored)
               c2 == Invalidated(c1, OnScreen, "replays", stored)
               c3 == Invalidated(c2, OnScreen, "stats", stored)
               u == IF p.from = "view" THEN [ui EXCEPT !.replaying = 0] ELSE ui
    <3>1. Present(u, c3)
      BY <1>5, <2>3 DEF ReplayAccepted
    <3>2. u \in Screen
      BY <1>0, <1>2
    <3>3. CacheTyped(c3)
      BY <1>0, <1>1
    <3> HIDE DEF c3, u
    <3> QED
      BY <1>0, <2>1, <3>1, <3>2, <3>3, PresentTyped
  <2> QED
    BY <2>2, <2>3
<1>6. CASE PostRefused(p)
  BY <1>0, <1>2, <1>6 DEF PostRefused, PageTyped
<1> QED
  BY <1>3, <1>4, <1>5, <1>6 DEF PostStep

\* The actions of the form are numbered, so typed; the rest of it is what the
\* user filled in.
LEMMA FormTyped ==
    ASSUME TypesInv, FormInv', Use
    PROVE  form' \in Draft
<1>0. /\ form \in Draft
      /\ \A f \in Draft : f.open \in BOOLEAN /\ f.named \in BOOLEAN
  BY DEF TypesInv, Draft
<1>1. /\ DOMAIN form' = {"open", "named", "orders", "draft"}
      /\ form'.orders \in Seq(Nat) /\ form'.draft \in Nat
  BY DEF FormInv, OrdersInv, Numbered
<1>2. \/ form' = form
      \/ \E draft : form' = EmptyForm(draft)
      \/ form' = [form EXCEPT !.open = TRUE]
      \/ form' = [form EXCEPT !.named = TRUE]
      \/ \E orders : form' = [form EXCEPT !.orders = orders]
  <2>1. CASE UserStep
    <3>1. CASE AddAct \/ \E i \in 1..Len(form.orders) : RemoveAct(i)
      <4>1. \E orders : form' = [form EXCEPT !.orders = orders]
        BY <3>1 DEF AddAct, RemoveAct, EditForm
      <4> QED
        BY <4>1
    <3>2. CASE ~(AddAct \/ \E i \in 1..Len(form.orders) : RemoveAct(i))
      BY <2>1, <3>2 DEF UserStep, Navigate, SwitchTenant, OtherTab, TurnPage, SelectFilter, TurnTo,
            Refresh, Reload, OpenForm, FillForm, CancelForm, Submit, EditForm, ClickReplay
    <3> QED
      BY <3>1, <3>2
  <2>2. ASSUME NEW k, FetchStep(k) \/ LoseAnswer(k) \/ Poll(k)
        PROVE  form' = form
    BY <2>2 DEF FetchStep, Answer, Deliver, LoseAnswer, Poll
  <2>3. ASSUME NEW p, PostStep(p) \/ LosePost(p)
        PROVE  form' = form \/ \E draft : form' = EmptyForm(draft)
    BY <2>3 DEF PostStep, CreateRule, CheckReplay, LogReplay, CarryOutReplay, LosePost,
       RuleCreated, ReplayAccepted, PostRefused, Serving, pageVars
  <2> QED
    BY <2>1, <2>2, <2>3 DEF Use, ConsoleNext
<1>3. form'.open \in BOOLEAN /\ form'.named \in BOOLEAN
  <2>1. CASE form' = form
    BY <1>0, <2>1
  <2>2. CASE \E draft : form' = EmptyForm(draft)
    BY <2>2 DEF EmptyForm
  <2>3. CASE form' = [form EXCEPT !.open = TRUE] \/ form' = [form EXCEPT !.named = TRUE]
    BY <1>0, <2>3 DEF Draft
  <2>4. CASE \E orders : form' = [form EXCEPT !.orders = orders]
    BY <1>0, <2>4 DEF Draft
  <2> QED
    BY <1>2, <2>1, <2>2, <2>3, <2>4
<1>4. \/ form' = form
      \/ \E open, named, orders, draft :
            form' = [open |-> open, named |-> named, orders |-> orders, draft |-> draft]
  <2>1. form = [open |-> form.open, named |-> form.named, orders |-> form.orders,
                draft |-> form.draft]
    BY <1>0 DEF Draft
  <2>2. CASE form' = [form EXCEPT !.open = TRUE]
    <3>1. form' = [open |-> TRUE, named |-> form.named, orders |-> form.orders,
                   draft |-> form.draft]
      BY <2>1, <2>2
    <3> QED
      BY <3>1
  <2>3. CASE form' = [form EXCEPT !.named = TRUE]
    <3>1. form' = [open |-> form.open, named |-> TRUE, orders |-> form.orders,
                   draft |-> form.draft]
      BY <2>1, <2>3
    <3> QED
      BY <3>1
  <2>4. ASSUME NEW orders, form' = [form EXCEPT !.orders = orders]
        PROVE  form' = [open |-> form.open, named |-> form.named, orders |-> orders,
                        draft |-> form.draft]
    BY <2>1, <2>4
  <2>5. ASSUME NEW draft, form' = EmptyForm(draft)
        PROVE  form' = [open |-> FALSE, named |-> FALSE, orders |-> <<>>, draft |-> draft]
    BY <2>5 DEF EmptyForm
  <2> QED
    BY <1>2, <2>2, <2>3, <2>4, <2>5
<1> QED
  BY <1>0, <1>1, <1>3, <1>4 DEF Draft

\* The requests keep their types, and so do the drafts answered with an error.
LEMMA PostsStayTyped ==
    ASSUME TypesInv, Use
    PROVE  PostsTyped'
<1>0. /\ posts \subseteq Post /\ unsure \subseteq Nat /\ lastId \in Nat /\ stored \in Tenants
      /\ form \in Draft /\ form.draft \in Nat /\ form.orders \in Seq(Nat)
      /\ \A c \in Collections : db[c] \subseteq Doc
  BY DEF TypesInv, PostsTyped, PageTyped, ApiTypeOK, Draft
<1>1. UNCHANGED <<posts, unsure>> => PostsTyped'
  BY <1>0 DEF PostsTyped
<1>2. ASSUME NEW from \in {"away", "gone"}, Leave(from), UNCHANGED unsure
      PROVE  PostsTyped'
  <2>1. ASSUME NEW q \in posts'
        PROVE  q \in Post
    <3>1. PICK p \in posts : q = [p EXCEPT !.from = IF @ = "gone" THEN @ ELSE from]
      BY <1>2, <2>1 DEF Leave
    <3> DEFINE f == IF p.from = "gone" THEN p.from ELSE from
    <3>2. p \in Post /\ f \in {"view", "away", "gone"} /\ q = [p EXCEPT !.from = f]
      BY <1>0, <3>1
    <3> HIDE DEF f
    <3> QED
      BY <3>2 DEF Post
  <2> QED
    BY <1>0, <1>2, <2>1 DEF PostsTyped
<1>3. ASSUME NEW kind \in {"create", "replay"}, NEW about \in Nat, NEW orders \in Seq(Nat),
             Send(kind, about, orders), UNCHANGED unsure
      PROVE  PostsTyped'
  <2>1. [id |-> lastId + 1, kind |-> kind, tenant |-> stored, stage |-> "sent", about |-> about,
         event |-> 0, orders |-> orders, from |-> "view"] \in Post
    BY <1>0 DEF Post, Stage
  <2> QED
    BY <1>0, <1>3, <2>1 DEF Send, PostsTyped
<1>4. CASE UserStep
  <2>1. CASE Submit
    BY <1>0, <1>3, <2>1 DEF Submit
  <2>2. ASSUME NEW d \in db["executions"], ClickReplay(d.id)
        PROVE  PostsTyped'
    <3>1. d.id \in Nat /\ <<>> \in Seq(Nat)
      BY <1>0 DEF Doc, Collections
    <3> QED
      BY <1>3, <2>2, <3>1 DEF ClickReplay
  <2>3. CASE Reload \/ \E view, old : Navigate(view, old)
    BY <1>2, <2>3 DEF Reload, Navigate
  <2>4. CASE \/ \E t : SwitchTenant(t) \/ OtherTab(t)
             \/ \E old : TurnPage(old) \/ \E filter : SelectFilter(filter, old)
             \/ \E k : Refresh(k)
             \/ OpenForm \/ FillForm \/ AddAct \/ CancelForm \/ \E i : RemoveAct(i)
    BY <1>1, <2>4 DEF SwitchTenant, OtherTab, TurnPage, SelectFilter, TurnTo, Refresh, OpenForm,
       FillForm, AddAct, CancelForm, RemoveAct, EditForm
  <2> QED
    BY <1>4, <2>1, <2>2, <2>3, <2>4 DEF UserStep
<1>5. ASSUME NEW k, FetchStep(k) \/ LoseAnswer(k) \/ Poll(k)
      PROVE  PostsTyped'
  BY <1>1, <1>5 DEF FetchStep, Answer, Deliver, LoseAnswer, Poll
<1>6. ASSUME NEW p \in posts, PostStep(p) \/ LosePost(p)
      PROVE  PostsTyped'
  <2>0. p \in Post /\ p.about \in Nat
    BY <1>0, <1>6 DEF Post
  <2>1. ASSUME NEW q \in Post, posts' = (posts \ {p}) \cup {q}, unsure' \subseteq Nat
        PROVE  PostsTyped'
    BY <1>0, <2>1 DEF PostsTyped
  <2>2. ASSUME NEW stage \in Stage, Advance(p, stage), unsure' \subseteq Nat
        PROVE  PostsTyped'
    <3>1. [p EXCEPT !.stage = stage] \in Post
      BY <2>0, <2>2 DEF Post
    <3> QED
      BY <2>1, <2>2, <3>1 DEF Advance
  <2>3. {"ok", "error", "logged", "checked"} \subseteq Stage
    BY DEF Stage
  <2>4. CASE CreateRule(p) \/ LogReplay(p) \/ CarryOutReplay(p)
    <3>1. UNCHANGED unsure /\ \E stage \in {"ok", "error", "logged"} : Advance(p, stage)
      BY <2>4 DEF CreateRule, LogReplay, CarryOutReplay
    <3> QED
      BY <1>0, <2>2, <2>3, <3>1
  <2>5. CASE CheckReplay(p)
    <3>1. /\ UNCHANGED unsure
          /\ \/ Advance(p, "error")
             \/ \E x \in OfTenant("executions", p.tenant) :
                   posts' = (posts \ {p}) \cup {[p EXCEPT !.stage = "checked", !.event = x.event]}
      BY <2>5 DEF CheckReplay
    <3>2. \A x \in OfTenant("executions", p.tenant) : x.event \in Nat
      BY <1>0 DEF OfTenant, Doc, Collections
    <3>3. \A n \in Nat : [p EXCEPT !.stage = "checked", !.event = n] \in Post
      BY <2>0, <2>3 DEF Post
    <3> QED
      BY <1>0, <2>1, <2>2, <2>3, <3>1, <3>2, <3>3
  <2>6. CASE LosePost(p)
    <3>1. Advance(p, "error") /\ unsure' \in {unsure, unsure \cup {p.about}}
      BY <2>6 DEF LosePost
    <3> QED
      BY <1>0, <2>0, <2>2, <2>3, <3>1
  <2>7. CASE RuleCreated(p) \/ ReplayAccepted(p) \/ PostRefused(p)
    <3>1. posts' = posts \ {p} /\ UNCHANGED unsure
      BY <2>7 DEF RuleCreated, ReplayAccepted, PostRefused
    <3> QED
      BY <1>0, <3>1 DEF PostsTyped
  <2> QED
    BY <1>6, <2>4, <2>5, <2>6, <2>7 DEF PostStep
<1> QED
  BY <1>4, <1>5, <1>6 DEF Use, ConsoleNext

\* What the console was told of are numbers of documents and keys of its cache.
LEMMA OwnStaysTyped ==
    ASSUME TypesInv, NumbersInv', [Next]_vars
    PROVE  OwnTyped'
<1>1. ASSUME UNCHANGED own PROVE OwnTyped'
  BY <1>1 DEF TypesInv, OwnTyped
<1>2. CASE Others \/ Reseed \/ UNCHANGED vars
  BY <1>1, <1>2 DEF Others, Reseed, vars, consoleVars
<1>3. CASE UserStep
  BY <1>1, <1>3 DEF UserStep, Navigate, SwitchTenant, OtherTab, TurnPage, SelectFilter, TurnTo,
        Refresh, Reload, OpenForm, FillForm, AddAct, CancelForm, Submit, RemoveAct, EditForm,
        ClickReplay
<1>4. CASE \E k : FetchStep(k) \/ LoseAnswer(k) \/ Poll(k)
  BY <1>1, <1>4 DEF FetchStep, Answer, Deliver, LoseAnswer, Poll
<1>5. ASSUME NEW p \in posts, PostStep(p) \/ LosePost(p)
      PROVE  OwnTyped'
  <2>1. CASE RuleCreated(p)
    <3>1. \A r \in own' : r \in own \/ \E i : r = [id |-> i, spared |-> Spared]
      BY <2>1 DEF RuleCreated
    <3>2. Spared \in SUBSET Key
      BY DEF Spared, TypesInv, PageTyped, CacheTyped
    <3>3. \A i : [id |-> i, spared |-> Spared].id = i
      OBVIOUS
    <3>4. \A r \in own' : r.id \in Nat
      BY DEF NumbersInv
    <3> QED
      BY <3>1, <3>2, <3>3, <3>4 DEF TypesInv, OwnTyped
  <2>2. CASE ~RuleCreated(p)
    BY <1>1, <1>5, <2>2 DEF PostStep, CreateRule, CheckReplay, LogReplay, CarryOutReplay, LosePost,
          Serving, ReplayAccepted, PostRefused
  <2> QED
    BY <2>1, <2>2
<1> QED
  BY <1>2, <1>3, <1>4, <1>5 DEF Next, Use, ConsoleNext

\* The state stays within its types, for any tenants, sizes and stock.
THEOREM PlatformTyped == Spec => []PlatformTypeOK
<1>1. Init => TypesInv
  <2> SUFFICES ASSUME Init PROVE TypesInv
    OBVIOUS
  <2>1. scene \in Scenario /\ scene.tenant \in Tenants /\ scene.views \subseteq Views
        /\ scene.left \in [Happenings -> Nat]
    BY ApiAssumption DEF Init, ApiInit, Scenario
  <2>2. ApiTypeOK
    <3>1. keys \in [Tenants -> KeyKinds]
      BY DEF Init, ApiInit, WithDefaults, KeyKinds
    <3>2. db \in [Collections -> SUBSET Doc]
      BY ApiAssumption DEF Init, ApiInit
    <3>3. lastId \in Nat
      BY StockIsFinite, FS_CardinalityType DEF Init, ApiInit
    <3>4. left = scene.left
      BY DEF Init, ApiInit
    <3> QED
      BY <2>1, <3>1, <3>2, <3>3, <3>4 DEF ApiTypeOK
  <2>3. PageTyped
    <3>1. /\ stored = scene.tenant /\ meddled = FALSE
          /\ cache = Observed(NoEntries, KeysOf(ui), {}, stored)
      BY DEF Init, ConsoleInit
    <3>2. PICK view \in scene.views : ui = Fresh(stored, view)
      BY DEF Init, ConsoleInit
    <3>3. ui \in Screen
      BY <2>1, <3>1, <3>2 DEF Fresh, Screen
    <3>4. CacheTyped(NoEntries)
      BY DEF CacheTyped, NoEntries
    <3>5. CacheTyped(cache)
      BY <2>1, <3>1, <3>3, <3>4, KeysTyped, CacheTypes
    <3> QED
      BY <2>1, <3>1, <3>3, <3>5 DEF PageTyped
  <2>4. form \in Draft
    <3>1. form = [open |-> FALSE, named |-> FALSE, orders |-> <<>>, draft |-> 1]
      BY DEF Init, ConsoleInit, EmptyForm
    <3>2. <<>> \in Seq(Nat)
      OBVIOUS
    <3> QED
      BY <3>1, <3>2 DEF Draft
  <2>5. PostsTyped /\ OwnTyped
    BY DEF Init, ConsoleInit, PostsTyped, OwnTyped
  <2>6. ScriptTyped
    <3>1. Len(Demo) \in Nat
      BY ApiAssumption
    <3> QED
      BY <3>1 DEF Init, SeedInit, ScriptTyped, Script, SeedPc, CleanupPc
  <2> QED
    BY <2>2, <2>3, <2>4, <2>5, <2>6 DEF TypesInv
<1>2. TypesInv /\ ScreenInv /\ ClosedInv /\ ClosedInv' /\ FormInv' /\ NumbersInv' /\ [Next]_vars
         => TypesInv'
  <2> SUFFICES ASSUME TypesInv, ScreenInv, ClosedInv, ClosedInv', FormInv', NumbersInv', [Next]_vars
               PROVE  TypesInv'
    OBVIOUS
  <2>1. lastId' \in Nat /\ OwnTyped'
    BY OwnStaysTyped DEF ClosedInv, NumberedInv
  <2>2. ApiTypeOK'
    BY <2>1, ApiTyped
  <2>3. ScriptTyped'
    BY ScriptStaysTyped
  <2>4. PageTyped' /\ form' \in Draft /\ PostsTyped'
    <3>1. CASE Use
      <4>1. OnScreen \subseteq DOMAIN cache
        BY DEF ScreenInv, AllListed
      <4>2. PageTyped'
        BY <3>1, <4>1, UserKeepsPage, NetworkKeepsPage, PostsKeepPage DEF Use, ConsoleNext
      <4> QED
        BY <3>1, <4>2, FormTyped, PostsStayTyped
    <3>2. CASE Others \/ Reseed \/ UNCHANGED vars
      <4>1. UNCHANGED consoleVars
        BY <3>2 DEF Others, Reseed, vars
      <4> QED
        BY <4>1 DEF consoleVars, TypesInv, PageTyped, PostsTyped
    <3> QED
      BY <3>1, <3>2 DEF Next
  <2> QED
    BY <2>1, <2>2, <2>3, <2>4 DEF TypesInv
<1>3. TypesInv => PlatformTypeOK
  <2>1. PageTyped /\ form \in Draft /\ PostsTyped /\ OwnTyped => ConsoleTypeOK
    BY DEF OwnTyped, PageTyped, CacheTyped, EntryTyped, Screen, Draft, PostsTyped, ConsoleTypeOK
  <2>2. ScriptTyped => SeedTypeOK
    BY DEF ScriptTyped, Script, SeedTypeOK
  <2> QED
    BY <2>1, <2>2 DEF TypesInv, PlatformTypeOK
<1> QED
  BY <1>1, <1>2, <1>3, ScreenHolds, ClosedHolds, FormInvariant, PTL DEF Spec

=============================================================================
