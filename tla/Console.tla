------------------------------- MODULE Console -------------------------------
(***************************************************************************)
(* The web console in one browser tab: which tenant and view it shows, its *)
(* cache of answers, the form for a new rule, and its requests in flight.  *)
(* A GET is sent, read by the API (one step for each await of the handler) *)
(* and delivered; a POST likewise.  The user, a second tab, the engine and *)
(* other clients may act between any two of these steps.                   *)
(***************************************************************************)
EXTENDS AdminApi, QueryCache

VARIABLES
    stored,  \* the tenantId in localStorage, which the tabs share
    ui,      \* the tenant shown, the view and its state; blank: React gave up
    form,    \* the form for a new rule; draft numbers what is being written
    cache,   \* the query cache
    posts,   \* mutations in flight
    own,     \* history: the rules the console was told it created, and the entries
             \* of the list whose fetch it let go on then
    unsure,  \* drafts whose creation was answered with an error
    meddled  \* since it was loaded, the tab's tenantId was changed by another

pageVars == <<stored, ui, form, cache>>
consoleVars == <<stored, ui, form, cache, posts, own, unsure, meddled>>

Queries == {"stats", "recent"} \cup (Views \ {"dashboard"})

\* Queries with a refetchInterval.
Polling == Queries \ {"rules"}

\* How many awaits the handler of a query has.
Awaits == [stats |-> 3, recent |-> 2, executions |-> 2,
           webhooks |-> 1, rules |-> 1, replays |-> 1]

\* The status filters the views offer.
Options ==
    [dashboard |-> {}, rules |-> {"active", "inactive"},
     webhooks |-> {"pending", "processing", "completed", "failed"},
     executions |-> {"queued", "processing", "completed", "failed", "retrying"},
     replays |-> {"triggered", "completed", "failed"}]

Stage == {"sent", "checked", "logged", "ok", "error"}

\* about: the draft or the execution; event: its webhook, once it was read.
\* from: whether the view that posted it is still mounted, was left, or went
\* with a reload of the page.
Post == [id: Nat, kind: {"create", "replay"}, tenant: Tenants, stage: Stage,
         about: Nat, event: Nat, orders: Seq(Nat), from: {"view", "away", "gone"}]

Key == Queries \X (Nat \ {0}) \X (DocStatus \cup {AnyStatus})

Fetch == [phase: {"idle", "reading", "read", "failed"}, at: 0..3, again: BOOLEAN,
          tenant: Tenants \cup {Nobody}, rows: SUBSET Doc, asOf: Nat]

Entry == [loaded: BOOLEAN, rows: SUBSET Doc, asOf: Nat, error: BOOLEAN,
          invalid: BOOLEAN, fetch: Fetch]

ConsoleTypeOK ==
    /\ stored \in Tenants
    /\ ui \in [tenant: Tenants, view: Views, page: Nat \ {0},
               filter: DocStatus \cup {AnyStatus}, replaying: Nat, blank: BOOLEAN]
    /\ form \in [open: BOOLEAN, named: BOOLEAN, orders: Seq(Nat), draft: Nat]
    /\ DOMAIN cache \subseteq Key
    /\ \A k \in DOMAIN cache : cache[k] \in Entry
    /\ posts \subseteq Post
    /\ own \subseteq [id: Nat, spared: SUBSET Key]
    /\ unsure \subseteq Nat
    /\ meddled \in BOOLEAN

\* Mutant: the filter is not part of the query.
KeysOfPage(u) ==
    IF u.blank THEN {}
    ELSE IF u.view = "dashboard" THEN {<<"stats", 1, AnyStatus>>, <<"recent", 1, AnyStatus>>}
    ELSE {<<u.view, u.page, AnyStatus>>}

\* The entries on screen: the keys of the views' useQuery.
DashboardKeys == {<<"stats", 1, AnyStatus>>, <<"recent", 1, AnyStatus>>}

WebhooksKey(u) == <<"webhooks", u.page, u.filter>>

RulesKey(u) == <<"rules", u.page, u.filter>>

ExecutionsKey(u) == <<"executions", u.page, u.filter>>

ReplaysKey(u) == <<"replays", u.page, u.filter>>

KeysOf(u) ==
    IF u.blank THEN {}
    ELSE CASE u.view = "dashboard" -> DashboardKeys
           [] u.view = "webhooks" -> {WebhooksKey(u)}
           [] u.view = "rules" -> {RulesKey(u)}
           [] u.view = "executions" -> {ExecutionsKey(u)}
           [] OTHER -> {ReplaysKey(u)}

OnScreen == KeysOf(ui)

EmptyForm(draft) == [open |-> FALSE, named |-> FALSE, orders |-> <<>>, draft |-> draft]

NoEntries == [k \in {} |-> NoData]

\* A view as it is mounted.
Fresh(t, view) == [tenant |-> t, view |-> view, page |-> 1, filter |-> AnyStatus,
                   replaying |-> 0, blank |-> FALSE]

ConsoleInit ==
    /\ stored = scene.tenant
    /\ \E view \in scene.views : ui = Fresh(stored, view)
    /\ form = EmptyForm(1)
    /\ cache = Observed(NoEntries, KeysOf(ui), {}, stored)
    /\ posts = {}
    /\ own = {} /\ unsure = {}
    /\ meddled = FALSE

-----------------------------------------------------------------------------
(* What is on screen *)

\* The rows each view shows for its entry.  After an error the lists hide what
\* they have, but for RulesView; the dashboard is replaced by an error page when
\* its statistics fail, and does not look at the error of its table.
ExecutionRows(c, k) == IF c[k].error THEN {} ELSE c[k].rows

WebhookRows(c, k) == IF c[k].error THEN {} ELSE c[k].rows

ReplayRows(c, k) == IF c[k].error THEN {} ELSE c[k].rows

RuleRows(c, k) == c[k].rows

StatsRows(c, k) == IF c[k].error THEN {} ELSE c[k].rows

RecentRows(c, k) == IF c[<<"stats", 1, AnyStatus>>].error THEN {} ELSE c[k].rows

RowsShown(c, k) ==
    CASE k[1] = "executions" -> ExecutionRows(c, k)
      [] k[1] = "webhooks" -> WebhookRows(c, k)
      [] k[1] = "replays" -> ReplayRows(c, k)
      [] k[1] = "rules" -> RuleRows(c, k)
      [] k[1] = "stats" -> StatsRows(c, k)
      [] OTHER -> RecentRows(c, k)

\* ExecutionCard takes null for a populated rule or webhook, as typeof does, and
\* reads a field of it.
Unreadable(row) == row.ref = 0 \/ row.event = 0

\* Nothing catches what a component throws: React unmounts the tree.
Present(u, c) ==
    /\ ui' = [u EXCEPT !.blank = @ \/
                 /\ u.view = "executions"
                 /\ \E k \in KeysOf(u) : \E row \in ExecutionRows(c, k) : Unreadable(row)]
    /\ cache' = c

-----------------------------------------------------------------------------
(* The user *)

\* A view is left: its component, and the observers of its mutations, are gone.
Leave(from) == posts' = {[p EXCEPT !.from = IF @ = "gone" THEN @ ELSE from] : p \in posts}

\* A route: MainLayout's key has the view mounted anew.
Navigate(view, old) ==
    /\ Happen("navigate")
    /\ ~ui.blank /\ view # ui.view
    /\ LET u == Fresh(ui.tenant, view)
       IN Present(u, Observed(cache, KeysOf(u), old, stored))
    /\ Leave("away")
    /\ form' = EmptyForm(form.draft + 1)
    /\ UNCHANGED <<keys, db, lastId, stored, own, unsure, meddled>>

\* handleChange
SwitchTenant(t) ==
    /\ Happen("switch")
    /\ ~ui.blank /\ t # ui.tenant
    /\ stored' = t
    /\ Present([ui EXCEPT !.tenant = t], Reset(cache, KeysOf(ui), t))
    /\ UNCHANGED <<keys, db, lastId, form, posts, own, unsure, meddled>>

\* setPage and setStatus
TurnTo(page, filter, old) ==
    /\ Happen("turn")
    /\ LET u == [ui EXCEPT !.page = page, !.filter = filter]
       IN Present(u, Observed(cache, KeysOf(u), old, stored))
    /\ UNCHANGED <<keys, db, lastId, stored, form, posts, own, unsure, meddled>>

\* Mutant: Prev is not disabled on the first page.
TurnPageBelow(old) ==
    /\ ~ui.blank /\ ui.view # "dashboard"
    /\ \A k \in OnScreen : ui.view = "webhooks" => ~cache[k].error
    /\ \/ TurnTo(IF ui.page = 0 THEN 0 ELSE ui.page - 1, ui.filter, old)
       \/ /\ \A k \in OnScreen : Cardinality(cache[k].rows) = Limit
          /\ TurnTo(ui.page + 1, ui.filter, old)

\* Pagination: a full page may have a next one.  WebhooksView hides it in error.
TurnPage(old) ==
    /\ ~ui.blank /\ ui.view # "dashboard"
    /\ \A k \in OnScreen : ui.view = "webhooks" => ~cache[k].error
    /\ \/ ui.page > 1 /\ TurnTo(ui.page - 1, ui.filter, old)
       \/ /\ \A k \in OnScreen : Cardinality(cache[k].rows) = Limit
          /\ TurnTo(ui.page + 1, ui.filter, old)

SelectFilter(filter, old) ==
    /\ ~ui.blank
    /\ filter \in Options[ui.view] \cup {AnyStatus} /\ filter # ui.filter
    /\ TurnTo(1, filter, old)

\* The Retry button of an error, and the dashboard's Refresh: stats only.
Refresh(k) ==
    /\ Happen("refetch")
    /\ k \in OnScreen /\ k[1] \notin {"recent", "rules"}
    /\ cache[k].error \/ ui.view = "dashboard"
    /\ Present(ui, [cache EXCEPT ![k] = Refetched(@, stored)])
    /\ UNCHANGED <<keys, db, lastId, stored, form, posts, own, unsure, meddled>>

\* The page is loaded again.
Reload ==
    /\ Happen("reload")
    /\ LET u == Fresh(stored, ui.view)
       IN Present(u, Observed(NoEntries, KeysOf(u), {}, stored))
    /\ Leave("gone")
    /\ form' = EmptyForm(form.draft + 1)
    /\ meddled' = FALSE
    /\ UNCHANGED <<keys, db, lastId, stored, own, unsure>>

\* Another tab of the same browser applies another tenant.
OtherTab(t) ==
    /\ Happen("otherTab")
    /\ t # stored
    /\ stored' = t
    /\ meddled' = TRUE
    /\ UNCHANGED <<keys, db, lastId, ui, form, cache, posts, own, unsure>>

-----------------------------------------------------------------------------
(* The form for a new rule *)

EditForm(f) ==
    /\ ~ui.blank /\ ui.view = "rules"
    /\ form' = f
    /\ UNCHANGED <<keys, db, lastId, stored, ui, cache, posts, own, unsure, meddled>>

OpenForm == ~form.open /\ EditForm([form EXCEPT !.open = TRUE]) /\ UNCHANGED <<scene, left>>

\* Name, source and event type are filled in.
FillForm == form.open /\ ~form.named /\ EditForm([form EXCEPT !.named = TRUE]) /\ UNCHANGED <<scene, left>>

\* addAct: an action's order is the number of actions before it.
AddAct ==
    /\ Happen("edit")
    /\ form.open
    /\ EditForm([form EXCEPT !.orders = Append(@, Len(@))])

Without(s, i) == SubSeq(s, 1, i - 1) \o SubSeq(s, i + 1, Len(s))

\* Mutant: the actions that are left keep their orders.
RemoveActOnly(i) ==
    /\ Happen("edit")
    /\ form.open
    /\ EditForm([form EXCEPT !.orders = Without(@, i)])

\* removeAct numbers the actions that are left anew.
RemoveAct(i) ==
    /\ Happen("edit")
    /\ form.open
    /\ EditForm([form EXCEPT !.orders = [j \in 1..(Len(@) - 1) |-> j - 1]])

\* Cancel and the modal's close button: resetForm.
CancelForm ==
    /\ Happen("edit")
    /\ form.open
    /\ EditForm(EmptyForm(form.draft + 1))

\* createMut.isPending, of the component that is mounted.
Creating == \E p \in posts : p.kind = "create" /\ p.from = "view"

Send(kind, about, orders) ==
    /\ lastId' = lastId + 1
    /\ posts' = posts \cup {[id |-> lastId + 1, kind |-> kind, tenant |-> stored,
                             stage |-> "sent", about |-> about, event |-> 0, orders |-> orders,
                             from |-> "view"]}

\* Mutant: the Save button is not disabled while the mutation is pending.
SubmitAgain ==
    /\ Happen("save")
    /\ ~ui.blank /\ form.open
    /\ form.named /\ form.orders # <<>>
    /\ Send("create", form.draft, form.orders)
    /\ UNCHANGED <<keys, db, stored, ui, form, cache, own, unsure, meddled>>

\* handleSubmit: the form stays as it is until the answer is there.
Submit ==
    /\ Happen("save")
    /\ ~ui.blank /\ form.open /\ ~Creating
    /\ form.named /\ form.orders # <<>>
    /\ Send("create", form.draft, form.orders)
    /\ UNCHANGED <<keys, db, stored, ui, form, cache, own, unsure, meddled>>

\* A failed execution's card has a Replay button, disabled while it is loading.
Replayable(row) == row.status = "failed" /\ ui.replaying # row.id

\* Replay: replayingId is one slot, so only the card clicked last is loading.
ClickReplay(x) ==
    /\ Happen("replay")
    /\ ~ui.blank /\ ui.view = "executions"
    /\ \E k \in OnScreen : \E row \in ExecutionRows(cache, k) : row.id = x /\ Replayable(row)
    /\ Send("replay", x, <<>>)
    /\ ui' = [ui EXCEPT !.replaying = x]
    /\ UNCHANGED <<keys, db, stored, form, cache, own, unsure, meddled>>

-----------------------------------------------------------------------------
(* The network and the API's answers to GETs *)

ReadNext(k, f) ==
    CASE k[1] = "rules" -> PageOf(FindRules(f.tenant, k[3]), k[2])
      [] k[1] = "webhooks" -> PageOf(FindWebhooks(f.tenant, k[3]), k[2])
      [] k[1] = "replays" -> PageOf(FindReplays(f.tenant, k[3]), k[2])
      [] k[1] = "stats" -> f.rows \cup Stats(f.tenant, f.at)
      [] OTHER -> IF f.at = 0 THEN PageOf(FindExecutions(f.tenant, k[3]), k[2])
                  ELSE Populated(f.rows)

\* One await of the handler; the middleware comes before the first.
Answer(k) ==
    LET f == cache[k].fetch
        last == f.at + 1 = Awaits[k[1]]
    IN /\ f.phase = "reading"
       /\ cache' = [cache EXCEPT ![k].fetch =
             IF f.at = 0 /\ ~Admits(f.tenant) THEN [f EXCEPT !.phase = "failed"]
             ELSE [f EXCEPT !.at = @ + 1, !.rows = ReadNext(k, f),
                            !.asOf = IF f.at = 0 THEN lastId ELSE @,
                            !.phase = IF last THEN "read" ELSE "reading"]]
       /\ UNCHANGED <<apiVars, stored, ui, form, posts, own, unsure, meddled>>

\* The request, a database call or the answer is lost.
LoseAnswer(k) ==
    /\ Happen("fault")
    /\ cache[k].fetch.phase \in {"reading", "read"}
    /\ cache' = [cache EXCEPT ![k].fetch.phase = "failed"]
    /\ UNCHANGED <<keys, db, lastId, stored, ui, form, posts, own, unsure, meddled>>

Deliver(k) ==
    /\ cache[k].fetch.phase \in {"read", "failed"}
    /\ Present(ui, [cache EXCEPT ![k] = IF @.fetch.phase = "read" THEN Loaded(@)
                                        ELSE Failed(@, k \in OnScreen, stored)])
    /\ UNCHANGED <<apiVars, stored, form, posts, own, unsure, meddled>>

\* refetchInterval
Poll(k) ==
    /\ k \in OnScreen /\ k[1] \in Polling /\ ~Busy(cache[k])
    /\ Present(ui, [cache EXCEPT ![k] = Polled(@, stored)])
    /\ UNCHANGED <<apiVars, stored, form, posts, own, unsure, meddled>>

-----------------------------------------------------------------------------
(* POST /rules and POST /executions/:id/replay *)

Advance(p, stage) == posts' = (posts \ {p}) \cup {[p EXCEPT !.stage = stage]}

Serving(p) == UNCHANGED <<keys, pageVars, own, meddled>>

\* RulesController.create
CreateRule(p) ==
    /\ p.kind = "create" /\ p.stage = "sent"
    /\ \/ Admits(p.tenant) /\ Insert("rules", RuleDoc(lastId + 1, p.tenant, p.about, p.orders))
          /\ lastId' = lastId + 1 /\ Advance(p, "ok")
       \/ ~Admits(p.tenant) /\ Advance(p, "error") /\ UNCHANGED <<db, lastId>>
    /\ UNCHANGED <<scene, left, unsure>> /\ Serving(p)

\* replayFailedExecution: the execution is one of the tenant's, failed, and its
\* webhook is there.
CheckReplay(p) ==
    /\ p.kind = "replay" /\ p.stage = "sent"
    /\ LET found == {x \in OfTenant("executions", p.tenant) :
                        Admits(p.tenant) /\ x.id = p.about /\ x.status = "failed"
                            /\ x.event \in Ids(db)}
       IN \/ \E x \in found :
                posts' = (posts \ {p}) \cup {[p EXCEPT !.stage = "checked", !.event = x.event]}
          \/ found = {} /\ Advance(p, "error")
    /\ UNCHANGED <<db, lastId, scene, left, unsure>> /\ Serving(p)

\* Its history is saved, whatever has become of the execution.
LogReplay(p) ==
    /\ p.kind = "replay" /\ p.stage = "checked"
    /\ Insert("replays", HistoryDoc(lastId + 1, p.tenant, p.about, p.event))
    /\ lastId' = lastId + 1 /\ Advance(p, "logged")
    /\ UNCHANGED <<scene, left, unsure>> /\ Serving(p)

\* completeExecution, to queued, and the job, of which the console sees nothing.
CarryOutReplay(p) ==
    /\ p.kind = "replay" /\ p.stage = "logged"
    /\ \/ \E x \in OfTenant("executions", p.tenant) :
             x.id = p.about /\ SetStatus("executions", x, "queued") /\ Advance(p, "ok")
       \/ /\ \A x \in OfTenant("executions", p.tenant) : x.id # p.about
          /\ Advance(p, "error") /\ UNCHANGED db
    /\ UNCHANGED <<lastId, scene, left, unsure>> /\ Serving(p)

\* Lost on its way, or answered and the answer lost.
LosePost(p) ==
    /\ Happen("fault")
    /\ p.stage # "error"
    /\ Advance(p, "error")
    /\ unsure' = IF p.kind = "create" /\ p.stage = "ok" THEN unsure \cup {p.about} ELSE unsure
    /\ UNCHANGED <<db, lastId>> /\ Serving(p)

\* The entries of the rules' list whose fetch goes on in spite of
\* invalidateQueries: first loads, and those that are not on screen.
Spared ==
    {k \in DOMAIN cache : /\ k[1] = "rules" /\ Busy(cache[k])
                          /\ ~(k \in OnScreen /\ cache[k].loaded)}

\* onSuccess of createMut: the list, the modal and the form of the component
\* that posted, whatever has been written there since.
RuleCreated(p) ==
    /\ p.kind = "create" /\ p.stage = "ok"
    /\ posts' = posts \ {p}
    /\ IF p.from = "gone" THEN UNCHANGED pageVars
       ELSE /\ Present(ui, Invalidated(cache, OnScreen, "rules", stored))
            /\ form' = IF p.from = "view" THEN EmptyForm(form.draft + 1) ELSE form
            /\ UNCHANGED stored
    /\ own' = IF p.from = "gone" THEN own
              ELSE own \cup {[id |-> d.id, spared |-> Spared] :
                                d \in {d \in db["rules"] : d.ref = p.about}}
    /\ UNCHANGED <<apiVars, unsure, meddled>>

\* onSuccess and onSettled of replayMut.
ReplayAccepted(p) ==
    /\ p.kind = "replay" /\ p.stage = "ok"
    /\ posts' = posts \ {p}
    /\ IF p.from = "gone" THEN UNCHANGED pageVars
       ELSE LET executionsStale == Invalidated(cache, OnScreen, "executions", stored)
                replaysStale == Invalidated(executionsStale, OnScreen, "replays", stored)
            IN /\ Present(IF p.from = "view" THEN [ui EXCEPT !.replaying = 0] ELSE ui,
                          Invalidated(replaysStale, OnScreen, "stats", stored))
               /\ UNCHANGED <<stored, form>>
    /\ UNCHANGED <<apiVars, own, unsure, meddled>>

\* onError: an alert; the form keeps what it holds.
PostRefused(p) ==
    /\ p.stage = "error"
    /\ posts' = posts \ {p}
    /\ ui' = IF p.kind = "replay" /\ p.from = "view" THEN [ui EXCEPT !.replaying = 0] ELSE ui
    /\ UNCHANGED <<apiVars, stored, form, cache, own, unsure, meddled>>

-----------------------------------------------------------------------------
UserStep ==
    \/ \E view \in scene.views : \E old \in SUBSET DOMAIN cache : Navigate(view, old)
    \/ \E t \in Tenants : SwitchTenant(t) \/ OtherTab(t)
    \/ \E old \in SUBSET DOMAIN cache :
          TurnPage(old) \/ \E filter \in DocStatus \cup {AnyStatus} : SelectFilter(filter, old)
    \/ \E k \in OnScreen : Refresh(k)
    \/ Reload
    \/ OpenForm \/ FillForm \/ AddAct \/ CancelForm \/ Submit
    \/ \E i \in 1..Len(form.orders) : RemoveAct(i)
    \/ \E d \in db["executions"] : ClickReplay(d.id)

FetchStep(k) == Answer(k) \/ Deliver(k)

PostStep(p) ==
    \/ CreateRule(p) \/ CheckReplay(p) \/ LogReplay(p) \/ CarryOutReplay(p)
    \/ RuleCreated(p) \/ ReplayAccepted(p) \/ PostRefused(p)

ConsoleNext ==
    \/ UserStep
    \/ \E k \in DOMAIN cache : FetchStep(k) \/ LoseAnswer(k)
    \/ \E k \in OnScreen : Poll(k)
    \/ \E p \in posts : PostStep(p) \/ LosePost(p)

=============================================================================
