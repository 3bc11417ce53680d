------------------------------- MODULE AdminApi -------------------------------
(***************************************************************************)
(* The collections as the API shows them to the console, for several       *)
(* tenants, and what else writes to them: the engine, in the background,   *)
(* and other clients of the API.  The engine is abstracted to its writes,  *)
(* one document at a time; WebhookEngine says when it makes them.          *)
(*                                                                         *)
(* A document's id is the order in which it was created (createdAt).       *)
(***************************************************************************)
EXTENDS Naturals, Sequences, FiniteSets

CONSTANTS
    Tenants,
    Demo,       \* the tenants of the seed script, in order
    Defaults,   \* those the server creates when it starts
    Namesakes,  \* others that have the name of one of Demo's, and so only without it
    Limit,      \* the rows of a page
    AnyStatus,  \* no filter
    Scenarios,  \* at whose console and in which views the user is, and how often
                \* each kind of happening may happen
    Stock       \* Stock[c]: what collection c holds at first

Collections == {"webhooks", "rules", "executions", "replays"}

\* What makes a scenario: moves of the user, faults, and others at work.
Happenings == {"switch", "navigate", "turn", "reload", "refetch", "edit", "save",
               "replay", "otherTab", "fault", "engine", "ruleEdit", "ruleRemoval",
               "seed", "restart"}

EngineStatus == {"pending", "queued", "processing", "retrying", "completed", "failed"}
RuleStatus == {"active", "inactive"}
DocStatus == EngineStatus \cup RuleStatus \cup {"triggered", "success"}

\* ref: the rule of an execution, the execution of a replay, the draft a rule
\* was made from.  event: the webhook of an execution or a replay.  0: none.
Doc == [id: Nat, tenant: Tenants, status: DocStatus, ref: Nat, event: Nat,
        orders: Seq(Nat)]

DemoTenants == {Demo[i] : i \in 1..Len(Demo)}

Views == {"dashboard", "webhooks", "rules", "executions", "replays"}

\* seeded: the seed script has run before.
Scenario == [tenant: Tenants, views: SUBSET Views, seeded: BOOLEAN,
             left: [Happenings -> Nat]]

Ids(collections) == {d.id : d \in UNION {collections[c] : c \in Collections}}

ASSUME ApiAssumption ==
    /\ Demo \in Seq(Tenants)
    /\ Defaults \subseteq DemoTenants
    /\ Namesakes \subseteq Tenants \ DemoTenants
    /\ Limit \in Nat \ {0}
    /\ AnyStatus \notin DocStatus
    /\ Scenarios \subseteq Scenario
    /\ Stock \in [Collections -> SUBSET Doc]
    /\ \A r \in Stock["rules"] : r.ref = 0
    /\ \A c \in Collections : IsFiniteSet(Stock[c])
    /\ Ids(Stock) \subseteq 1..Cardinality(Ids(Stock))

VARIABLES
    keys,    \* tenant -> whose API key its document has, or "absent"
    db,      \* collection -> its documents
    lastId,  \* the ids given out so far
    scene,   \* the scenario
    left     \* what it still has in store

apiVars == <<keys, db, lastId, scene, left>>

\* The key DEFAULT_TENANTS gives a tenant; the seed script's, which the console
\* sends; a key of the tenant's own.
KeyKinds == {"absent", "default", "demo", "own"}

ApiTypeOK ==
    /\ keys \in [Tenants -> KeyKinds]
    /\ db \in [Collections -> SUBSET Doc]
    /\ lastId \in Nat
    /\ scene \in Scenario
    /\ left \in [Happenings -> Nat]

\* onApplicationBootstrap, which TenantRegistry has step by step.
WithDefaults(k) ==
    [t \in Tenants |-> IF t \in Defaults /\ k[t] = "absent" THEN "default" ELSE k[t]]

ApiInit ==
    /\ scene \in Scenarios
    /\ left = scene.left
    /\ keys = WithDefaults([t \in Tenants |->
                 IF t \in DemoTenants THEN IF scene.seeded THEN "demo" ELSE "absent"
                 ELSE IF t \in Namesakes /\ scene.seeded THEN "absent" ELSE "own"])
    /\ db = Stock
    /\ lastId = Cardinality(Ids(Stock))

Happen(kind) ==
    /\ left[kind] > 0
    /\ left' = [left EXCEPT ![kind] = @ - 1]
    /\ UNCHANGED scene

\* TenantMiddleware, for the key the console sends.
Admits(t) == keys[t] = "demo"

-----------------------------------------------------------------------------
(* Reading: find(filters).sort({ createdAt: -1 }).skip().limit() *)

PageOf(found, page) ==
    {d \in found : Cardinality({n \in found : n.id > d.id}) \div Limit = page - 1}

OfTenant(c, t) == {d \in db[c] : d.tenant = t}

Meets(d, filter) == filter \in {AnyStatus, d.status}

FindRules(t, filter) == {d \in OfTenant("rules", t) : Meets(d, filter)}

FindWebhooks(t, filter) == {d \in OfTenant("webhooks", t) : Meets(d, filter)}

FindReplays(t, filter) == {d \in OfTenant("replays", t) : Meets(d, filter)}

FindExecutions(t, filter) == {d \in OfTenant("executions", t) : Meets(d, filter)}

\* populate('ruleId'), populate('webhookEventId'): null for what is not there.
Populated(rows) ==
    {[d EXCEPT !.ref = IF @ \in Ids(db) THEN @ ELSE 0,
               !.event = IF @ \in Ids(db) THEN @ ELSE 0] : d \in rows}

\* getStats counts in three awaited aggregates; a count stands for its documents.
Stats(t, at) ==
    CASE at = 0 -> OfTenant("webhooks", t)
      [] at = 1 -> OfTenant("executions", t)
      [] OTHER  -> OfTenant("rules", t)

-----------------------------------------------------------------------------
(* Writing *)

Insert(c, d) == db' = [db EXCEPT ![c] = @ \cup {d}]

SetStatus(c, d, status) ==
    db' = [db EXCEPT ![c] = (@ \ {d}) \cup {[d EXCEPT !.status = status]}]

RuleDoc(id, t, draft, orders) ==
    [id |-> id, tenant |-> t, status |-> "active", ref |-> draft, event |-> 0,
     orders |-> orders]

HistoryDoc(id, t, execution, event) ==
    [id |-> id, tenant |-> t, status |-> "triggered", ref |-> execution, event |-> event,
     orders |-> <<>>]

EngineMoves ==
    [webhooks |-> ({"pending", "failed"} \X {"processing"})
                  \cup ({"processing"} \X {"completed", "failed"}),
     executions |-> ({"queued", "retrying"} \X {"processing"}) \cup {<<"queued", "failed">>}
                    \cup ({"processing"} \X {"retrying", "completed", "failed"})]

\* The engine writes the status of an execution, or of the event it is about.
EngineWrites ==
    /\ Happen("engine")
    /\ \E c \in DOMAIN EngineMoves : \E d \in db[c], move \in EngineMoves[c] :
          d.status = move[1] /\ SetStatus(c, d, move[2])
    /\ UNCHANGED <<keys, lastId>>

\* A webhook arrives and its job starts an execution for a rule that matches.
EngineStarts ==
    /\ Happen("engine")
    /\ \E r \in db["rules"] :
          /\ r.status = "active"
          /\ LET event == [id |-> lastId + 1, tenant |-> r.tenant, status |-> "processing",
                           ref |-> 0, event |-> 0, orders |-> <<>>]
                 execution == [event EXCEPT !.id = lastId + 2, !.ref = r.id,
                                            !.event = lastId + 1]
             IN db' = [db EXCEPT !["webhooks"] = @ \cup {event},
                                 !["executions"] = @ \cup {execution}]
    /\ lastId' = lastId + 2
    /\ UNCHANGED keys

\* PATCH /rules/:id by another client.
UpdateRule ==
    /\ Happen("ruleEdit")
    /\ \E r \in db["rules"] : \E status \in RuleStatus \ {r.status} :
          SetStatus("rules", r, status)
    /\ UNCHANGED <<keys, lastId>>

\* DELETE /rules/:id: the executions of the rule stay.
RemoveRule ==
    /\ Happen("ruleRemoval")
    /\ \E r \in db["rules"] : db' = [db EXCEPT !["rules"] = @ \ {r}]
    /\ UNCHANGED <<keys, lastId>>

\* The server is started again.
RestartServer ==
    /\ Happen("restart")
    /\ keys' = WithDefaults(keys)
    /\ UNCHANGED <<db, lastId>>

OthersNext == EngineWrites \/ EngineStarts \/ UpdateRule \/ RemoveRule \/ RestartServer

=============================================================================
