------------------------------ MODULE SeedScript ------------------------------
(***************************************************************************)
(* seed.ts: the demo tenants and their documents are deleted, collection   *)
(* by collection, and written anew, while the server and the console may   *)
(* be running.  Each awaited call is a step; any of them may reject, which *)
(* ends the script where it is.                                            *)
(***************************************************************************)
EXTENDS AdminApi

CONSTANTS
    RulesPer,    \* rules of a demo tenant
    PairsPer,    \* its webhooks that match two rules
    SinglesPer,  \* and one
    ReplaysPer,  \* its replays
    Draws,       \* what the draw of the inactive rules, by their place, may be
    StatusMix    \* StatusMix[s]: how many of its executions have status s

EventsPer == PairsPer + SinglesPer
ExecutionsPer == 2 * PairsPer + SinglesPer

ASSUME SeedAssumption ==
    /\ Demo # <<>>
    /\ RulesPer \in Nat /\ RulesPer >= 2
    /\ Draws \subseteq SUBSET (1..RulesPer)
    /\ {PairsPer, SinglesPer, ReplaysPer} \subseteq Nat
    /\ StatusMix \in [EngineStatus -> 0..ExecutionsPer]

VARIABLE seed \* where the script is, and what it has in memory

seedVars == <<seed>>

SeedPc == {"idle", "tenants", "rules", "webhooks", "executions", "replays",
           "create", "addRules", "addWebhooks", "addExecutions", "addReplays",
           "done", "aborted"}

SeedInit ==
    seed = [pc |-> "idle", at |-> 1, since |-> 0, webhooks |-> {}, executions |-> {},
            replays |-> {}]

SeedTypeOK ==
    seed \in [pc: SeedPc, at: 1..(Len(Demo) + 1), since: Nat,
              webhooks: SUBSET Doc, executions: SUBSET Doc, replays: SUBSET Doc]

Seeding == seed.pc \notin {"idle", "done", "aborted"}

\* createApplicationContext runs the application's bootstrap hooks.
StartSeed ==
    /\ Happen("seed")
    /\ ~Seeding
    /\ seed' = [pc |-> "tenants", at |-> 1, since |-> lastId, webhooks |-> {},
                executions |-> {}, replays |-> {}]
    /\ keys' = WithDefaults(keys)
    /\ UNCHANGED <<db, lastId>>

-----------------------------------------------------------------------------
(* Clean up *)

\* By _id or by name; the documents of a namesake stay.
DeleteTenants ==
    /\ seed.pc = "tenants"
    /\ keys' = [t \in Tenants |-> IF t \in DemoTenants \cup Namesakes THEN "absent" ELSE keys[t]]
    /\ seed' = [seed EXCEPT !.pc = "rules"]
    /\ UNCHANGED <<db, lastId, scene, left>>

Cleanup == [rules |-> "webhooks", webhooks |-> "executions",
            executions |-> "replays", replays |-> "create"]

\* Mutant: the replay histories are left.
DeleteAllButReplays(c) ==
    /\ seed.pc = c
    /\ db' = [db EXCEPT ![c] = {d \in @ : d.tenant \notin DemoTenants \/ c = "replays"}]
    /\ seed' = [seed EXCEPT !.pc = Cleanup[c]]
    /\ UNCHANGED <<keys, lastId, scene, left>>

\* deleteMany({ tenantId: { $in: DEMO_TENANT_IDS } }), in the order of Cleanup.
DeleteDocuments(c) ==
    /\ seed.pc = c
    /\ db' = [db EXCEPT ![c] = {d \in @ : d.tenant \notin DemoTenants}]
    /\ seed' = [seed EXCEPT !.pc = Cleanup[c]]
    /\ UNCHANGED <<keys, lastId, scene, left>>

-----------------------------------------------------------------------------
(* What is planned in memory.  i is a demo tenant's place; ids are given out  *)
(* tenant by tenant, from base on.                                            *)

PlannedRules(base, off) ==
    {[RuleDoc(base + (i - 1) * RulesPer + r, Demo[i], 0, IF r % 5 = 1 THEN <<0, 1>> ELSE <<0>>)
        EXCEPT !.status = IF r \in off THEN "inactive" ELSE "active"]
        : i \in 1..Len(Demo), r \in 1..RulesPer}

\* The nth execution of a tenant: its webhook, and which of its rules it runs.
WebhookOf(n) == IF n <= 2 * PairsPer THEN (n + 1) \div 2 ELSE n - PairsPer

\* Mutant: the first of a pair of rules is taken for the third.
RuleAfter(n) ==
    LET w == WebhookOf(n) - 1
    IN IF n <= 2 * PairsPer THEN 2 * (w % (RulesPer \div 2)) + 3 - (n % 2)
       ELSE (w % RulesPer) + 1

RuleOf(n) ==
    LET w == WebhookOf(n) - 1
    IN IF n <= 2 * PairsPer THEN 2 * (w % (RulesPer \div 2)) + 2 - (n % 2)
       ELSE (w % RulesPer) + 1

\* The shuffled lists of statuses, one for each tenant.
Shuffles ==
    {list \in [1..ExecutionsPer -> EngineStatus] :
        \A s \in EngineStatus :
            Cardinality({n \in 1..ExecutionsPer : list[n] = s}) = StatusMix[s]}

PlannedExecutions(lists, base, rules, webhooks) ==
    {[id |-> base + (i - 1) * ExecutionsPer + n, tenant |-> Demo[i], status |-> lists[i][n],
      ref |-> rules + (i - 1) * RulesPer + RuleOf(n),
      event |-> webhooks + (i - 1) * EventsPer + WebhookOf(n), orders |-> <<>>]
        : i \in 1..Len(Demo), n \in 1..ExecutionsPer}

\* A webhook's status is made to agree with its executions'.
Aligned(statuses) ==
    IF statuses \cap {"failed", "retrying"} # {} THEN "failed"
    ELSE IF "processing" \in statuses THEN "processing"
    ELSE IF statuses = {"completed"} THEN "completed"
    ELSE "pending"

WebhookDoc(id, t, executions) ==
    [id |-> id, tenant |-> t,
     status |-> Aligned({x.status : x \in {y \in executions : y.event = id}}),
     ref |-> 0, event |-> 0, orders |-> <<>>]

PlannedWebhooks(executions, base) ==
    {WebhookDoc(base + (i - 1) * EventsPer + w, Demo[i], executions)
        : i \in 1..Len(Demo), w \in 1..EventsPer}

\* The failed executions of a tenant in turn, or any where none failed.
Sources(t) ==
    LET all == {x \in seed.executions : x.tenant = t}
        failed == {x \in all : x.status = "failed"}
    IN IF failed = {} THEN all ELSE failed

ReplayStatus == <<"success", "failed", "triggered">>

\* The element of S that n others precede, counting round and round.
InTurn(S, n) ==
    CHOOSE x \in S : Cardinality({y \in S : y.id < x.id}) = n % Cardinality(S)

ReplayOf(x, id, status) == [HistoryDoc(id, x.tenant, x.id, x.event) EXCEPT !.status = status]

PlannedReplays(base) ==
    {ReplayOf(InTurn(Sources(Demo[i]), n - 1), base + (i - 1) * ReplaysPer + n,
              ReplayStatus[((n - 1) % 3) + 1])
        : i \in 1..Len(Demo), n \in 1..(IF ExecutionsPer = 0 THEN 0 ELSE ReplaysPer)}

-----------------------------------------------------------------------------
(* Writing anew *)

\* Mutant: a tenant that is there already will do.
CreateMissingTenant ==
    /\ seed.pc = "create"
    /\ keys' = [keys EXCEPT ![Demo[seed.at]] = IF @ = "absent" THEN "demo" ELSE @]
    /\ seed' = [seed EXCEPT !.at = @ + 1,
                            !.pc = IF seed.at = Len(Demo) THEN "addRules" ELSE @]
    /\ UNCHANGED <<db, lastId, scene, left>>

\* One after the other; an _id that is taken ends the script.
CreateTenant ==
    /\ seed.pc = "create"
    /\ LET t == Demo[seed.at]
       IN \/ /\ keys[t] = "absent"
             /\ keys' = [keys EXCEPT ![t] = "demo"]
             /\ seed' = [seed EXCEPT !.at = @ + 1,
                                     !.pc = IF seed.at = Len(Demo) THEN "addRules" ELSE @]
          \/ /\ keys[t] # "absent"
             /\ seed' = [seed EXCEPT !.pc = "aborted"]
             /\ UNCHANGED keys
    /\ UNCHANGED <<db, lastId, scene, left>>

InsertMany(c, docs) == db' = [db EXCEPT ![c] = @ \cup docs]

\* The rules are inserted; webhooks and executions are planned, with no await.
AddRules ==
    /\ seed.pc = "addRules"
    /\ LET webhooksFrom == lastId + Len(Demo) * RulesPer
           executionsFrom == webhooksFrom + Len(Demo) * EventsPer
       IN /\ \E off \in Draws : InsertMany("rules", PlannedRules(lastId, off))
          /\ \E lists \in [1..Len(Demo) -> Shuffles] :
                LET executions == PlannedExecutions(lists, executionsFrom, lastId, webhooksFrom)
                IN seed' = [seed EXCEPT !.pc = "addWebhooks", !.executions = executions,
                                        !.webhooks = PlannedWebhooks(executions, webhooksFrom)]
          /\ lastId' = executionsFrom + Len(Demo) * ExecutionsPer
    /\ UNCHANGED <<keys, scene, left>>

AddWebhooks ==
    /\ seed.pc = "addWebhooks"
    /\ InsertMany("webhooks", seed.webhooks)
    /\ seed' = [seed EXCEPT !.pc = "addExecutions"]
    /\ UNCHANGED <<keys, lastId, scene, left>>

AddExecutions ==
    /\ seed.pc = "addExecutions"
    /\ InsertMany("executions", seed.executions)
    /\ seed' = [seed EXCEPT !.pc = "addReplays"]
    /\ UNCHANGED <<keys, lastId, scene, left>>

AddReplays ==
    /\ seed.pc = "addReplays"
    /\ LET replays == PlannedReplays(lastId)
       IN /\ InsertMany("replays", replays)
          /\ seed' = [seed EXCEPT !.pc = "done", !.replays = replays]
    /\ lastId' = lastId + Len(Demo) * ReplaysPer
    /\ UNCHANGED <<keys, scene, left>>

-----------------------------------------------------------------------------
(* Rejected calls *)

\* A call rejects, its effect not made.
SeedFault ==
    /\ Seeding
    /\ Happen("fault")
    /\ seed' = [seed EXCEPT !.pc = "aborted"]
    /\ UNCHANGED <<keys, db, lastId>>

\* insertMany, in order, stops at the document after d.
InsertFault(c, pc, docs) ==
    /\ seed.pc = pc
    /\ Happen("fault")
    /\ \E d \in docs :
          LET written == {e \in docs : e.id <= d.id}
          IN /\ InsertMany(c, written)
             /\ lastId' = IF d.id > lastId THEN d.id ELSE lastId
             /\ seed' = [seed EXCEPT !.pc = "aborted",
                                     !.replays = IF c = "replays" THEN written ELSE {}]
    /\ UNCHANGED keys

SeedStep ==
    \/ DeleteTenants
    \/ \E c \in DOMAIN Cleanup : DeleteDocuments(c)
    \/ CreateTenant \/ AddRules \/ AddWebhooks \/ AddExecutions \/ AddReplays

SeedNext ==
    \/ StartSeed \/ SeedStep \/ SeedFault
    \/ \E off \in Draws : InsertFault("rules", "addRules", PlannedRules(lastId, off))
    \/ InsertFault("webhooks", "addWebhooks", seed.webhooks)
    \/ InsertFault("executions", "addExecutions", seed.executions)
    \/ seed.pc = "addReplays" /\ InsertFault("replays", "addReplays", PlannedReplays(lastId))

=============================================================================
