----------------------------- MODULE EngineContent -----------------------------
(***************************************************************************)
(* The engine over rules and webhooks with content: what WebhookEngine     *)
(* takes from its constants Matches, Orders, SchemaRejects and Outcomes is *)
(* here what the rules engine, the processor's helpers and the actions     *)
(* engine make of the documents.                                           *)
(***************************************************************************)
EXTENDS EngineProperties, ActionsEngine

CONSTANTS
    RuleDoc, \* RuleDoc[r]: trigger, conditions, payloadSchema and actions
    EventDoc \* EventDoc[e]: source, eventType and payload

ASSUME ContentAssumption ==
    /\ \A r \in Rules :
          /\ \A i \in DOMAIN RuleDoc[r].conditions :
                /\ RuleDoc[r].conditions[i].field \in Seq(STRING)
                /\ RuleDoc[r].conditions[i].value \in Value
          /\ \A path \in DOMAIN RuleDoc[r].payloadSchema :
                RuleDoc[r].payloadSchema[path] \in JsType
    /\ \A e \in Events : \A path \in DOMAIN EventDoc[e].payload :
          /\ path \in Seq(STRING) \ {<<>>}
          /\ EventDoc[e].payload[path] \in Value

\* find({ triggerSource, triggerEventType }); the status is activeRules.
FindByTriggerEvent(e) ==
    {r \in Rules : /\ RuleDoc[r].triggerSource = EventDoc[e].source
                   /\ RuleDoc[r].triggerEventType = EventDoc[e].eventType}

Matched == [e \in Events |->
    {r \in FindByTriggerEvent(e) : EvaluateRule(EventDoc[e].payload, RuleDoc[r].conditions)}]

\* [...rule.actions].sort((a, b) => a.order - b.order), which keeps equals in place.
Before(s, i, j) == s[i].order < s[j].order \/ (s[i].order = s[j].order /\ i < j)

SortedActions(r) ==
    LET actions == RuleDoc[r].actions
        Place(i) == Cardinality({j \in DOMAIN actions : Before(actions, j, i)}) + 1
    IN [k \in DOMAIN actions |-> actions[CHOOSE i \in DOMAIN actions : Place(i) = k]]

SortedOrders == [r \in Rules |-> [k \in DOMAIN SortedActions(r) |-> SortedActions(r)[k].order]]

Rejected ==
    {re \in Rules \X Events : ~SchemaAccepts(EventDoc[re[2]].payload, RuleDoc[re[1]].payloadSchema)}

Results ==
    [er \in Events \X Rules |->
        [k \in DOMAIN SortedActions(er[2]) |->
            Execute(SortedActions(er[2])[k], EventDoc[er[1]].payload)]]

-----------------------------------------------------------------------------
(* Properties *)

\* The operators that are implemented.
Implemented == {"equals", "greaterThan", "contains"}

\* The value a rule's author means by a field, with or without 'payload.'.
Meant(field, payload) ==
    LET named == {path \in DOMAIN payload : field \in {path, <<"payload">> \o path}}
    IN IF named = {} THEN Undefined ELSE payload[CHOOSE path \in named : TRUE]

\* What a condition says of it: a field that is missing or null meets none.
Says(cond, v) ==
    /\ v \notin Missing
    /\ CASE cond.operator = "equals" -> v.text = cond.value.text
         [] cond.operator = "notequals" -> v.text # cond.value.text
         [] cond.operator = "contains" -> v.type = "string" /\ <<Lower[cond.value.text], Lower[v.text]>> \in Within
         [] OTHER -> /\ NaN \notin {v.number, cond.value.number}
                     /\ IF cond.operator = "greaterThan" THEN v.number > cond.value.number
                        ELSE v.number < cond.value.number

MeetsRule(e, r) ==
    /\ r \in FindByTriggerEvent(e)
    /\ \A i \in DOMAIN RuleDoc[r].conditions :
          LET cond == RuleDoc[r].conditions[i]
          IN Says(cond, Meant(cond.field, EventDoc[e].payload))

\* Documents the engine reads as they are written.  A payload with a field
\* 'payload' of its own is not read there, and what a missing field or null is
\* converted to, "undefined", "null" or 0, can meet a condition.
ReadAsWritten(e, r) ==
    /\ \A path \in DOMAIN EventDoc[e].payload : path[1] # "payload"
    /\ \A i \in DOMAIN RuleDoc[r].conditions :
          LET cond == RuleDoc[r].conditions[i]
          IN /\ cond.operator = "equals" => cond.value.text \notin {m.text : m \in Missing}
             /\ cond.operator = "greaterThan" /\ cond.value.number # NaN => cond.value.number >= 0

\* A rule runs for the webhooks its conditions say, through retries, lost locks,
\* crashes, recoveries and edits: no call runs its execution for another, and no
\* webhook that meets it is completed without one, unless rules were edited.
\* Rules with an operator that is accepted and not implemented ('notequals',
\* 'lessThan') never run.
RulesRunAsWritten ==
    /\ \A x \in DOMAIN executions : \A r \in executions[x].ranAs :
          ReadAsWritten(executions[x].event, r) => MeetsRule(executions[x].event, r)
    /\ Calm({"ruleEdit"}) =>
          \A e \in Events, r \in activeRules :
             /\ events[e] = "completed" /\ MeetsRule(e, r) /\ ReadAsWritten(e, r)
             /\ \A i \in DOMAIN RuleDoc[r].conditions :
                   RuleDoc[r].conditions[i].operator \in Implemented
             => ExecutionsOf(e, r) # {}

=============================================================================
