------------------------------ MODULE MCPlatform ------------------------------
(***************************************************************************)
(* Three tenants, two of them the seed script's; one document in most      *)
(* collections; pages of one row.  What a user, the engine and others may  *)
(* do is bounded by the scenarios.                                         *)
(***************************************************************************)
EXTENDS Platform

CONSTANTS t1, t2, t3

MCDemo == <<t1, t2>>
MCMix == [s \in EngineStatus |-> CASE s = "failed" -> 2 [] s = "processing" -> 1 [] OTHER -> 0]

D(id, t, status, ref, event, orders) ==
    [id |-> id, tenant |-> t, status |-> status, ref |-> ref, event |-> event, orders |-> orders]

MCStock ==
    [webhooks |-> {D(3, t1, "failed", 0, 0, <<>>)},
     rules |-> {D(1, t1, "active", 0, 0, <<1>>), D(2, t2, "active", 0, 0, <<1>>), D(5, t3, "active", 0, 0, <<1>>)},
     executions |-> {D(4, t1, "failed", 1, 3, <<>>)},
     replays |-> {}]

Play(views, f) == [tenant |-> t1, views |-> views, seeded |-> TRUE,
                   left |-> [h \in Happenings |-> IF h \in DOMAIN f THEN f[h] ELSE 0]]

\* Two tenants and what comes late, two tabs, a reload, lost answers.
Switching ==
    {Play({"executions", "rules"}, [switch |-> 2, navigate |-> 1]),
     Play({"webhooks"}, [switch |-> 1, otherTab |-> 1, reload |-> 1, fault |-> 1, engine |-> 1]),
     Play({"dashboard"}, [switch |-> 1, engine |-> 1, refetch |-> 1])}

\* A page turned and a filter set while the rows change; errors and Retry.
Browsing ==
    {Play({"webhooks"}, [turn |-> 2, engine |-> 1]),
     Play({"webhooks"}, [turn |-> 1, fault |-> 2, refetch |-> 1]),
     Play({"dashboard"}, [fault |-> 2, refetch |-> 1, engine |-> 1]),
     Play({"rules"}, [turn |-> 1, ruleEdit |-> 1]),
     Play({"executions"}, [ruleRemoval |-> 1, ruleEdit |-> 1, engine |-> 1])}

\* The form: edited while its rule is being created, left and opened again.
Writing ==
    {Play({"rules"}, [edit |-> 3, save |-> 2, fault |-> 1]),
     Play({"rules", "webhooks"}, [navigate |-> 2, edit |-> 1, save |-> 1]),
     Play({"rules"}, [switch |-> 1, reload |-> 1, edit |-> 1, save |-> 1])}

\* Replays from the console, among the engine's writes.
Replaying ==
    {Play({"executions", "replays"}, [navigate |-> 1, replay |-> 1, engine |-> 1]),
     Play({"executions"}, [replay |-> 2, engine |-> 1, fault |-> 1]),
     Play({"executions"}, [turn |-> 1, switch |-> 1, replay |-> 1]),
     Play({"executions"}, [reload |-> 1, replay |-> 1])}

\* The seed script, once and again, while the server restarts and calls fail.
Seedings ==
    {Play({"rules"}, [seed |-> 2, fault |-> 1]),
     [Play({"rules"}, [seed |-> 1, restart |-> 1, fault |-> 1]) EXCEPT !.seeded = FALSE],
     Play({"executions"}, [seed |-> 1]),
     Play({"executions"}, [seed |-> 1, replay |-> 1])}

AllScenarios == Switching \cup Browsing \cup Writing \cup Replaying \cup Seedings

\* A rule is deleted while the executions are on screen.
RuleRemoval == {Play({"executions"}, [ruleRemoval |-> 1])}

=============================================================================
