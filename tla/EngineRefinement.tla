--------------------------- MODULE EngineRefinement ---------------------------
(***************************************************************************)
(* WebhookEngine implements ActionLedger: the executions are its entries,  *)
(* and what it takes for granted, that a rule matches and that an action   *)
(* has happened, the processor finds out step by step.                     *)
(***************************************************************************)
EXTENDS EngineInvariants

\* A retrying or queued execution is as open as one being processed.
VerdictOf(status) == IF status \in {"completed", "failed"} THEN status ELSE "open"

Stores == {e \in Events : events[e] # "absent"}

EntryOf(x) == [event |-> executions[x].event, rule |-> executions[x].rule,
               ranAs |-> executions[x].ranAs, verdict |-> VerdictOf(executions[x].status)]

Entries == [x \in DOMAIN executions |-> EntryOf(x)]

\* The orders at which r's actions have succeeded for the event, and those at
\* which actions of any document of a rule have.
EffectsOf(e, r) ==
    {Orders[r][k] : k \in {n \in 1..Len(Orders[r]) : performed[<<e, r, n>>] > 0}}

Effects == [s \in Events \X RuleIds |->
                UNION {EffectsOf(s[1], r) : r \in {d \in Rules : RuleId[d] = s[2]}}]

Ledger == INSTANCE ActionLedger WITH accepted <- Stores, ledger <- Entries, done <- Effects

\* Crashes, lost locks, failed calls, replays and edits of rules notwithstanding,
\* every step of the engine is one the ledger allows, or none: no action happens
\* for a rule that does not match or has no execution, and no execution is
\* completed before an action has happened at each order of its rule, as the rule
\* was when a call ran it.  An edit between two attempts may put another action
\* at an order that is done: the ledger, like the code, asks for orders.
ImplementsLedger == Ledger!Spec

=============================================================================
