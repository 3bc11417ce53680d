----------------------------- MODULE ActionLedger -----------------------------
(***************************************************************************)
(* What the engine promises about actions, and all it promises whatever    *)
(* goes wrong: at-least-once.  A webhook is accepted; each rule it matches *)
(* gets entries in a ledger; an entry is run from what its rule holds, and *)
(* again, from what the rule holds by then, when it is taken up again;     *)
(* actions happen for entries only, and may happen again; a verdict may be *)
(* revised by retries, replays and calls that overlap, but is "completed"  *)
(* only when an action of each order the entry was once run from has       *)
(* happened.                                                               *)
(***************************************************************************)
EXTENDS Naturals, Sequences

CONSTANTS Events, Rules, RuleId, Matches, Orders

VARIABLES
    accepted,  \* the webhooks that were stored
    ledger,    \* the entries, in order of creation
    done       \* <<e, i>> -> the orders at which actions of rule i have happened

vars == <<accepted, ledger, done>>

\* What a rule owes that holds r: an action of each order.
Owed(r) == {Orders[r][k] : k \in 1..Len(Orders[r])}

Account(x) == <<ledger[x].event, ledger[x].rule>>

Init ==
    /\ accepted = {}
    /\ ledger = <<>>
    /\ done = [s \in Events \X {RuleId[r] : r \in Rules} |-> {}]

Accept(e) ==
    /\ e \notin accepted
    /\ accepted' = accepted \cup {e}
    /\ UNCHANGED <<ledger, done>>

Open(e, r) ==
    /\ e \in accepted
    /\ r \in Matches[e]
    /\ ledger' = Append(ledger, [event |-> e, rule |-> RuleId[r], ranAs |-> {r},
                                 verdict |-> "open"])
    /\ UNCHANGED <<accepted, done>>

Reopen(x, r) ==
    /\ RuleId[r] = ledger[x].rule
    /\ r \in Matches[ledger[x].event]
    /\ ledger' = [ledger EXCEPT ![x] =
                    [event |-> @.event, rule |-> @.rule, ranAs |-> @.ranAs \cup {r},
                     verdict |-> "open"]]
    /\ UNCHANGED <<accepted, done>>

Perform(x, o) ==
    /\ \E r \in ledger[x].ranAs : o \in Owed(r)
    /\ done' = [done EXCEPT ![Account(x)] = @ \cup {o}]
    /\ UNCHANGED <<accepted, ledger>>

Judge(x, verdict) ==
    /\ verdict = "completed" =>
          \E r \in ledger[x].ranAs : Owed(r) \subseteq done[Account(x)]
    /\ ledger' = [ledger EXCEPT ![x].verdict = verdict]
    /\ UNCHANGED <<accepted, done>>

\* Recovery gives up entries of one webhook that are open, at once.
Abandon(e, entries) ==
    /\ \A x \in entries : ledger[x].event = e /\ ledger[x].verdict = "open"
    /\ ledger' = [x \in DOMAIN ledger |->
                    IF x \in entries THEN [ledger[x] EXCEPT !.verdict = "failed"]
                    ELSE ledger[x]]
    /\ UNCHANGED <<accepted, done>>

Next ==
    \/ \E e \in Events : Accept(e) \/ \E r \in Rules : Open(e, r)
    \/ \E x \in DOMAIN ledger :
          \/ \E r \in Rules : Reopen(x, r) \/ \E o \in Owed(r) : Perform(x, o)
          \/ \E verdict \in {"open", "failed", "completed"} : Judge(x, verdict)
    \/ \E e \in Events, entries \in SUBSET DOMAIN ledger : Abandon(e, entries)

Spec == Init /\ [][Next]_vars

=============================================================================
