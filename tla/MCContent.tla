------------------------------- MODULE MCContent -------------------------------
(***************************************************************************)
(* WebhookEngine on an instance with content: two webhooks and             *)
(* three rules, of which each webhook meets one that can run.              *)
(***************************************************************************)
EXTENDS MCEngine, EngineContent

CONSTANTS e1, e2, r1, r2, r3

Num(n, text) == [type |-> "number", text |-> text, number |-> n]
Str(text) == [type |-> "string", text |-> text, number |-> NaN]

MCLower == [t \in {"card", "Card_Declined", "9", "5", "4", "100"} |->
               IF t = "Card_Declined" THEN "card_declined" ELSE t]

MCWithin == {<<"card", "card_declined">>}

\* The second webhook has no code, and its amount is a text.
MCEventDoc == [e \in Events |->
    [source |-> "stripe", eventType |-> "payment_failed",
     payload |-> IF e = e1
                 THEN <<"amount">> :> Num(5, "5") @@ <<"failure", "code">> :> Str("Card_Declined")
                 ELSE <<"amount">> :> [Str("9") EXCEPT !.number = 9] @@ <<"url">> :> Str("u")]]

Cond(field, operator, value) == [field |-> field, operator |-> operator, value |-> value]

NoSchema == [path \in {} |-> "string"]
Post(field) == [order |-> 1, actionType |-> "http_call", config |-> [field |-> field, text |-> "u"]]
Rule(conditions, schema, action) ==
    [triggerSource |-> "stripe", triggerEventType |-> "payment_failed",
     conditions |-> conditions, payloadSchema |-> schema, actions |-> <<action>>]

MCRuleDoc == [r \in Rules |->
    CASE r = r1 -> Rule(<<Cond(<<"payload", "amount">>, "greaterThan", Num(4, "4")),
                          Cond(<<"failure", "code">>, "contains", Str("card"))>>,
                        NoSchema, Post(<<>>))
      [] r = r2 -> Rule(<<Cond(<<"amount">>, "equals", Num(9, "9"))>>,
                        <<"amount">> :> "number", Post(<<"payload", "url">>))
      [] OTHER  -> Rule(<<Cond(<<"amount">>, "lessThan", Num(100, "100"))>>, NoSchema, Post(<<>>))]

=============================================================================
