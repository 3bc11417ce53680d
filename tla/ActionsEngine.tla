----------------------------- MODULE ActionsEngine -----------------------------
(***************************************************************************)
(* ActionsEngineService.execute: what an action can come to, as far as the *)
(* processor tells it apart.  Which answer a server gives is its choice.   *)
(***************************************************************************)
EXTENDS RulesEngine

\* The status of an answer, 0 if the call breaks off without one.
Answers == {0} \cup (200..599)

\* response.ok, the status of an error, or an error of fetch itself.
HttpOutcome(status) ==
    IF status \in 200..299 THEN "success"
    ELSE IF status = 0 \/ status >= 500 THEN "retryable"
    ELSE "permanent"

HttpCall(url) == IF url = "" THEN {"permanent"} ELSE {HttpOutcome(status) : status \in Answers}

\* An Error of no action class, which the stub throws for 'crash', is to the
\* processor a permanent one.
EmailSend(to) ==
    LET Includes(word) == <<word, to>> \in Within
    IN IF to = "" \/ Includes("fail") THEN {"permanent"}
       ELSE IF Includes("retry") THEN {"retryable"}
       ELSE IF Includes("crash") THEN {"permanent"}
       ELSE {"success"}

\* url and to are what the templates of the config were compiled to.
Execute(action, payload) ==
    CASE action.actionType = "http_call" -> HttpCall(Compiled(action.config, payload))
      [] action.actionType = "email_send" -> EmailSend(Compiled(action.config, payload))
      [] action.actionType \in {"slack_notify", "db_operation"} -> {"success"}
      [] OTHER -> {"permanent"}

=============================================================================
