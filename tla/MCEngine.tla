------------------------------ MODULE MCEngine ------------------------------
(***************************************************************************)
(* WebhookEngine on small instances: one webhook and one or two rules that *)
(* both match it, or one rule in two versions; one or two slots.           *)
(***************************************************************************)
EXTENDS EngineRefinement, TLC

MCMatches == [e \in Events |-> Rules]

MCEventOf == [q \in Requests |-> CHOOSE e \in Events : TRUE]

First == CHOOSE r \in Rules : TRUE
FirstEvent == CHOOSE e \in Events : TRUE
FirstRequest == CHOOSE q \in Requests : TRUE

\* Rules in one version each; one rule in several.
AsWritten == [r \in Rules |-> r]
Versions == [r \in Rules |-> First]

\* The orders of the rules' actions: one each; two of the first rule and one of
\* the others; two, and three since an edit put one before them; two that are equal.
OneAction == [r \in Rules |-> <<1>>]
MixedActions == [r \in Rules |-> IF r = First THEN <<1, 2>> ELSE <<1>>]
EditedActions == [r \in Rules |-> IF r = First THEN <<1, 2>> ELSE <<1, 2, 3>>]
SameOrder == [r \in Rules |-> <<1, 1>>]

\* Every action may succeed and fail.
AnyOutcome == [er \in Events \X Rules |-> [k \in 1..Len(Orders[er[2]]) |-> Outcome]]

\* Of two webhooks, one delivery each.
OneDeliveryEach == [q \in Requests |-> IF q = FirstRequest THEN FirstEvent
                                       ELSE CHOOSE e \in Events \ {FirstEvent} : TRUE]

NoMishaps == [m \in Mishaps |-> 0]

\* One mishap of each of the kinds ms.
OneOfEach(ms) == [m \in Mishaps |-> IF m \in ms THEN 1 ELSE 0]

DeliveryMishaps == OneOfEach({"crash", "queueFault", "dbFault", "suspend", "ruleEdit", "noticeLost"})
WorkerMishaps == OneOfEach({"crash", "lockLost", "dbFault", "noticeLost"})
RecoveryMishaps == [OneOfEach({"dbFault"}) EXCEPT !["crash"] = 2]
FaultMishaps == OneOfEach({"dbFault", "queueFault", "ruleEdit"})
Suspension == OneOfEach({"suspend"})
FourCrashes == [NoMishaps EXCEPT !["crash"] = 4]

\* Slots are interchangeable: no definition names one.
Slots == Permutations(Workers)

=============================================================================
