------------------------------ MODULE RulesEngine ------------------------------
(***************************************************************************)
(* RulesEngineService and the processor's helpers that read a payload: what *)
(* a condition, a payload schema and a template in a config make of it.    *)
(*                                                                         *)
(* A payload is a function from the paths it has, sequences of names, to   *)
(* values.  A value carries what the code asks of it: typeof, String() and *)
(* Number(), so that conversions are those of JavaScript.                  *)
(***************************************************************************)
EXTENDS Integers, Sequences

CONSTANTS
    NaN,    \* Number() of what is no number
    Lower,  \* Lower[t]: text t in lower case
    Within  \* pairs <<s, t>> of texts where s is a part of t

JsType == {"undefined", "object", "boolean", "number", "string"}

Value == [type: JsType, text: STRING, number: Int \cup {NaN}]

Undefined == [type |-> "undefined", text |-> "undefined", number |-> NaN]
Null == [type |-> "object", text |-> "null", number |-> 0]

Missing == {Undefined, Null}

GetValueByPath(payload, path) == IF path \in DOMAIN payload THEN payload[path] ELSE Undefined

\* Mutant: the prefix is left where it is.
FieldPathAsWritten(field) == field

\* A leading 'payload.' is dropped, whether or not the payload has such a field.
FieldPath(field) == IF Len(field) > 1 /\ field[1] = "payload" THEN Tail(field) ELSE field

\* The switch over cond.operator; 'notequals' and 'lessThan' are in the schema
\* and fall to its default.
Holds(cond, payload) ==
    LET actual == GetValueByPath(payload, FieldPath(cond.field))
        expected == cond.value
    IN \/ cond.operator = "equals" /\ actual.text = expected.text
       \/ /\ cond.operator = "greaterThan"
          /\ NaN \notin {actual.number, expected.number}
          /\ actual.number > expected.number
       \/ /\ cond.operator = "contains"
          /\ actual.type = "string"
          /\ <<Lower[expected.text], Lower[actual.text]>> \in Within

EvaluateRule(payload, conditions) == \A i \in DOMAIN conditions : Holds(conditions[i], payload)

\* validatePayloadSchema; its paths keep a leading 'payload.'.
SchemaAccepts(payload, schema) ==
    \A path \in DOMAIN schema :
        LET val == GetValueByPath(payload, path)
        IN val \notin Missing /\ val.type = schema[path]

\* compileTemplates: a config value is a text, or {{field}}.
Compiled(item, payload) ==
    IF item.field = <<>> THEN item.text
    ELSE LET val == GetValueByPath(payload, FieldPath(item.field))
         IN IF val \in Missing THEN "" ELSE val.text

=============================================================================
