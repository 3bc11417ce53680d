-------------------------------- MODULE Intake --------------------------------
(***************************************************************************)
(* POST /webhooks/:source next to the changes of TenantRegistry: the       *)
(* middleware looks the tenant up, the handler looks it up again for its   *)
(* secrets, then the event is saved under the identifier taken from the    *)
(* delivery.  Jobs and their faults are in Ingestion; what is decided      *)
(* here, for which tenant and under which identifier, is given there.      *)
(*                                                                         *)
(* @Post(':source') is declared before @Post('replay') and takes every     *)
(* POST of one segment, so triggerReplay is not reached.                   *)
(***************************************************************************)
EXTENDS TenantRegistry, FiniteSets

CONSTANTS
    Deliveries, \* POST requests to /webhooks/:source
    Sources,    \* what :source may be
    Providers,  \* sources whose signatures verifySignature can compute
    Wordlike,   \* sources of letters, digits and underscores
    Replay,     \* 'replay'
    Secrets,    \* Secrets[id]: the sources for which tenant id has a secret
    Payloads,   \* non-empty JSON objects
    Texts,      \* identifiers and event types, non-empty after trimming
    Odd,        \* what is truthy but no such text: a number, an object, blanks
    Received,   \* 'webhook.received'
    Joined,     \* Joined[<<source, type>>]: what is read when the two are written
                \* one after the other, so 'git' with 'hubpush' as 'github' with 'push'
    Sendings,   \* what may be sent: webhooks and signatures
    MaxCalls    \* requests of either kind that are made

\* to, key: X-Tenant-ID and X-API-Key.  delivery: x-github-delivery.  ids, types:
\* the fields and headers looked at for an identifier and an event type, in
\* the code's order.  payload None: no object, or an empty one.
Webhook == [to: Ids \cup {None}, key: Keys \cup {None}, source: Sources,
            payload: Payloads \cup {None}, delivery: Texts \cup {None},
            ids: Seq(Texts \cup {Odd, None}), types: Seq(Texts \cup {None})]

\* Whether the sending has the signature computed over JSON.stringify(payload).
Signature == {"right", "wrong", "none"}

\* a || b || ...
FirstGiven(s, otherwise) ==
    IF \E i \in DOMAIN s : s[i] # None
    THEN s[CHOOSE i \in DOMAIN s : s[i] # None /\ \A j \in 1..(i - 1) : s[j] = None]
    ELSE otherwise

EventType(w) == FirstGiven(w.types, Received)

\* The identifier the provider gave, None if the code finds none.
ProviderId(w) ==
    IF w.delivery # None THEN w.delivery
    ELSE IF FirstGiven(w.ids, None) \in Texts THEN FirstGiven(w.ids, None)
    ELSE None

\* What is hashed stands for the hash.  No JSON object begins another, so the
\* payload can be told from what follows it; source and type run together.
Hash(w) == <<w.payload, Joined[<<w.source, EventType(w)>>]>>

ASSUME IntakeAssumption ==
    /\ Providers \cup Wordlike \cup {Replay} \subseteq Sources
    /\ Received \in Texts
    /\ {None, Odd} \cap Texts = {} /\ None # Odd
    /\ \A s \in Sendings : Hash(s[1]) \notin Texts
    /\ None \notin Ids \cup Payloads
    /\ Sendings \subseteq Webhook \X Signature
    /\ \A s, u \in Sendings : s[1].payload = u[1].payload => s[1].ids = u[1].ids
    /\ MaxCalls \in Nat

VARIABLES
    delivery,  \* delivery -> how far it got, what was sent, the event answered with
    stored     \* the webhookevents collection, in order of creation

intakeVars == <<delivery, stored>>
allVars == <<vars, intakeVars>>

Admitted == {"secret", "save", "find", "add"}
Accepted == {"created", "known"}
DeliveryPc == {"idle", "gate", "refused", "error", "lost"} \cup Admitted \cup Accepted

\* Mutant: the hash is of the payload and the source.
HashWithoutType(w) ==
    IF ProviderId(w) # None THEN ProviderId(w)
    ELSE <<w.payload, Joined[<<w.source, Received>>]>>

\* getDeterministicEventId
Identifier(w) == IF ProviderId(w) # None THEN ProviderId(w) ELSE Hash(w)

\* eventIdentifier, source, eventType and payload of a document are its webhook's.
Event == [tenantId: Ids, eventIdentifier: {Identifier(s[1]) : s \in Sendings},
          webhook: {s[1] : s \in Sendings}]

IntakeTypeOK ==
    /\ stored \in Seq(Event)
    /\ delivery \in [Deliveries -> [pc: DeliveryPc, sent: Sendings \cup {<<>>}, event: Nat]]
    /\ \A d \in Deliveries :
          /\ delivery[d].pc # "idle" => delivery[d].sent \in Sendings
          /\ delivery[d].pc \in Accepted \cup {"add"} => delivery[d].event \in DOMAIN stored

IntakeInit ==
    /\ Init
    /\ delivery = [d \in Deliveries |-> [pc |-> "idle", sent |-> <<>>, event |-> 0]]
    /\ stored = <<>>

Sent(d) == delivery[d].sent[1]

-----------------------------------------------------------------------------
(* A delivery *)

Calls == Cardinality({q \in Requests : request[q].pc # "idle"})
         + Cardinality({d \in Deliveries : delivery[d].pc # "idle"})

Go(d, pc) == delivery' = [delivery EXCEPT ![d].pc = pc]

\* Without X-Tenant-ID the middleware calls next() and the guard refuses.
Arrive(d, s) ==
    /\ Listening
    /\ delivery[d].pc = "idle"
    /\ Calls < MaxCalls
    /\ delivery' = [delivery EXCEPT ![d].pc = IF s[1].to = None THEN "refused" ELSE "gate",
                                    ![d].sent = s]
    /\ UNCHANGED stored

\* isWebhookIngestion: no API key is asked for.
KeyNotNeeded(source) == source \in Wordlike \ {Replay}

\* Mutant: the status is not looked at.
GateAnyStatus(d) ==
    /\ delivery[d].pc = "gate"
    /\ LET w == Sent(d)
           tenant == tenants[w.to]
       IN Go(d, IF /\ w.to \in DOMAIN tenants
                   /\ KeyNotNeeded(w.source) \/ w.key = tenant.key
                   /\ w.payload # None
                THEN "secret" ELSE "refused")
    /\ UNCHANGED stored

\* TenantMiddleware, then the guard, and the handler's check of the payload.
Gate(d) ==
    /\ delivery[d].pc = "gate"
    /\ LET w == Sent(d)
           tenant == tenants[w.to]
       IN Go(d, IF /\ w.to \in DOMAIN tenants
                   /\ tenant.status = "active"
                   /\ KeyNotNeeded(w.source) \/ w.key = tenant.key
                   /\ w.payload # None
                THEN "secret" ELSE "refused")
    /\ UNCHANGED stored

\* verifySignature: of other sources, only a signature that is there is looked at.
Verified(w, signature) ==
    \/ w.source \notin Secrets[w.to]
    \/ signature = "right"
    \/ w.source \notin Providers /\ signature = "none"

\* The tenant is looked up again, whatever its status is by now.
VerifySignature(d) ==
    /\ delivery[d].pc = "secret"
    /\ Go(d, IF Sent(d).to \in DOMAIN tenants /\ Verified(Sent(d), delivery[d].sent[2])
             THEN "save" ELSE "refused")
    /\ UNCHANGED stored

\* The unique index on (tenantId, eventIdentifier).
SameEvent(event, w) == event.tenantId = w.to /\ event.eventIdentifier = Identifier(w)

\* Mutants: what to answer is noted before the document is there; no index.
SaveEventLate(d) ==
    /\ delivery[d].pc = "save"
    /\ LET w == Sent(d)
       IN \/ \E i \in DOMAIN stored : SameEvent(stored[i], w) /\ Go(d, "find") /\ UNCHANGED stored
          \/ /\ \A i \in DOMAIN stored : ~SameEvent(stored[i], w)
             /\ stored' = Append(stored, [tenantId |-> w.to, eventIdentifier |-> Identifier(w),
                                          webhook |-> w])
             /\ delivery' = [delivery EXCEPT ![d].pc = "add", ![d].event = Len(stored)]

SaveEventNoIndex(d) ==
    /\ delivery[d].pc = "save"
    /\ stored' = Append(stored, [tenantId |-> Sent(d).to, webhook |-> Sent(d),
                                 eventIdentifier |-> Identifier(Sent(d))])
    /\ delivery' = [delivery EXCEPT ![d].pc = "add", ![d].event = Len(stored) + 1]

\* event.save()
SaveEvent(d) ==
    /\ delivery[d].pc = "save"
    /\ LET w == Sent(d)
       IN \/ \E i \in DOMAIN stored : SameEvent(stored[i], w) /\ Go(d, "find") /\ UNCHANGED stored
          \/ /\ \A i \in DOMAIN stored : ~SameEvent(stored[i], w)
             /\ stored' = Append(stored, [tenantId |-> w.to, eventIdentifier |-> Identifier(w),
                                          webhook |-> w])
             /\ delivery' = [delivery EXCEPT ![d].pc = "add", ![d].event = Len(stored) + 1]

\* Error 11000: the event that is there is answered.
FindExisting(d) ==
    /\ delivery[d].pc = "find"
    /\ \E i \in DOMAIN stored :
          /\ SameEvent(stored[i], Sent(d))
          /\ delivery' = [delivery EXCEPT ![d].pc = "known", ![d].event = i]
    /\ UNCHANGED stored

\* Queue.add
Enqueue(d) == delivery[d].pc = "add" /\ Go(d, "created") /\ UNCHANGED stored

\* A call rejects, once for a delivery; the middleware makes a 401 of it.
DeliveryFault(d) ==
    /\ delivery[d].pc \in Admitted \cup {"gate"}
    /\ Go(d, IF delivery[d].pc = "gate" THEN "refused" ELSE "error")
    /\ UNCHANGED stored

DeliveryStep(d) ==
    /\ \/ \E s \in Sendings : Arrive(d, s)
       \/ Gate(d) \/ VerifySignature(d) \/ SaveEvent(d) \/ FindExisting(d) \/ Enqueue(d)
       \/ DeliveryFault(d)
    /\ UNCHANGED vars

CutOff ==
    delivery' = [d \in Deliveries |-> IF delivery[d].pc \in Admitted \cup {"gate"}
                                      THEN [delivery[d] EXCEPT !.pc = "lost"] ELSE delivery[d]]

IntakeNext ==
    \/ \E q \in Requests : /\ RequestStep(q)
                           /\ request[q].pc = "idle" => Calls < MaxCalls
                           /\ UNCHANGED intakeVars
    \/ Seed /\ UNCHANGED intakeVars
    \/ Restart /\ CutOff /\ UNCHANGED stored
    \/ \E d \in Deliveries : DeliveryStep(d)

IntakeSpec == IntakeInit /\ [][IntakeNext]_allVars

-----------------------------------------------------------------------------
(* Properties *)

\* However often and however signed a webhook is sent, while others are being
\* saved and tenants come and go, each 200 names the same event.
RepeatsAreOne ==
    \A d, e \in Deliveries :
        delivery[d].pc \in Accepted /\ delivery[e].pc \in Accepted /\ Sent(d) = Sent(e)
            => delivery[d].event = delivery[e].event

SameContent(v, w) ==
    v.to = w.to /\ v.payload = w.payload /\ v.source = w.source /\ EventType(v) = EventType(w)

\* The code takes the provider's identifier for unique in the tenant, across
\* sources and event types.
IdTakenForUnique(w) ==
    \A s \in Sendings : s[1].to = w.to /\ ProviderId(s[1]) = ProviderId(w) => SameContent(s[1], w)

\* What the hash cannot tell apart: one payload, of sources and types that run
\* together to the same text.
RunTogether(v, w) ==
    /\ {ProviderId(v), ProviderId(w)} = {None}
    /\ v.to = w.to /\ v.payload = w.payload
    /\ Joined[<<v.source, EventType(v)>>] = Joined[<<w.source, EventType(w)>>]

\* A webhook is answered 200 with an event that has its tenant, payload, source
\* and type, not with another's it was mistaken for, with two exceptions: the
\* provider's identifiers are not unique, and there is none and the payload was
\* sent under a source and a type that read the same written one after the other.
\* Then the second webhook is lost.
AnsweredForItself ==
    \A d \in Deliveries :
        delivery[d].pc \in Accepted
        /\ (ProviderId(Sent(d)) = None \/ IdTakenForUnique(Sent(d)))
            => LET answered == stored[delivery[d].event].webhook
               IN SameContent(answered, Sent(d)) \/ RunTogether(answered, Sent(d))

\* A suspended tenant for which no request was let in before.
Closed(id) ==
    /\ Locked(id)
    /\ \A d \in Deliveries :
          delivery[d].pc \in Admitted => Sent(d).to # id

EventsOf(id) == {i \in DOMAIN stored : stored[i].tenantId = id}

\* Its webhooks are refused from then on and leave nothing behind: the handler
\* does not look at the status again, so it is up to the middleware.
ClosedTakesNothing ==
    [][\A id \in Ids : Closed(id) => Closed(id)' /\ EventsOf(id)' = EventsOf(id)]_allVars

=============================================================================
