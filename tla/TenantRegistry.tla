---------------------------- MODULE TenantRegistry ----------------------------
(***************************************************************************)
(* The tenants collection: POST, PATCH and DELETE /tenants, the middleware *)
(* and the controller in front of them, and the default tenants written    *)
(* each time the process starts.  Every await is a step, so requests       *)
(* overlap between being admitted, looking and writing.                    *)
(***************************************************************************)
EXTENDS Naturals, Sequences

CONSTANTS
    Requests,  \* HTTP requests; the tenant one creates has it as its _id
    Names,     \* names after trimming
    Keys,      \* API keys
    Defaults,  \* the _ids in DEFAULT_TENANTS, in order
    Preset,    \* Preset[d]: the document DEFAULT_TENANTS gives d
    None,      \* a field the body leaves out
    Bodies,    \* the bodies requests may carry
    MaxCrashes, MaxFaults

Status == {"active", "suspended", "deleted"}

\* name and apiKey stand for the fields with a unique index, domain is another.
Tenant == [name: Names, key: Keys, status: Status]

\* UpdateTenantDto: every field is optional.
Change == [name: Names \cup {None}, key: Keys \cup {None}, status: Status \cup {None}]

DefaultIds == {Defaults[i] : i \in 1..Len(Defaults)}
Ids == Requests \cup DefaultIds

ASSUME TenantAssumption ==
    /\ Defaults \in Seq(DefaultIds) \ {<<>>}
    /\ Preset \in [DefaultIds -> Tenant]
    /\ \A i, j \in 1..Len(Defaults) : Defaults[i] = Defaults[j] => i = j
    /\ Requests \cap DefaultIds = {}
    /\ Bodies \subseteq Change
    /\ None \notin Names \cup Keys \cup Status
    /\ MaxCrashes \in Nat /\ MaxFaults \in Nat

VARIABLES
    tenants,  \* _id -> document, for the documents there are
    request,  \* request -> how far it got, its tenant and its body
    boot,     \* how far onApplicationBootstrap got, and the default it is at
    crashes, faults

vars == <<tenants, request, boot, crashes, faults>>

RequestPc == {"idle", "find", "save", "update", "remove",
              "created", "updated", "removed",
              "refused", "conflict", "missing", "error", "lost"}

InFlight == {"find", "save", "update", "remove"}

NoBody == [name |-> None, key |-> None, status |-> None]

TenantTypeOK ==
    /\ DOMAIN tenants \subseteq Ids
    /\ \A i \in DOMAIN tenants : tenants[i] \in Tenant
    /\ request \in [Requests -> [pc: RequestPc, id: Ids, body: Change]]
    /\ boot \in [pc: {"check", "create", "listening"}, at: 1..(Len(Defaults) + 1)]
    /\ boot.pc # "listening" => boot.at \in 1..Len(Defaults)
    /\ crashes \in 0..MaxCrashes
    /\ faults \in 0..MaxFaults

Init ==
    /\ tenants = [i \in {} |-> None]
    /\ request = [q \in Requests |-> [pc |-> "idle", id |-> q, body |-> NoBody]]
    /\ boot = [pc |-> "check", at |-> 1]
    /\ crashes = 0
    /\ faults = 0

-----------------------------------------------------------------------------
(* Documents and their unique indexes *)

\* Mutant: no field has "unique: true" in the schema.
NothingTaken(id, doc) == FALSE

\* Another document has the name or the key.
Taken(id, doc) ==
    \E i \in DOMAIN tenants \ {id} :
        tenants[i].name = doc.name \/ tenants[i].key = doc.key

Write(id, doc) ==
    tenants' = [i \in DOMAIN tenants \cup {id} |-> IF i = id THEN doc ELSE tenants[i]]

Given(field, otherwise) == IF field = None THEN otherwise ELSE field

\* A new document; status defaults to active.
Created(body) == [name |-> body.name, key |-> body.key,
                  status |-> Given(body.status, "active")]

Updated(doc, body) == [name |-> Given(body.name, doc.name),
                       key |-> Given(body.key, doc.key),
                       status |-> Given(body.status, doc.status)]

-----------------------------------------------------------------------------
(* Requests *)

Listening == boot.pc = "listening"

Proceed(q, pc) ==
    /\ request' = [request EXCEPT ![q].pc = pc]
    /\ UNCHANGED <<boot, crashes>>

\* POST /tenants is public and needs no X-Tenant-ID.
PostTenant(q, body) ==
    /\ Listening
    /\ request[q].pc = "idle"
    /\ body.name # None /\ body.key # None
    /\ request' = [request EXCEPT ![q] = [pc |-> "find", id |-> q, body |-> body]]
    /\ UNCHANGED <<tenants, boot, crashes, faults>>

\* Mutant: the middleware looks at the API key alone.
AdmitAnyStatus(q, id, pc, body) ==
    /\ Listening
    /\ request[q].pc = "idle"
    /\ id \in DOMAIN tenants
    /\ request' = [request EXCEPT ![q] = [pc |-> pc, id |-> id, body |-> body]]
    /\ UNCHANGED <<tenants, boot, crashes, faults>>

\* PATCH or DELETE /tenants/:id: the middleware finds the tenant active and its
\* key right, and :id is that tenant.
Admit(q, id, pc, body) ==
    /\ Listening
    /\ request[q].pc = "idle"
    /\ id \in DOMAIN tenants
    /\ tenants[id].status = "active"
    /\ request' = [request EXCEPT ![q] = [pc |-> pc, id |-> id, body |-> body]]
    /\ UNCHANGED <<tenants, boot, crashes, faults>>

Refuse(q) ==
    /\ Listening
    /\ request[q].pc = "idle"
    /\ Proceed(q, "refused")
    /\ UNCHANGED <<tenants, faults>>

\* create: findOne({ name }).
FindName(q) ==
    /\ request[q].pc = "find"
    /\ Proceed(q, IF \E i \in DOMAIN tenants : tenants[i].name = request[q].body.name
                  THEN "conflict" ELSE "save")
    /\ UNCHANGED <<tenants, faults>>

\* create: save(); error 11000 is no ConflictException and ends as a 500.
SaveTenant(q) ==
    /\ request[q].pc = "save"
    /\ LET doc == Created(request[q].body)
       IN \/ Taken(q, doc) /\ Proceed(q, "error") /\ UNCHANGED tenants
          \/ ~Taken(q, doc) /\ Proceed(q, "created") /\ Write(q, doc)
    /\ UNCHANGED faults

\* Mutant: findByIdAndUpdate with upsert.
UpsertTenant(q) ==
    /\ request[q].pc = "update"
    /\ LET id == request[q].id
           doc == IF id \in DOMAIN tenants THEN Updated(tenants[id], request[q].body)
                  ELSE [name |-> Given(request[q].body.name, CHOOSE n \in Names : TRUE),
                        key |-> Given(request[q].body.key, CHOOSE k \in Keys : TRUE),
                        status |-> "active"]
       IN \/ Taken(id, doc) /\ Proceed(q, "error") /\ UNCHANGED tenants
          \/ ~Taken(id, doc) /\ Proceed(q, "updated") /\ Write(id, doc)
    /\ UNCHANGED faults

\* update: findByIdAndUpdate; null is a 404.
UpdateTenant(q) ==
    /\ request[q].pc = "update"
    /\ LET id == request[q].id
           doc == Updated(tenants[id], request[q].body)
       IN \/ id \notin DOMAIN tenants /\ Proceed(q, "missing") /\ UNCHANGED tenants
          \/ id \in DOMAIN tenants /\ Taken(id, doc) /\ Proceed(q, "error") /\ UNCHANGED tenants
          \/ id \in DOMAIN tenants /\ ~Taken(id, doc) /\ Proceed(q, "updated") /\ Write(id, doc)
    /\ UNCHANGED faults

\* remove: findByIdAndDelete.
RemoveTenant(q) ==
    /\ request[q].pc = "remove"
    /\ Proceed(q, IF request[q].id \in DOMAIN tenants THEN "removed" ELSE "missing")
    /\ tenants' = [i \in DOMAIN tenants \ {request[q].id} |-> tenants[i]]
    /\ UNCHANGED faults

\* The database call of a request rejects.
RequestFault(q) ==
    /\ request[q].pc \in InFlight
    /\ faults < MaxFaults
    /\ faults' = faults + 1
    /\ Proceed(q, "error")
    /\ UNCHANGED tenants

-----------------------------------------------------------------------------
(* onApplicationBootstrap, before the server listens *)

\* Mutant: the end of the list is not seen.
SeedForever == boot' = [pc |-> "check", at |-> boot.at + 1]

SeedOnwards == boot' = IF boot.at < Len(Defaults)
                       THEN [pc |-> "check", at |-> boot.at + 1]
                       ELSE [pc |-> "listening", at |-> Len(Defaults) + 1]

SeedOver == boot' = [pc |-> "listening", at |-> boot.at]

\* Mutant: the first default that is there ends the seeding.
SeedStopsAtExisting ==
    /\ boot.pc = "check"
    /\ IF Defaults[boot.at] \in DOMAIN tenants THEN SeedOver
       ELSE boot' = [boot EXCEPT !.pc = "create"]
    /\ UNCHANGED <<tenants, request, crashes, faults>>

SeedCheck ==
    /\ boot.pc = "check"
    /\ IF Defaults[boot.at] \in DOMAIN tenants THEN SeedOnwards
       ELSE boot' = [boot EXCEPT !.pc = "create"]
    /\ UNCHANGED <<tenants, request, crashes, faults>>

\* The try block is around the loop: a conflict leaves the defaults after this
\* one alone too.
SeedCreate ==
    /\ boot.pc = "create"
    /\ LET d == Defaults[boot.at]
       IN \/ Taken(d, Preset[d]) /\ SeedOver /\ UNCHANGED tenants
          \/ ~Taken(d, Preset[d]) /\ SeedOnwards /\ Write(d, Preset[d])
    /\ UNCHANGED <<request, crashes, faults>>

SeedFault ==
    /\ boot.pc # "listening"
    /\ faults < MaxFaults
    /\ faults' = faults + 1
    /\ SeedOver
    /\ UNCHANGED <<tenants, request, crashes>>

\* The process dies and starts again.
Restart ==
    /\ crashes < MaxCrashes
    /\ crashes' = crashes + 1
    /\ request' = [q \in Requests |-> IF request[q].pc \in InFlight
                                      THEN [request[q] EXCEPT !.pc = "lost"] ELSE request[q]]
    /\ boot' = [pc |-> "check", at |-> 1]
    /\ UNCHANGED <<tenants, faults>>

-----------------------------------------------------------------------------
RequestStep(q) ==
    \/ \E body \in Bodies : PostTenant(q, body)
    \/ \E id \in DOMAIN tenants, body \in Bodies : Admit(q, id, "update", body)
    \/ \E id \in DOMAIN tenants : Admit(q, id, "remove", NoBody)
    \/ Refuse(q) \/ FindName(q) \/ SaveTenant(q) \/ UpdateTenant(q) \/ RemoveTenant(q)
    \/ RequestFault(q)

Seed == SeedCheck \/ SeedCreate \/ SeedFault

Next == (\E q \in Requests : RequestStep(q)) \/ Seed \/ Restart

Spec == Init /\ [][Next]_vars

-----------------------------------------------------------------------------
(* Properties *)

\* However creations, renamings and the seed overlap, names and keys stay
\* unique: looking for the name before save() does not see to it.
UniqueTenants ==
    \A i, j \in DOMAIN tenants :
        tenants[i].name = tenants[j].name \/ tenants[i].key = tenants[j].key => i = j

\* A suspended tenant nobody is at work on.
Locked(id) ==
    /\ id \in DOMAIN tenants /\ tenants[id].status # "active"
    /\ \A q \in Requests : request[q].id = id => request[q].pc \notin InFlight

\* A request admitted before the suspension can still undo it; once none is
\* left, the tenant is neither reached, removed nor activated again, whatever
\* restarts and seeds follow.
LockedForGood == [][\A id \in Ids : Locked(id) => Locked(id)']_vars

\* When the server starts to listen after a seed without fault, each default
\* tenant is there, or it or one before it lost its name or key to another.
DefaultsSeeded ==
    [][boot.pc # "listening" /\ boot'.pc = "listening" /\ faults' = faults =>
        \A i \in 1..Len(Defaults) :
            \/ Defaults[i] \in DOMAIN tenants'
            \/ \E j \in 1..i : Taken(Defaults[j], Preset[Defaults[j]])']_vars

\* A tenant that was created and then removed does not come back: a PATCH that
\* lost its race with the DELETE finds nothing.
RemovedStaysRemoved ==
    [][\A q \in Requests : request[q].pc = "created" /\ q \notin DOMAIN tenants
        => q \notin DOMAIN tenants']_vars

=============================================================================
