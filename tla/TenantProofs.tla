----------------------------- MODULE TenantProofs -----------------------------
(***************************************************************************)
(* Theorems about TenantRegistry, and about Intake, which has it in it.    *)
(***************************************************************************)
EXTENDS Intake, SequenceTheorems, TLAPS

\* The default the seed is at.
LEMMA SeedRefs ==
    ASSUME TenantTypeOK, boot.pc # "listening"
    PROVE  /\ Defaults[boot.at] \in Ids
           /\ Preset[Defaults[boot.at]] \in Tenant
BY TenantAssumption, LenProperties DEF TenantTypeOK, Ids, DefaultIds

LEMMA BodiesMakeTenants ==
    ASSUME NEW body \in Change
    PROVE  /\ body.name # None /\ body.key # None => Created(body) \in Tenant
           /\ \A doc \in Tenant : Updated(doc, body) \in Tenant
BY DEF Change, Created, Updated, Given, Tenant, Status

\* A step of the system writes one valid, untaken document, removes one, or
\* leaves the collection alone.
WriteStep == \E id \in Ids, doc \in Tenant : ~Taken(id, doc) /\ Write(id, doc)

RemoveStep ==
    \E id \in Ids : tenants' = [i \in DOMAIN tenants \ {id} |-> tenants[i]]

\* A creation past findOne has a name and a key.
FullBodies ==
    \A q \in Requests : request[q].pc \in {"find", "save"} =>
        /\ request[q].id = q
        /\ request[q].body.name # None /\ request[q].body.key # None

TypeInv == TenantTypeOK /\ FullBodies

LEMMA CollectionStep ==
    ASSUME TypeInv, [Next]_vars
    PROVE  UNCHANGED tenants \/ WriteStep \/ RemoveStep
<1>0. /\ request \in [Requests -> [pc: RequestPc, id: Ids, body: Change]]
      /\ \A i \in DOMAIN tenants : tenants[i] \in Tenant
  BY DEF TypeInv, TenantTypeOK
<1>1. ASSUME NEW q \in Requests, RequestStep(q)
      PROVE  UNCHANGED tenants \/ WriteStep \/ RemoveStep
  <2>0. request[q].id \in Ids /\ request[q].body \in Change /\ q \in Ids
    BY <1>0 DEF Ids
  <2>1. CASE SaveTenant(q)
    <3>1. Created(request[q].body) \in Tenant
      BY <2>0, <2>1, BodiesMakeTenants DEF SaveTenant, TypeInv, FullBodies
    <3> QED
      BY <2>0, <2>1, <3>1 DEF SaveTenant, WriteStep
  <2>2. CASE UpdateTenant(q)
    <3>1. request[q].id \in DOMAIN tenants =>
             Updated(tenants[request[q].id], request[q].body) \in Tenant
      BY <1>0, <2>0, BodiesMakeTenants
    <3> QED
      BY <2>0, <2>2, <3>1 DEF UpdateTenant, WriteStep
  <2>3. CASE RemoveTenant(q)
    BY <2>0, <2>3 DEF RemoveTenant, RemoveStep
  <2>4. CASE ~(SaveTenant(q) \/ UpdateTenant(q) \/ RemoveTenant(q))
    BY <1>1, <2>4 DEF RequestStep, PostTenant, Admit, Refuse, FindName, RequestFault
  <2> QED
    BY <2>1, <2>2, <2>3, <2>4
<1>2. CASE SeedCreate
  <2>1. boot.pc # "listening"
    BY <1>2 DEF SeedCreate
  <2> QED
    BY <1>2, <2>1, SeedRefs DEF SeedCreate, WriteStep, TypeInv
<1>3. CASE SeedCheck \/ SeedFault \/ Restart \/ UNCHANGED vars
  BY <1>3 DEF SeedCheck, SeedFault, Restart, vars
<1> QED
  BY <1>1, <1>2, <1>3 DEF Next, Seed

-----------------------------------------------------------------------------
(* Type correctness *)

LEMMA CollectionTypes ==
    ASSUME TypeInv, UNCHANGED tenants \/ WriteStep \/ RemoveStep
    PROVE  DOMAIN tenants' \subseteq Ids /\ \A i \in DOMAIN tenants' : tenants'[i] \in Tenant
<1>0. DOMAIN tenants \subseteq Ids /\ \A i \in DOMAIN tenants : tenants[i] \in Tenant
  BY DEF TypeInv, TenantTypeOK
<1> QED
  BY <1>0 DEF WriteStep, RemoveStep, Write

\* What a request's step does to its record, and the seed to its own.
LEMMA RequestTypes ==
    ASSUME TypeInv, NEW q \in Requests, RequestStep(q)
    PROVE  /\ request' \in [Requests -> [pc: RequestPc, id: Ids, body: Change]]
           /\ FullBodies'
           /\ UNCHANGED <<boot, crashes>> /\ faults' \in 0..MaxFaults
<1>0. /\ request \in [Requests -> [pc: RequestPc, id: Ids, body: Change]]
      /\ DOMAIN tenants \subseteq Ids /\ q \in Ids /\ FullBodies
      /\ faults \in 0..MaxFaults /\ MaxFaults \in Nat
  BY TenantAssumption DEF TypeInv, TenantTypeOK, Ids
<1>1. NoBody \in Change /\ Bodies \subseteq Change
  BY TenantAssumption DEF NoBody, Change
<1>2. PICK r \in [pc: RequestPc, id: Ids, body: Change] :
         /\ request' = [request EXCEPT ![q] = r]
         /\ r.pc \in {"find", "save"} =>
               r.id = q /\ r.body.name # None /\ r.body.key # None
  <2>1. ASSUME NEW body \in Bodies, PostTenant(q, body)
        PROVE  [pc |-> "find", id |-> q, body |-> body] \in [pc: RequestPc, id: Ids, body: Change]
    BY <1>0, <1>1 DEF RequestPc
  <2>2. CASE \E body \in Bodies : PostTenant(q, body)
    BY <2>1, <2>2 DEF PostTenant
  <2>3. ASSUME NEW id \in DOMAIN tenants, NEW body \in Change,
               Admit(q, id, "update", body) \/ Admit(q, id, "remove", body)
        PROVE  \E r \in [pc: RequestPc, id: Ids, body: Change] :
                  request' = [request EXCEPT ![q] = r] /\ r.pc \notin {"find", "save"}
    <3>1. /\ [pc |-> "update", id |-> id, body |-> body] \in [pc: RequestPc, id: Ids, body: Change]
          /\ [pc |-> "remove", id |-> id, body |-> body] \in [pc: RequestPc, id: Ids, body: Change]
      BY <1>0 DEF RequestPc
    <3> QED
      BY <2>3, <3>1 DEF Admit
  <2>4. ASSUME NEW pc \in RequestPc, Proceed(q, pc), pc # "find",
               pc = "save" => request[q].pc = "find"
        PROVE  \E r \in [pc: RequestPc, id: Ids, body: Change] :
                  /\ request' = [request EXCEPT ![q] = r]
                  /\ r.pc \in {"find", "save"} =>
                       r.id = q /\ r.body.name # None /\ r.body.key # None
    <3> DEFINE r == [request[q] EXCEPT !.pc = pc]
    <3>1. r \in [pc: RequestPc, id: Ids, body: Change] /\ request' = [request EXCEPT ![q] = r]
      BY <1>0, <2>4 DEF Proceed
    <3>2. r.id = request[q].id /\ r.body = request[q].body /\ r.pc = pc
      BY <1>0
    <3> QED
      BY <1>0, <2>4, <3>1, <3>2 DEF FullBodies
  <2>5. CASE Refuse(q)
    BY <2>4, <2>5 DEF Refuse, RequestPc
  <2>6. CASE FindName(q)
    BY <2>4, <2>6 DEF FindName, RequestPc
  <2>7. CASE SaveTenant(q)
    BY <2>4, <2>7 DEF SaveTenant, RequestPc
  <2>8. CASE UpdateTenant(q)
    BY <2>4, <2>8 DEF UpdateTenant, RequestPc
  <2>9. CASE RemoveTenant(q) \/ RequestFault(q)
    BY <2>4, <2>9 DEF RemoveTenant, RequestFault, RequestPc
  <2> QED
    BY <1>1, <2>2, <2>3, <2>5, <2>6, <2>7, <2>8, <2>9 DEF RequestStep
<1>3. UNCHANGED <<boot, crashes>> /\ faults' \in 0..MaxFaults
  BY <1>0 DEF RequestStep, PostTenant, Admit, Refuse, FindName, SaveTenant, UpdateTenant,
              RemoveTenant, RequestFault, Proceed
<1> QED
  BY <1>0, <1>2, <1>3 DEF FullBodies

LEMMA SeedTypes ==
    ASSUME TypeInv, Seed
    PROVE  /\ boot' \in [pc: {"check", "create", "listening"}, at: 1..(Len(Defaults) + 1)]
           /\ boot'.pc # "listening" => boot'.at \in 1..Len(Defaults)
           /\ UNCHANGED <<request, crashes>> /\ faults' \in 0..MaxFaults
<1>0. /\ boot \in [pc: {"check", "create", "listening"}, at: 1..(Len(Defaults) + 1)]
      /\ boot.pc # "listening" /\ boot.at \in 1..Len(Defaults)
      /\ Len(Defaults) \in Nat /\ MaxFaults \in Nat /\ faults \in 0..MaxFaults
  BY TenantAssumption, LenProperties
     DEF TypeInv, TenantTypeOK, Seed, SeedCheck, SeedCreate, SeedFault
<1>1. SeedOnwards \/ SeedOver \/ boot' = [boot EXCEPT !.pc = "create"]
  BY DEF Seed, SeedCheck, SeedCreate, SeedFault
<1>2. UNCHANGED <<request, crashes>> /\ faults' \in 0..MaxFaults
  BY <1>0 DEF Seed, SeedCheck, SeedCreate, SeedFault
<1> QED
  BY <1>0, <1>1, <1>2 DEF SeedOnwards, SeedOver

LEMMA RestartTypes ==
    ASSUME TypeInv, Restart
    PROVE  /\ request' \in [Requests -> [pc: RequestPc, id: Ids, body: Change]]
           /\ FullBodies'
           /\ \A q \in Requests : request'[q].pc \notin InFlight
           /\ boot' = [pc |-> "check", at |-> 1] /\ crashes' \in 0..MaxCrashes
           /\ UNCHANGED <<tenants, faults>>
<1>0. /\ request \in [Requests -> [pc: RequestPc, id: Ids, body: Change]]
      /\ crashes \in 0..MaxCrashes /\ MaxCrashes \in Nat
  BY TenantAssumption DEF TypeInv, TenantTypeOK
<1>1. \A q \in Requests : [request[q] EXCEPT !.pc = "lost"] \in [pc: RequestPc, id: Ids, body: Change]
  BY <1>0 DEF RequestPc
<1> QED
  BY <1>0, <1>1 DEF Restart, InFlight, FullBodies

LEMMA InitTypes == Init => TypeInv
<1> SUFFICES ASSUME Init PROVE TypeInv
  OBVIOUS
<1>1. NoBody \in Change /\ Len(Defaults) \in Nat \ {0}
  BY TenantAssumption, EmptySeq, LenProperties DEF NoBody, Change
<1>2. \A q \in Requests : [pc |-> "idle", id |-> q, body |-> NoBody] \in [pc: RequestPc, id: Ids, body: Change]
  BY <1>1 DEF RequestPc, Ids
<1> QED
  BY <1>1, <1>2, TenantAssumption DEF Init, TypeInv, TenantTypeOK, FullBodies

LEMMA NextTypes == TypeInv /\ [Next]_vars => TypeInv'
<1> SUFFICES ASSUME TypeInv, [Next]_vars
             PROVE  TypeInv'
  OBVIOUS
<1>0. DOMAIN tenants' \subseteq Ids /\ \A i \in DOMAIN tenants' : tenants'[i] \in Tenant
  BY CollectionStep, CollectionTypes
<1>1. CASE \E q \in Requests : RequestStep(q)
  BY <1>0, <1>1, RequestTypes DEF TypeInv, TenantTypeOK
<1>2. CASE Seed
  BY <1>0, <1>2, SeedTypes DEF TypeInv, TenantTypeOK, FullBodies
<1>3. CASE Restart
  <2>1. Len(Defaults) \in Nat \ {0}
    BY TenantAssumption, EmptySeq, LenProperties
  <2> QED
    BY <1>0, <1>3, <2>1, RestartTypes DEF TypeInv, TenantTypeOK
<1>4. CASE UNCHANGED vars
  BY <1>0, <1>4 DEF vars, TypeInv, TenantTypeOK, FullBodies
<1> QED
  BY <1>1, <1>2, <1>3, <1>4 DEF Next

\* Every reachable state is typed, and the seed never runs past its list.
THEOREM TenantsTyped == Spec => []TenantTypeOK
<1>1. TypeInv => TenantTypeOK
  BY DEF TypeInv
<1> QED
  BY <1>1, InitTypes, NextTypes, PTL DEF Spec

-----------------------------------------------------------------------------
(* Unique names and keys *)

\* However requests and the seed overlap, no two tenants share a name or a key:
\* the write that would make it so is refused, whatever was looked up before.
THEOREM TenantsUnique == Spec => []UniqueTenants
<1>1. Init => UniqueTenants
  BY DEF Init, UniqueTenants
<1>2. TypeInv /\ UniqueTenants /\ [Next]_vars => UniqueTenants'
  <2> SUFFICES ASSUME TypeInv, UniqueTenants, [Next]_vars
               PROVE  UniqueTenants'
    OBVIOUS
  <2>1. CASE UNCHANGED tenants
    BY <2>1 DEF UniqueTenants
  <2>2. CASE WriteStep
    BY <2>2 DEF UniqueTenants, WriteStep, Write, Taken
  <2>3. CASE RemoveStep
    BY <2>3 DEF UniqueTenants, RemoveStep
  <2> QED
    BY <2>1, <2>2, <2>3, CollectionStep
<1> QED
  BY <1>1, <1>2, InitTypes, NextTypes, PTL DEF Spec

-----------------------------------------------------------------------------
(* The seed *)

\* Until the server listens no request is under way, the defaults before the one
\* the seed is at are there, and the one it is about to create is not.
BootInv ==
    boot.pc # "listening" =>
        /\ \A q \in Requests : request[q].pc \notin InFlight
        /\ \A i \in 1..(boot.at - 1) : Defaults[i] \in DOMAIN tenants
        /\ boot.pc = "create" => Defaults[boot.at] \notin DOMAIN tenants

\* Requests only move while the server listens.
LEMMA RequestsWait ==
    ASSUME BootInv, NEW q \in Requests, RequestStep(q)
    PROVE  Listening
BY DEF BootInv, InFlight, RequestStep, PostTenant, Admit, Refuse, FindName, SaveTenant,
       UpdateTenant, RemoveTenant, RequestFault, Listening

LEMMA BootStep == TypeInv /\ BootInv /\ [Next]_vars => BootInv'
<1> SUFFICES ASSUME TypeInv, BootInv, [Next]_vars
             PROVE  BootInv'
  OBVIOUS
<1>0. /\ boot \in [pc: {"check", "create", "listening"}, at: 1..(Len(Defaults) + 1)]
      /\ Len(Defaults) \in Nat
  BY TenantAssumption, LenProperties DEF TypeInv, TenantTypeOK
<1>1. ASSUME NEW q \in Requests, RequestStep(q)
      PROVE  BootInv'
  BY <1>1, RequestTypes, RequestsWait DEF BootInv, Listening
<1>2. CASE SeedCheck
  <2>1. CASE Defaults[boot.at] \in DOMAIN tenants
    BY <1>0, <1>2, <2>1 DEF SeedCheck, SeedOnwards, BootInv
  <2>2. CASE Defaults[boot.at] \notin DOMAIN tenants
    BY <1>0, <1>2, <2>2 DEF SeedCheck, BootInv
  <2> QED
    BY <2>1, <2>2
<1>3. CASE SeedCreate
  BY <1>0, <1>3 DEF SeedCreate, SeedOver, SeedOnwards, Write, BootInv
<1>4. CASE SeedFault
  BY <1>4 DEF SeedFault, SeedOver, BootInv
<1>5. CASE Restart
  BY <1>5, RestartTypes DEF BootInv
<1>6. CASE UNCHANGED vars
  BY <1>6 DEF vars, BootInv
<1> QED
  BY <1>1, <1>2, <1>3, <1>4, <1>5, <1>6 DEF Next, Seed

LEMMA InitBoot == Init => BootInv
BY DEF Init, BootInv, InFlight

\* The server listens with every default in place, but for those from the first
\* on whose name or key another tenant has, or a fault.
THEOREM SeedCompletes == Spec => DefaultsSeeded
<1>1. ASSUME TypeInv, BootInv, [Next]_vars,
             boot.pc # "listening", boot'.pc = "listening", faults' = faults,
             NEW i \in 1..Len(Defaults)
      PROVE  \/ Defaults[i] \in DOMAIN tenants'
             \/ \E j \in 1..i : Taken(Defaults[j], Preset[Defaults[j]])'
  <2>0. /\ boot \in [pc: {"check", "create", "listening"}, at: 1..(Len(Defaults) + 1)]
        /\ boot.at \in 1..Len(Defaults) /\ Len(Defaults) \in Nat /\ faults \in Nat
        /\ \A k \in 1..(boot.at - 1) : Defaults[k] \in DOMAIN tenants
    BY <1>1, TenantAssumption, LenProperties DEF TypeInv, TenantTypeOK, BootInv
  <2>1. SeedCheck \/ SeedCreate
    <3>1. ~(\E q \in Requests : RequestStep(q))
      BY <1>1, RequestsWait DEF Listening
    <3>2. ~SeedFault /\ ~Restart
      BY <1>1, <2>0 DEF SeedFault, Restart
    <3> QED
      BY <1>1, <3>1, <3>2 DEF Next, Seed, vars
  <2>2. CASE SeedCheck
    BY <1>1, <2>0, <2>2 DEF SeedCheck, SeedOnwards, SeedOver
  <2>3. CASE SeedCreate
    <3>1. CASE Taken(Defaults[boot.at], Preset[Defaults[boot.at]]) /\ UNCHANGED tenants
      <4>1. PICK j \in 1..Len(Defaults) : j = boot.at
        BY <2>0
      <4>2. Taken(Defaults[j], Preset[Defaults[j]])'
        BY <3>1, <4>1 DEF Taken
      <4>3. CASE i < j
        BY <2>0, <3>1, <4>1, <4>3
      <4>4. CASE i >= j
        BY <4>1, <4>2, <4>4
      <4> QED
        BY <4>1, <4>3, <4>4
    <3>2. CASE SeedOnwards /\ Write(Defaults[boot.at], Preset[Defaults[boot.at]])
      BY <1>1, <2>0, <3>2 DEF SeedOnwards, Write
    <3> QED
      BY <2>3, <3>1, <3>2 DEF SeedCreate
  <2> QED
    BY <2>1, <2>2, <2>3
<1>2. TypeInv /\ BootInv /\ [Next]_vars =>
         [boot.pc # "listening" /\ boot'.pc = "listening" /\ faults' = faults =>
            \A i \in 1..Len(Defaults) :
               \/ Defaults[i] \in DOMAIN tenants'
               \/ \E j \in 1..i : Taken(Defaults[j], Preset[Defaults[j]])']_vars
  BY <1>1
<1> QED
  BY <1>2, InitTypes, NextTypes, InitBoot, BootStep, PTL DEF Spec, DefaultsSeeded

-----------------------------------------------------------------------------
(* Suspension and removal *)

\* Whom a step may write: the tenant of a request under way, or a default the
\* seed did not find.
LEMMA Writers ==
    ASSUME TypeInv, BootInv, [Next]_vars, NEW id \in Ids
    PROVE  \/ id \in DOMAIN tenants /\ id \in DOMAIN tenants' /\ tenants'[id] = tenants[id]
           \/ id \notin DOMAIN tenants /\ id \notin DOMAIN tenants'
           \/ \E q \in Requests : request[q].id = id /\ request[q].pc \in InFlight
                  /\ (request[q].pc = "save" \/ id \in DOMAIN tenants)
                  /\ (request[q].pc = "save" => id = q)
           \/ id \in DefaultIds /\ id \notin DOMAIN tenants
<1> DEFINE Kept == \/ id \in DOMAIN tenants /\ id \in DOMAIN tenants' /\ tenants'[id] = tenants[id]
                   \/ id \notin DOMAIN tenants /\ id \notin DOMAIN tenants'
<1>1. ASSUME NEW q \in Requests, RequestStep(q), ~Kept
      PROVE  /\ request[q].id = id /\ request[q].pc \in InFlight
             /\ (request[q].pc = "save" \/ id \in DOMAIN tenants)
             /\ (request[q].pc = "save" => id = q)
  <2>1. CASE SaveTenant(q)
    BY <1>1, <2>1 DEF SaveTenant, Write, InFlight, TypeInv, FullBodies
  <2>2. CASE UpdateTenant(q)
    BY <1>1, <2>2 DEF UpdateTenant, Write, InFlight
  <2>3. CASE RemoveTenant(q)
    BY <1>1, <2>3 DEF RemoveTenant, InFlight
  <2>4. CASE ~(SaveTenant(q) \/ UpdateTenant(q) \/ RemoveTenant(q))
    BY <1>1, <2>4 DEF RequestStep, PostTenant, Admit, Refuse, FindName, RequestFault
  <2> QED
    BY <2>1, <2>2, <2>3, <2>4
<1>2. ASSUME SeedCreate, ~Kept
      PROVE  id \in DefaultIds /\ id \notin DOMAIN tenants
  <2>1. /\ Defaults[boot.at] \notin DOMAIN tenants /\ Defaults[boot.at] \in DefaultIds
    BY <1>2, TenantAssumption, LenProperties
       DEF BootInv, SeedCreate, TypeInv, TenantTypeOK, DefaultIds
  <2> QED
    BY <1>2, <2>1 DEF SeedCreate, Write
<1>3. SeedCheck \/ SeedFault \/ Restart \/ UNCHANGED vars => Kept
  BY DEF SeedCheck, SeedFault, Restart, vars
<1> QED
  BY <1>1, <1>2, <1>3 DEF Next, Seed

\* A tenant is not there before the request that creates it has saved it.
CreatorInv ==
    \A q \in Requests : request[q].pc \in {"idle", "find", "save"} => q \notin DOMAIN tenants

\* The record of a request changes by its own step or a restart, and a request
\* that was not idle keeps its tenant.
LEMMA RequestMoves ==
    ASSUME TypeInv, [Next]_vars, NEW q \in Requests
    PROVE  \/ request'[q] = request[q]
           \/ request[q].pc \in InFlight /\ request'[q].pc = "lost"
           \/ /\ request[q].pc = "idle"
              /\ \/ request'[q].pc = "find" /\ request'[q].id = q
                 \/ /\ request'[q].pc \in {"update", "remove"}
                    /\ request'[q].id \in DOMAIN tenants
                    /\ tenants[request'[q].id].status = "active"
                 \/ request'[q].pc = "refused"
           \/ /\ request[q].pc \in InFlight /\ request'[q].id = request[q].id
              /\ request'[q].pc # "idle"
              /\ request'[q].pc # "find"
              /\ request'[q].pc = "save" => request[q].pc = "find"
              /\ request'[q].pc = "created" => request[q].pc = "save"
<1>0. request \in [Requests -> [pc: RequestPc, id: Ids, body: Change]]
  BY DEF TypeInv, TenantTypeOK
<1>1. ASSUME NEW p \in Requests, RequestStep(p), p # q
      PROVE  request'[q] = request[q]
  BY <1>0, <1>1 DEF RequestStep, PostTenant, Admit, Refuse, FindName, SaveTenant,
                    UpdateTenant, RemoveTenant, RequestFault, Proceed
<1>2. CASE \E body \in Bodies : PostTenant(q, body)
  BY <1>0, <1>2 DEF PostTenant
<1>3. CASE \/ \E id \in DOMAIN tenants, body \in Bodies : Admit(q, id, "update", body)
           \/ \E id \in DOMAIN tenants : Admit(q, id, "remove", NoBody)
  BY <1>0, <1>3 DEF Admit
<1>4. CASE Refuse(q)
  BY <1>0, <1>4 DEF Refuse, Proceed
<1>5. CASE FindName(q) \/ SaveTenant(q) \/ UpdateTenant(q) \/ RemoveTenant(q) \/ RequestFault(q)
  BY <1>0, <1>5 DEF FindName, SaveTenant, UpdateTenant, RemoveTenant, RequestFault,
                    Proceed, InFlight
<1>6. CASE Restart
  BY <1>0, <1>6 DEF Restart
<1>7. CASE Seed \/ UNCHANGED vars
  BY <1>7 DEF Seed, SeedCheck, SeedCreate, SeedFault, vars
<1> QED
  BY <1>1, <1>2, <1>3, <1>4, <1>5, <1>6, <1>7 DEF Next, RequestStep

LEMMA CreatorStep == TypeInv /\ BootInv /\ CreatorInv /\ [Next]_vars => CreatorInv'
<1> SUFFICES ASSUME TypeInv, BootInv, CreatorInv, [Next]_vars, NEW q \in Requests,
                    request'[q].pc \in {"idle", "find", "save"}
             PROVE  q \notin DOMAIN tenants'
  BY DEF CreatorInv
<1>0. q \in Ids /\ q \notin DefaultIds
  BY TenantAssumption DEF Ids
<1>1. request[q].pc \in {"idle", "find", "save"} /\ q \notin DOMAIN tenants
  BY RequestMoves DEF CreatorInv
<1>2. CASE request[q].pc = "save" /\ q \in DOMAIN tenants'
  <2>1. SaveTenant(q)
    <3>1. \E p \in Requests : RequestStep(p)
      BY <1>0, <1>1, <1>2 DEF Next, Seed, SeedCheck, SeedFault, Restart, SeedCreate, BootInv,
            Write, vars, InFlight
    <3>2. PICK p \in Requests : SaveTenant(p) \/ UpdateTenant(p) \/ RemoveTenant(p)
      BY <1>1, <1>2, <3>1 DEF RequestStep, PostTenant, Admit, Refuse, FindName, RequestFault
    <3> QED
      BY <1>1, <1>2, <3>2 DEF SaveTenant, UpdateTenant, RemoveTenant, Write
  <2> QED
    BY <1>2, <2>1, RequestMoves DEF SaveTenant, Proceed, TypeInv, TenantTypeOK, Write
<1>3. CASE request[q].pc # "save" /\ q \in DOMAIN tenants'
  BY <1>0, <1>1, <1>3, Writers
<1> QED
  BY <1>2, <1>3

LEMMA InitCreator == Init => CreatorInv
BY DEF Init, CreatorInv

LEMMA LockedStays ==
    ASSUME TypeInv, BootInv, CreatorInv, [Next]_vars, NEW id \in Ids, Locked(id)
    PROVE  Locked(id)'
<1>1. id \in DOMAIN tenants' /\ tenants'[id] = tenants[id]
  BY Writers DEF Locked
<1>2. ASSUME NEW q \in Requests, request'[q].id = id
      PROVE  request'[q].pc \notin InFlight
  BY <1>2, RequestMoves DEF Locked, CreatorInv, InFlight
<1> QED
  BY <1>1, <1>2 DEF Locked

\* A suspended tenant with no request left under way stays suspended for good.
THEOREM SuspensionIsFinal == Spec => LockedForGood
<1>1. TypeInv /\ BootInv /\ CreatorInv /\ [Next]_vars =>
         [\A id \in Ids : Locked(id) => Locked(id)']_vars
  BY LockedStays
<1> QED
  BY <1>1, InitTypes, NextTypes, InitBoot, BootStep, InitCreator, CreatorStep, PTL
     DEF Spec, LockedForGood

\* A created tenant that was removed does not come back.
THEOREM RemovalIsFinal == Spec => RemovedStaysRemoved
<1>1. ASSUME TypeInv, BootInv, [Next]_vars, NEW q \in Requests,
             request[q].pc = "created", q \notin DOMAIN tenants
      PROVE  q \notin DOMAIN tenants'
  <2>1. q \in Ids /\ q \notin DefaultIds /\ request[q].pc # "save"
    BY <1>1, TenantAssumption DEF Ids
  <2> QED
    BY <1>1, <2>1, Writers
<1>2. TypeInv /\ BootInv /\ [Next]_vars =>
         [\A q \in Requests : request[q].pc = "created" /\ q \notin DOMAIN tenants
            => q \notin DOMAIN tenants']_vars
  BY <1>1
<1> QED
  BY <1>2, InitTypes, NextTypes, InitBoot, BootStep, PTL DEF Spec, RemovedStaysRemoved

-----------------------------------------------------------------------------
(* Deliveries *)

LEMMA IntakeStepIsNext == [IntakeNext]_allVars => [Next]_vars
BY DEF IntakeNext, allVars, DeliveryStep, Next

\* The collection of tenants behaves the same while webhooks are delivered.
THEOREM IntakeImplementsTenants == IntakeSpec => Spec
<1>1. IntakeInit => Init
  BY DEF IntakeInit
<1> QED
  BY <1>1, IntakeStepIsNext, PTL DEF IntakeSpec, Spec

\* What is stored has its webhook's tenant and identifier, once, and is what
\* a delivery is answered with; only deliveries to a tenant are let in.
EventsInv ==
    /\ \A i \in DOMAIN stored : SameEvent(stored[i], stored[i].webhook)
    /\ \A i, j \in DOMAIN stored :
          SameEvent(stored[i], stored[j].webhook) => i = j
    /\ \A d \in Deliveries :
          /\ delivery[d].pc \in Accepted \cup {"add"} => SameEvent(stored[delivery[d].event], Sent(d))
          /\ delivery[d].pc \in Admitted \cup {"gate"} => Sent(d).to \in Ids

IntakeInv == IntakeTypeOK /\ EventsInv

LEMMA SendingsTyped ==
    ASSUME NEW s \in Sendings
    PROVE  /\ s[1] \in Webhook
           /\ s[1].to # None => s[1].to \in Ids
<1>1. s \in Webhook \X Signature
  BY IntakeAssumption
<1> QED
  BY <1>1 DEF Webhook

LEMMA InitIntake == IntakeInit => IntakeInv
BY EmptySeq DEF IntakeInit, IntakeInv, IntakeTypeOK, EventsInv, DeliveryPc, Accepted, Admitted

Record == [pc: DeliveryPc, sent: Sendings \cup {<<>>}, event: Nat]

\* A delivery's step that stores nothing.
LEMMA OnwardsStep ==
    ASSUME IntakeInv, NEW d \in Deliveries, UNCHANGED stored,
           delivery' \in [Deliveries -> Record],
           \A e \in Deliveries \ {d} : delivery'[e] = delivery[e],
           delivery'[d].sent \in Sendings,
           delivery'[d].pc \in Accepted \cup {"add"} =>
              /\ delivery'[d].event \in DOMAIN stored
              /\ SameEvent(stored[delivery'[d].event], delivery'[d].sent[1]),
           delivery'[d].pc \in Admitted \cup {"gate"} => delivery'[d].sent[1].to \in Ids
    PROVE  IntakeInv'
<1>1. IntakeTypeOK /\ EventsInv
  BY DEF IntakeInv
<1>2. IntakeTypeOK'
  BY <1>1 DEF IntakeTypeOK, Record
<1>3. EventsInv'
  BY <1>1 DEF EventsInv, Sent, SameEvent
<1> QED
  BY <1>2, <1>3 DEF IntakeInv

LEMMA SaveStep ==
    ASSUME IntakeInv, NEW d \in Deliveries, delivery[d].pc = "save",
           \A i \in DOMAIN stored : ~SameEvent(stored[i], Sent(d)),
           stored' = Append(stored, [tenantId |-> Sent(d).to,
                                     eventIdentifier |-> Identifier(Sent(d)),
                                     webhook |-> Sent(d)]),
           delivery' = [delivery EXCEPT ![d].pc = "add", ![d].event = Len(stored) + 1]
    PROVE  IntakeInv'
<1> DEFINE w == Sent(d)
           new == [tenantId |-> w.to, eventIdentifier |-> Identifier(w), webhook |-> w]
           n == Len(stored) + 1
<1>0. /\ IntakeTypeOK /\ EventsInv /\ stored \in Seq(Event)
      /\ delivery \in [Deliveries -> [pc: DeliveryPc, sent: Sendings \cup {<<>>}, event: Nat]]
  BY DEF IntakeInv, IntakeTypeOK
<1>1. delivery[d].sent \in Sendings /\ w.to \in Ids
  BY <1>0 DEF IntakeTypeOK, EventsInv, Admitted
<1>2. new \in Event
  BY <1>1 DEF Event, Sent
<1>3. /\ stored' \in Seq(Event) /\ n \in Nat
      /\ DOMAIN stored' = DOMAIN stored \cup {n} /\ n \notin DOMAIN stored
      /\ stored'[n] = new /\ \A i \in DOMAIN stored : stored'[i] = stored[i]
  <2>1. /\ Append(stored, new) \in Seq(Event) /\ Len(Append(stored, new)) = Len(stored) + 1
        /\ \A i \in 1..Len(stored) : Append(stored, new)[i] = stored[i]
        /\ Append(stored, new)[Len(stored) + 1] = new
    BY <1>0, <1>2, AppendProperties
  <2>2. /\ DOMAIN stored = 1..Len(stored) /\ Len(stored) \in Nat
        /\ DOMAIN Append(stored, new) = 1..Len(Append(stored, new))
    BY <1>0, <2>1, LenProperties
  <2> HIDE DEF new
  <2>3. stored' = Append(stored, new)
    BY DEF new
  <2> QED
    BY <2>1, <2>2, <2>3
<1>4. /\ delivery'[d] = [pc |-> "add", sent |-> delivery[d].sent, event |-> n]
      /\ \A e \in Deliveries \ {d} : delivery'[e] = delivery[e]
      /\ delivery' \in [Deliveries -> [pc: DeliveryPc, sent: Sendings \cup {<<>>}, event: Nat]]
  BY <1>0, <1>3 DEF DeliveryPc, Admitted
<1>5. IntakeTypeOK'
  BY <1>0, <1>1, <1>3, <1>4 DEF IntakeTypeOK
<1>6. new.tenantId = w.to /\ new.eventIdentifier = Identifier(w) /\ new.webhook = w
  OBVIOUS
<1> HIDE DEF new, n
<1>7. \A i \in DOMAIN stored' : SameEvent(stored'[i], stored'[i].webhook)
  BY <1>0, <1>3, <1>6 DEF EventsInv, SameEvent
<1>8. \A i, j \in DOMAIN stored' : SameEvent(stored'[i], stored'[j].webhook) => i = j
  <2>1. \A i \in DOMAIN stored : ~SameEvent(new, stored[i].webhook)
    BY <1>0, <1>6 DEF EventsInv, SameEvent
  <2> QED
    BY <1>0, <1>3, <1>6, <2>1 DEF EventsInv
<1>9. \A e \in Deliveries :
        /\ delivery'[e].pc \in Accepted \cup {"add"} => SameEvent(stored'[delivery'[e].event], Sent(e)')
        /\ delivery'[e].pc \in Admitted \cup {"gate"} => Sent(e)'.to \in Ids
  BY <1>0, <1>1, <1>3, <1>4, <1>6 DEF EventsInv, IntakeTypeOK, Sent, SameEvent
<1> QED
  BY <1>5, <1>7, <1>8, <1>9 DEF IntakeInv, EventsInv

LEMMA DeliveryKeeps ==
    ASSUME IntakeInv, NEW d \in Deliveries, DeliveryStep(d)
    PROVE  IntakeInv'
<1>0. /\ delivery \in [Deliveries -> [pc: DeliveryPc, sent: Sendings \cup {<<>>}, event: Nat]]
      /\ delivery[d].pc # "idle" => delivery[d].sent \in Sendings
      /\ delivery[d].pc \in Admitted \cup {"gate"} => Sent(d).to \in Ids
      /\ delivery[d].pc = "add" =>
            delivery[d].event \in DOMAIN stored /\ SameEvent(stored[delivery[d].event], Sent(d))
      /\ DOMAIN stored \subseteq Nat
  BY LenProperties DEF IntakeInv, IntakeTypeOK, EventsInv
<1>1. ASSUME NEW pc \in DeliveryPc, Go(d, pc), UNCHANGED stored,
             delivery[d].pc \in Admitted \cup {"gate"},
             pc \in Accepted \cup {"add"} => delivery[d].pc = "add"
      PROVE  IntakeInv'
  <2>1. /\ delivery' \in [Deliveries -> Record]
        /\ \A e \in Deliveries \ {d} : delivery'[e] = delivery[e]
        /\ delivery'[d].pc = pc /\ delivery'[d].sent = delivery[d].sent
        /\ delivery'[d].event = delivery[d].event
    BY <1>0, <1>1 DEF Go, Record
  <2>2. delivery[d].sent \in Sendings /\ delivery[d].sent[1].to \in Ids
    BY <1>0, <1>1 DEF Admitted, Sent
  <2>3. pc \in Accepted \cup {"add"} =>
           delivery[d].event \in DOMAIN stored /\ SameEvent(stored[delivery[d].event], delivery[d].sent[1])
    BY <1>0, <1>1 DEF Sent
  <2> QED
    BY <1>1, <2>1, <2>2, <2>3, OnwardsStep
<1>2. ASSUME NEW s \in Sendings, Arrive(d, s)
      PROVE  IntakeInv'
  <2> DEFINE pc == IF s[1].to = None THEN "refused" ELSE "gate"
  <2>1. pc \in DeliveryPc /\ pc \notin Accepted \cup {"add"} \cup Admitted
    BY DEF DeliveryPc, Accepted, Admitted
  <2>2. pc = "gate" => s[1].to \in Ids
    BY SendingsTyped
  <2>3. UNCHANGED stored /\ delivery' = [delivery EXCEPT ![d].pc = pc, ![d].sent = s]
    BY <1>2 DEF Arrive
  <2> HIDE DEF pc
  <2>4. /\ delivery' \in [Deliveries -> Record]
        /\ \A e \in Deliveries \ {d} : delivery'[e] = delivery[e]
        /\ delivery'[d].pc = pc /\ delivery'[d].sent = s
    BY <1>0, <2>1, <2>3 DEF Record
  <2> QED
    BY <2>1, <2>2, <2>3, <2>4, OnwardsStep
<1>3. CASE Gate(d) \/ VerifySignature(d) \/ Enqueue(d) \/ DeliveryFault(d)
  BY <1>1, <1>3 DEF Gate, VerifySignature, Enqueue, DeliveryFault, Admitted, Accepted, DeliveryPc
<1>4. CASE SaveEvent(d)
  <2>1. CASE Go(d, "find") /\ UNCHANGED stored
    BY <1>1, <1>4, <2>1 DEF SaveEvent, Admitted, Accepted, DeliveryPc
  <2> QED
    BY <1>4, <2>1, SaveStep DEF SaveEvent
<1>5. CASE FindExisting(d)
  <2>1. PICK i \in DOMAIN stored : /\ SameEvent(stored[i], Sent(d))
                                   /\ delivery' = [delivery EXCEPT ![d].pc = "known", ![d].event = i]
    BY <1>5 DEF FindExisting
  <2>2. delivery[d].sent \in Sendings /\ i \in Nat /\ UNCHANGED stored
    BY <1>0, <1>5, <2>1 DEF FindExisting
  <2>3. /\ delivery' \in [Deliveries -> Record]
        /\ \A e \in Deliveries \ {d} : delivery'[e] = delivery[e]
        /\ delivery'[d].pc = "known" /\ delivery'[d].sent = delivery[d].sent /\ delivery'[d].event = i
    BY <1>0, <2>1, <2>2 DEF Record, DeliveryPc, Accepted
  <2>4. SameEvent(stored[i], delivery[d].sent[1])
    BY <2>1 DEF Sent
  <2> QED
    BY <2>2, <2>3, <2>4, OnwardsStep DEF Admitted
<1> QED
  BY <1>2, <1>3, <1>4, <1>5 DEF DeliveryStep

LEMMA IntakeKeeps == IntakeInv /\ [IntakeNext]_allVars => IntakeInv'
<1> SUFFICES ASSUME IntakeInv, [IntakeNext]_allVars
             PROVE  IntakeInv'
  OBVIOUS
<1>1. CASE UNCHANGED intakeVars
  BY <1>1 DEF intakeVars, IntakeInv, IntakeTypeOK, EventsInv, Sent
<1>2. CASE CutOff /\ UNCHANGED stored
  <2>0. delivery \in [Deliveries -> [pc: DeliveryPc, sent: Sendings \cup {<<>>}, event: Nat]]
    BY DEF IntakeInv, IntakeTypeOK
  <2>1. \A d \in Deliveries :
          /\ [delivery[d] EXCEPT !.pc = "lost"]
               \in [pc: DeliveryPc, sent: Sendings \cup {<<>>}, event: Nat]
          /\ delivery'[d] = IF delivery[d].pc \in Admitted \cup {"gate"}
                            THEN [delivery[d] EXCEPT !.pc = "lost"] ELSE delivery[d]
    BY <1>2, <2>0 DEF CutOff, DeliveryPc
  <2>2. delivery' \in [Deliveries -> [pc: DeliveryPc, sent: Sendings \cup {<<>>}, event: Nat]]
    BY <1>2, <2>0, <2>1 DEF CutOff
  <2>3. \A d \in Deliveries :
          /\ delivery'[d].sent = delivery[d].sent /\ delivery'[d].event = delivery[d].event
          /\ delivery'[d].pc \in {delivery[d].pc, "lost"}
          /\ delivery'[d].pc = "lost" => delivery[d].pc # "idle"
    BY <2>0, <2>1 DEF Admitted, IntakeInv, IntakeTypeOK
  <2> QED
    BY <1>2, <2>2, <2>3 DEF IntakeInv, IntakeTypeOK, EventsInv, Sent, Accepted, Admitted
<1> QED
  BY <1>1, <1>2, DeliveryKeeps DEF IntakeNext, allVars

\* Deliveries and stored events stay in their types.
THEOREM IntakeTyped == IntakeSpec => []IntakeTypeOK
<1>1. IntakeInv => IntakeTypeOK
  BY DEF IntakeInv
<1> QED
  BY <1>1, InitIntake, IntakeKeeps, PTL DEF IntakeSpec

LEMMA AnswersStored ==
    ASSUME IntakeInv, NEW d \in Deliveries, delivery[d].pc \in Accepted
    PROVE  /\ delivery[d].sent \in Sendings /\ delivery[d].event \in DOMAIN stored
           /\ SameEvent(stored[delivery[d].event], Sent(d))
           /\ SameEvent(stored[delivery[d].event], stored[delivery[d].event].webhook)
           /\ \E s \in Sendings : stored[delivery[d].event].webhook = s[1]
<1>1. /\ delivery[d].sent \in Sendings /\ delivery[d].event \in DOMAIN stored
      /\ SameEvent(stored[delivery[d].event], Sent(d))
      /\ SameEvent(stored[delivery[d].event], stored[delivery[d].event].webhook)
  BY DEF IntakeInv, IntakeTypeOK, EventsInv, Accepted
<1>2. stored[delivery[d].event] \in Event
  BY <1>1, ElementOfSeq, LenProperties DEF IntakeInv, IntakeTypeOK
<1> QED
  BY <1>1, <1>2 DEF Event

\* A webhook sent again is answered with the event it was stored as.
THEOREM RepeatsFindTheirEvent == IntakeSpec => []RepeatsAreOne
<1>1. ASSUME IntakeInv PROVE RepeatsAreOne
  <2> SUFFICES ASSUME NEW d \in Deliveries, NEW e \in Deliveries,
                      delivery[d].pc \in Accepted, delivery[e].pc \in Accepted, Sent(d) = Sent(e)
               PROVE  delivery[d].event = delivery[e].event
    BY DEF RepeatsAreOne
  <2>1. SameEvent(stored[delivery[d].event], stored[delivery[e].event].webhook)
    BY <1>1, AnswersStored DEF SameEvent
  <2>2. delivery[d].event \in DOMAIN stored /\ delivery[e].event \in DOMAIN stored
    BY <1>1, AnswersStored
  <2> QED
    BY <1>1, <2>1, <2>2 DEF IntakeInv, EventsInv
<1> QED
  BY <1>1, InitIntake, IntakeKeeps, PTL DEF IntakeSpec

\* Webhooks of one identifier have one content, or are hashed and run together,
\* unless providers repeat theirs.
LEMMA IdentifiersTell ==
    ASSUME NEW s \in Sendings, NEW u \in Sendings, s[1].to = u[1].to,
           Identifier(s[1]) = Identifier(u[1]),
           ProviderId(s[1]) = None \/ IdTakenForUnique(s[1])
    PROVE  SameContent(u[1], s[1]) \/ RunTogether(u[1], s[1])
<1> DEFINE w == s[1]
           v == u[1]
<1>1. \A x \in {w, v} : ProviderId(x) \in Texts \cup {None} /\ Hash(x) \notin Texts
  <2>1. w \in Webhook /\ v \in Webhook
    BY SendingsTyped
  <2>2. \A x \in {w, v} : x.delivery \in Texts \cup {None}
    BY <2>1 DEF Webhook
  <2> QED
    BY <2>2, IntakeAssumption DEF ProviderId
<1>2. CASE ProviderId(w) = None
  <2>1. ProviderId(v) = None
    BY <1>1, <1>2 DEF Identifier
  <2>2. Hash(v) = Hash(w)
    BY <1>2, <2>1 DEF Identifier
  <2> QED
    BY <1>2, <2>1, <2>2 DEF Hash, RunTogether
<1>3. CASE ProviderId(w) # None
  <2>1. ProviderId(v) = ProviderId(w)
    BY <1>1, <1>3 DEF Identifier
  <2> QED
    BY <1>3, <2>1 DEF IdTakenForUnique
<1> QED
  BY <1>2, <1>3

\* No webhook is taken for another of other content, but for those whose
\* identifiers providers repeat, and those without whose source and type read as
\* another's do, written one after the other.
THEOREM AnswersAreOwn == IntakeSpec => []AnsweredForItself
<1>1. ASSUME IntakeInv PROVE AnsweredForItself
  <2> SUFFICES ASSUME NEW d \in Deliveries, delivery[d].pc \in Accepted,
                      ProviderId(Sent(d)) = None \/ IdTakenForUnique(Sent(d))
               PROVE  \/ SameContent(stored[delivery[d].event].webhook, Sent(d))
                      \/ RunTogether(stored[delivery[d].event].webhook, Sent(d))
    BY DEF AnsweredForItself
  <2>1. PICK s \in Sendings : stored[delivery[d].event].webhook = s[1]
    BY <1>1, AnswersStored
  <2>2. /\ delivery[d].sent \in Sendings /\ Sent(d) = delivery[d].sent[1]
        /\ s[1].to = Sent(d).to /\ Identifier(s[1]) = Identifier(Sent(d))
    BY <1>1, <2>1, AnswersStored DEF SameEvent, Sent
  <2> QED
    BY <2>1, <2>2, IdentifiersTell
<1> QED
  BY <1>1, InitIntake, IntakeKeeps, PTL DEF IntakeSpec

\* A suspended tenant with nobody let in takes no webhook any more.
THEOREM ClosedForWebhooks == IntakeSpec => ClosedTakesNothing
<1>1. ASSUME TypeInv, BootInv, CreatorInv, IntakeInv, [IntakeNext]_allVars,
             NEW id \in Ids, Closed(id)
      PROVE  Closed(id)' /\ EventsOf(id)' = EventsOf(id)
  <2>0. /\ delivery \in [Deliveries -> [pc: DeliveryPc, sent: Sendings \cup {<<>>}, event: Nat]]
        /\ stored \in Seq(Event) /\ Locked(id)
    BY <1>1 DEF IntakeInv, IntakeTypeOK, Closed
  <2>1. Locked(id)'
    BY <1>1, IntakeStepIsNext, LockedStays DEF Closed
  <2>2. CASE UNCHANGED intakeVars
    BY <1>1, <2>1, <2>2 DEF intakeVars, Closed, EventsOf, Sent
  <2>3. CASE CutOff /\ UNCHANGED stored
    <3>1. \A d \in Deliveries : delivery'[d].pc \in Admitted =>
             delivery[d].pc \in Admitted /\ delivery'[d] = delivery[d]
      BY <2>0, <2>3 DEF CutOff, Admitted
    <3> QED
      BY <1>1, <2>1, <2>3, <3>1 DEF Closed, EventsOf, Sent
  <2>4. ASSUME NEW d \in Deliveries, DeliveryStep(d)
        PROVE  Closed(id)' /\ EventsOf(id)' = EventsOf(id)
    <3>1. CASE \E s \in Sendings : Arrive(d, s)
      <4>1. \A e \in Deliveries : delivery'[e].pc \in Admitted =>
               delivery[e].pc \in Admitted /\ delivery'[e] = delivery[e]
        BY <2>0, <3>1 DEF Arrive, Admitted
      <4> QED
        BY <1>1, <2>1, <3>1, <4>1 DEF Closed, EventsOf, Sent, Arrive
    <3>2. ASSUME NEW pc, delivery' = [delivery EXCEPT ![d].pc = pc]
                         \/ \E event : delivery' = [delivery EXCEPT ![d].pc = pc, ![d].event = event],
                 pc \in Admitted => delivery[d].pc \in Admitted \/ Sent(d).to # id
          PROVE  Closed(id)'
      <4>1. /\ \A e \in Deliveries \ {d} : delivery'[e] = delivery[e]
            /\ delivery'[d].pc = pc /\ delivery'[d].sent = delivery[d].sent
        BY <2>0, <3>2
      <4> QED
        BY <1>1, <2>1, <3>2, <4>1 DEF Closed, Sent
    <3>3. CASE Gate(d)
      <4>1. Sent(d).to = id => Go(d, "refused")
        BY <2>0, <3>3 DEF Gate, Locked
      <4>2. PICK pc : Go(d, pc) /\ (pc = "refused" \/ Sent(d).to # id)
        BY <3>3, <4>1 DEF Gate
      <4> QED
        BY <3>2, <3>3, <4>2 DEF Go, Gate, EventsOf, Admitted
    <3>4. CASE VerifySignature(d) \/ Enqueue(d) \/ DeliveryFault(d)
      <4>1. PICK pc : Go(d, pc) /\ (pc \in Admitted => delivery[d].pc \in Admitted)
        BY <3>4 DEF VerifySignature, Enqueue, DeliveryFault, Admitted
      <4>2. Closed(id)'
        BY <3>2, <4>1 DEF Go
      <4> QED
        BY <3>4, <4>2 DEF VerifySignature, Enqueue, DeliveryFault, EventsOf
    <3>5. CASE FindExisting(d)
      <4>1. Closed(id)'
        BY <3>2, <3>5 DEF FindExisting, Admitted
      <4> QED
        BY <3>5, <4>1 DEF FindExisting, EventsOf
    <3>6. CASE SaveEvent(d)
      <4> DEFINE new == [tenantId |-> Sent(d).to, eventIdentifier |-> Identifier(Sent(d)),
                         webhook |-> Sent(d)]
      <4>1. Closed(id)'
        BY <3>2, <3>6 DEF SaveEvent, Go, Admitted
      <4>2. CASE UNCHANGED stored
        BY <4>1, <4>2 DEF EventsOf
      <4>3. CASE stored' = Append(stored, new)
        <5>1. Sent(d).to # id /\ new.tenantId = Sent(d).to
          BY <1>1, <3>6 DEF SaveEvent, Closed, Admitted
        <5> HIDE DEF new
        <5>2. /\ DOMAIN stored' = DOMAIN stored \cup {Len(stored) + 1}
              /\ stored'[Len(stored) + 1] = new
              /\ \A i \in DOMAIN stored : stored'[i] = stored[i]
          BY <2>0, <4>3
        <5> QED
          BY <4>1, <5>1, <5>2 DEF EventsOf
      <4> QED
        BY <3>6, <4>2, <4>3 DEF SaveEvent
    <3> QED
      BY <2>4, <3>1, <3>3, <3>4, <3>5, <3>6 DEF DeliveryStep
  <2> QED
    BY <1>1, <2>2, <2>3, <2>4 DEF IntakeNext, allVars
<1>2. TypeInv /\ BootInv /\ CreatorInv /\ IntakeInv /\ [IntakeNext]_allVars =>
         [\A id \in Ids : Closed(id) => Closed(id)' /\ EventsOf(id)' = EventsOf(id)]_allVars
  BY <1>1
<1>3. IntakeInit => Init
  BY DEF IntakeInit
<1> QED
  BY <1>2, <1>3, IntakeStepIsNext, InitIntake, IntakeKeeps, InitTypes, NextTypes, InitBoot, BootStep,
     InitCreator, CreatorStep, PTL DEF IntakeSpec, ClosedTakesNothing

=============================================================================
