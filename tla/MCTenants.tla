------------------------------ MODULE MCTenants ------------------------------
(***************************************************************************)
(* Intake, and TenantRegistry in it, on a small instance: two default      *)
(* tenants, three requests, which can take, rename and remove what the     *)
(* seed looks for, and two deliveries.                                     *)
(***************************************************************************)
EXTENDS Intake, TLC

CONSTANTS d1, d2, n1, n2, n3, k1, k2, k3, github, shop, shops, p1, p2, p3, t1, t2, t3

MCDefaults == <<d1, d2>>

MCPreset == (d1 :> [name |-> n1, key |-> k1, status |-> "active"])
         @@ (d2 :> [name |-> n2, key |-> k2, status |-> "active"])

Body(name, key, status) == [name |-> name, key |-> key, status |-> status]

\* To create: something new, a default's name with another key, or both of a
\* default.  To change: a name to a default's, the status to and from active.
MCBodies == {Body(n3, k3, None), Body(n1, k3, None), Body(n2, k2, "suspended"),
             Body(n1, None, None),
             Body(None, None, "suspended"), Body(None, None, "active")}

MCSecrets == [i \in Requests \cup {d1, d2} |-> IF i = d1 THEN {github} ELSE {}]

\* A payload with an identifier of the provider's; the same for another tenant;
\* two payloads that are the same, without identifier, but for a header with
\* the type, and a third that runs together with the second of them, say 'shop'
\* with 'stock' and 'shops' with 'tock'; one that has the identifier in a header.
Named == [to |-> d1, key |-> None, source |-> shop, payload |-> p1, delivery |-> None,
          ids |-> <<None, t1>>, types |-> <<t2>>]
NamedElsewhere == [Named EXCEPT !.to = d2]
Plain == [Named EXCEPT !.payload = p2, !.ids = <<Odd, t1>>, !.types = <<>>]
Typed == [Plain EXCEPT !.types = <<None, None, None, t3>>]
RunOn == [Plain EXCEPT !.source = shops, !.types = <<t2>>]
ByHeader == [Named EXCEPT !.source = github, !.payload = p3, !.delivery = t2,
                          !.ids = <<>>]

\* Another webhook with an identifier that is taken; one to /webhooks/replay;
\* one of no tenant.
Clash == [Plain EXCEPT !.delivery = t1]
ToReplay == [Named EXCEPT !.source = Replay, !.key = k1, !.payload = p2, !.ids = <<Odd, t1>>]
Stray == [Named EXCEPT !.to = None]

MCJoined == [p \in Sources \X Texts |-> IF p = <<shops, t2>> THEN <<shop, t3>> ELSE p]

MCSendings == {<<Named, "right">>, <<NamedElsewhere, "none">>,
               <<Plain, "none">>, <<Typed, "none">>, <<RunOn, "none">>, <<ByHeader, "right">>,
               <<ByHeader, "wrong">>, <<Clash, "none">>, <<ToReplay, "none">>,
               <<Stray, "none">>}

\* Requests are interchangeable, and deliveries: no definition names one.
Clients == Permutations(Requests) \cup Permutations(Deliveries)

=============================================================================
