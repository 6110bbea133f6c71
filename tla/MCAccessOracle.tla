--------------------------- MODULE MCAccessOracle ---------------------------
(* Two users, a guest, and the servers that tell the oracles apart.         *)
EXTENDS AccessOracle

CONSTANTS alice, bob, guest, o1, o2

MCIdentities == <<alice, bob, guest>>
MCSession(i) == IF i = guest THEN None ELSE i
MCApiKey(i) == None

Users == {{alice}, {bob}}
Anyone == Users \cup {{}}

Server(m, allows, conf, body, flaws, literal, json) ==
    [method |-> m, allows |-> allows, confused |-> conf, body |-> body, literal |-> literal,
     json |-> json, overposts |-> flaws, locks |-> ~flaws, idempotent |-> ~flaws]

MCServers ==
    {Server("GET", o1 :> Anyone, FALSE, "shared", FALSE, TRUE, FALSE),      \* public
     Server("GET", o1 :> {{alice}} @@ o2 :> {{bob}, {}}, TRUE, "shared", FALSE, TRUE, TRUE),
     Server("GET", o1 :> {{alice}, {}}, FALSE, "own", FALSE, TRUE, FALSE),    \* rejects bob only
     Server("PUT", o1 :> Users, FALSE, "trivial", FALSE, FALSE, FALSE),
     Server("PUT", o1 :> Users, FALSE, "own", TRUE, FALSE, TRUE),
     Server("POST", o1 :> Users, TRUE, "error", FALSE, FALSE, TRUE),
     Server("POST", None :> Users, FALSE, "shared", TRUE, FALSE, TRUE)}
=============================================================================
