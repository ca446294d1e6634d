-------------------------------- MODULE Security --------------------------------
(***************************************************************************)
(* APIKeyManager and RBACMiddleware of src/src/security, as a server uses   *)
(* them for concurrent requests: validate the key, check the permission, do *)
(* the work, log the usage. Each is one synchronous call, and other calls   *)
(* run between them. The ledger they write to does not fail.                *)
(***************************************************************************)
EXTENDS Functions

CONSTANTS
    KeyTenants,     \* of each key that may be generated, the tenant it is for
    Requests,       \* the requests made with them
    Attempted       \* the permissions the requests need

KeyIds == DOMAIN KeyTenants
ReadPermissions == {"read:metrics", "read:reports", "read:ledger"}
PermissionMatrix == [
    READ_ONLY_ANALYST |-> ReadPermissions,
    OPERATOR |-> ReadPermissions \cup {"write:actions", "execute:actions"},
    FINANCE_ADMINISTRATOR |-> ReadPermissions \cup {"read:billing", "write:billing"},
    PLATFORM_ADMINISTRATOR |-> ReadPermissions \cup
        {"write:actions", "execute:actions", "read:billing", "write:billing", "manage:tenants",
         "manage:users", "activate:kill_switch", "read:all", "write:all"}]
Roles == DOMAIN PermissionMatrix

VARIABLES
    keys,       \* the stored keys: the role of each, by key_id
    issued,     \* the role of every key ever generated (history)
    request,    \* of each: [phase, key, tenant_id, role, permission]
    usage       \* the entries API_KEY_USAGE and UNAUTHORIZED_ATTEMPT of the ledger, in a
                \* set of [type, tenant_id, of]

securityVars == <<keys, issued, request, usage>>

SecurityInit ==
    /\ keys = <<>> /\ issued = <<>> /\ usage = {}
    /\ request = [r \in Requests |-> [phase |-> "idle"]]

\* generate(): a key_id is random, and not used again.
GenerateKey(k, role) ==
    /\ k \notin DOMAIN issued
    /\ keys' = [x \in DOMAIN keys \cup {k} |-> IF x = k THEN role ELSE keys[x]]
    /\ issued' = [x \in DOMAIN issued \cup {k} |-> IF x = k THEN role ELSE issued[x]]
    /\ UNCHANGED <<request, usage>>

Revoke(k) ==
    /\ k \in DOMAIN keys
    /\ keys' = Restrict(keys, DOMAIN keys \ {k})
    /\ UNCHANGED <<issued, request, usage>>

\* validate(): of a string that names the key and carries its secret or another.
ValidateKey(r, k, rightSecret) ==
    /\ request[r].phase = "idle"
    /\ request' = [request EXCEPT ![r] =
           IF k \in DOMAIN keys /\ rightSecret
           THEN [phase |-> "valid", key |-> k, tenant_id |-> KeyTenants[k], role |-> keys[k]]
           ELSE [phase |-> "invalid"]]
    /\ UNCHANGED <<keys, issued, usage>>

Allowed(role, permission) == permission \in PermissionMatrix[role]

\* check() and enforce(): a refusal is logged for the tenant. Mutant: enforce() alone,
\* which only throws.
EnforceOnly(r, permission) ==
    /\ request[r].phase = "valid"
    /\ request' = [request EXCEPT ![r].phase = IF Allowed(request[r].role, permission) THEN "allowed" ELSE "denied"]
    /\ UNCHANGED <<keys, issued, usage>>
CheckPermission(r, permission) ==
    /\ request[r].phase = "valid"
    /\ LET allowed == Allowed(request[r].role, permission)
       IN  /\ request' = [request EXCEPT ![r].phase = IF allowed THEN "allowed" ELSE "denied"]
           /\ usage' = IF allowed THEN usage
                       ELSE usage \cup {[type |-> "UNAUTHORIZED_ATTEMPT",
                                         tenant_id |-> request[r].tenant_id, of |-> r]}
    /\ UNCHANGED <<keys, issued>>

\* logUsage(): nothing is logged for a key that has been revoked by then.
LogUsage(r) ==
    /\ request[r].phase = "allowed"
    /\ usage' = IF request[r].key \in DOMAIN keys
                THEN usage \cup {[type |-> "API_KEY_USAGE", tenant_id |-> KeyTenants[request[r].key], of |-> r]}
                ELSE usage
    /\ request' = [request EXCEPT ![r].phase = "served"]
    /\ UNCHANGED <<keys, issued>>

SecurityNext ==
    \/ \E k \in KeyIds, role \in Roles : GenerateKey(k, role)
    \/ \E k \in KeyIds : Revoke(k) \/ \E r \in Requests, ok \in BOOLEAN : ValidateKey(r, k, ok)
    \/ \E r \in Requests : LogUsage(r) \/ \E permission \in Attempted : CheckPermission(r, permission)

-----------------------------------------------------------------------------
\* Whoever is served has a key that was generated for the tenant, with a role; a refusal is
\* always in the ledger of its tenant, and a use is, unless the key was revoked before it
\* was logged. A revoked key opens nothing afterwards, and is never stored again.
SecurityInv ==
    /\ DOMAIN keys \subseteq DOMAIN issued /\ DOMAIN issued \subseteq KeyIds
    /\ \A k \in DOMAIN keys : keys[k] = issued[k]
    /\ \A r \in Requests :
        /\ request[r].phase \in {"valid", "allowed", "denied", "served"} =>
            /\ request[r].key \in DOMAIN issued
            /\ request[r].role = issued[request[r].key]
        /\ request[r].phase = "denied"
            => [type |-> "UNAUTHORIZED_ATTEMPT", tenant_id |-> request[r].tenant_id, of |-> r] \in usage
        /\ request[r].phase = "served" =>
            \/ [type |-> "API_KEY_USAGE", tenant_id |-> request[r].tenant_id, of |-> r] \in usage
            \/ request[r].key \notin DOMAIN keys

=============================================================================
