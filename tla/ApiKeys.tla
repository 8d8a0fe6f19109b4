------------------------------ MODULE ApiKeys ------------------------------
(***************************************************************************)
(* The API keys of a workspace: the routes that create, rotate and revoke  *)
(* them (apps/web/app/api/platform/api-keys) and the requests that come    *)
(* with one (apps/web/lib/api-key-auth.ts, app/api/v1/files).              *)
(*                                                                         *)
(* A key and the keys it was rotated into are one lineage, named after the *)
(* first of them.                                                          *)
(***************************************************************************)
EXTENDS WorkspaceTeam

CONSTANTS
  Keys,       \* identifiers of keys
  NoKey,      \* a call that concerns no key
  KeyCalls,   \* concurrent requests of the routes
  MaxKeyCalls \* bound on the requests

ASSUME KeysAssumption == NoKey \notin Keys /\ MaxKeyCalls \in Nat

VARIABLES
  key,       \* api_key rows: revoked_at, expires_at and the lineage
  keyCall,   \* requests in flight
  keyStarted \* requests started so far

keyVars == << key, keyCall, keyStarted >>

NoRow == [state |-> "none", root |-> NoKey, expired |-> FALSE]
NewRow(root, expired) == [state |-> "active", root |-> root, expired |-> expired]
NoRequest == [op |-> "idle", key |-> NoKey]

KeyInit ==
  /\ key = [k \in Keys |-> NoRow]
  /\ keyCall = [r \in KeyCalls |-> NoRequest]
  /\ keyStarted = 0

\* The keys of a lineage, and those of them that no one has revoked
Lineage(root) == {k \in Keys : key[k].state # "none" /\ key[k].root = root}
ActiveIn(root) == {k \in Lineage(root) : key[k].state = "active"}

\* generateApiKey: an identifier no row has
Free == {k \in Keys : key[k].state = "none"}
GeneratedKey == CHOOSE k \in Keys : k \in Free

Begin(r, request) ==
  /\ keyCall[r].op = "idle"
  /\ keyStarted < MaxKeyCalls
  /\ keyCall' = [keyCall EXCEPT ![r] = request]
  /\ keyStarted' = keyStarted + 1
  /\ UNCHANGED key

End(r) == keyCall' = [keyCall EXCEPT ![r] = NoRequest]

(***************************************************************************)
(* The routes.  requirePlatformManager reads the role of the caller; a     *)
(* caller who loses the role afterwards is still served.                   *)
(***************************************************************************)
\* getActiveOrganizationContext: the role the caller has now
ActiveRoles == {role[u] : u \in Members}
RequirePlatformManager == ActiveRoles \cap {"owner", "admin"} # {}

\* getApiKeyForAuthentication
Usable(k) == key[k].state = "active" /\ ~key[k].expired

\* getApiKeyForOrganization
Known(k) == key[k].state # "none"

BeginCreate(r) ==
  RequirePlatformManager /\ Begin(r, [op |-> "create", key |-> NoKey])

BeginRevoke(r, k) ==
  RequirePlatformManager /\ Known(k) /\ Begin(r, [op |-> "revoke", key |-> k])

BeginRotate(r, k) ==
  RequirePlatformManager /\ Known(k) /\ Begin(r, [op |-> "rotate", key |-> k])

\* createApiKeyRecord
CreateKey(r) ==
  /\ keyCall[r].op = "create"
  /\ Free # {}
  /\ key' = [key EXCEPT ![GeneratedKey] = NewRow(GeneratedKey, FALSE)]
  /\ End(r)
  /\ UNCHANGED keyStarted

\* revokeApiKeyForOrganization; without a row to update the answer is 404
RevokeKey(r) ==
  LET k == keyCall[r].key IN
  /\ keyCall[r].op = "revoke"
  /\ key' = [key EXCEPT ![k].state = "revoked"]
  /\ End(r)
  /\ UNCHANGED keyStarted

\* The row is read first: a key that is revoked or expired is not rotated
ReadKey(r) ==
  LET k == keyCall[r].key IN
  /\ keyCall[r].op = "rotate"
  /\ IF Usable(k)
     THEN keyCall' = [keyCall EXCEPT ![r].op = "replace"]
     ELSE End(r)
  /\ UNCHANGED << key, keyStarted >>

\* The expiry of the old row, or the later one the request asks for
ReplacementExpiry(k) == {key[k].expired, FALSE}

\* Mutant: the old row is updated whether it is active or not.
RotateAnyKey(r) ==
  LET k == keyCall[r].key IN
  /\ keyCall[r].op = "replace"
  /\ Free # {}
  /\ key' = [key EXCEPT ![k].state = "revoked",
                        ![GeneratedKey] = NewRow(key[k].root, FALSE)]
  /\ End(r)
  /\ UNCHANGED keyStarted

\* rotateApiKeyRecord: one transaction revokes the old row if it is still
\* active and inserts the replacement
RotateKey(r) ==
  LET k == keyCall[r].key IN
  /\ keyCall[r].op = "replace"
  /\ IF key[k].state = "active"
     THEN /\ Free # {}
          /\ \E expired \in ReplacementExpiry(k) :
               key' = [key EXCEPT
                         ![k].state = "revoked",
                         ![GeneratedKey] = NewRow(key[k].root, expired)]
     ELSE UNCHANGED key
  /\ End(r)
  /\ UNCHANGED keyStarted

(***************************************************************************)
(* Requests that carry a key.                                              *)
(***************************************************************************)
BeginRequest(r, k) ==
  /\ Known(k)
  /\ Begin(r, [op |-> "authenticate", key |-> k])

\* authenticateApiKey up to the checks: getApiKeyForAuthentication finds no
\* revoked and no expired key
AuthenticateKey(r) ==
  LET k == keyCall[r].key IN
  /\ keyCall[r].op = "authenticate"
  /\ IF Usable(k)
     THEN keyCall' = [keyCall EXCEPT ![r].op = "touch"]
     ELSE End(r)
  /\ UNCHANGED << key, keyStarted >>

\* Mutant: the row that was read is saved whole.
TouchKeySavingRow(r) ==
  /\ keyCall[r].op = "touch"
  /\ key' = [key EXCEPT ![keyCall[r].key].state = "active"]
  /\ End(r)
  /\ UNCHANGED keyStarted

\* touchApiKeyLastUsed updates the row by its id, whatever became of it, in a
\* column nothing depends on; then the request is answered
TouchKey(r) ==
  /\ keyCall[r].op = "touch"
  /\ End(r)
  /\ UNCHANGED << key, keyStarted >>

\* expiresAt passes
ExpireKey(k) ==
  /\ key[k].state = "active"
  /\ ~key[k].expired
  /\ key' = [key EXCEPT ![k].expired = TRUE]
  /\ UNCHANGED << keyCall, keyStarted >>

KeyNext ==
  \/ \E r \in KeyCalls :
       \/ BeginCreate(r)
       \/ \E k \in Keys : BeginRevoke(r, k) \/ BeginRotate(r, k) \/ BeginRequest(r, k)
       \/ CreateKey(r)
       \/ RevokeKey(r)
       \/ ReadKey(r)
       \/ RotateKey(r)
       \/ AuthenticateKey(r)
       \/ TouchKey(r)
  \/ \E k \in Keys : ExpireKey(k)

Rows == [state : {"none", "active", "revoked"}, root : Keys \cup {NoKey},
         expired : BOOLEAN]

KeyTypeOK ==
  /\ key \in [Keys -> Rows]
  /\ keyCall \in [KeyCalls ->
       [op : {"idle", "create", "revoke", "rotate", "replace", "authenticate", "touch"},
        key : Keys \cup {NoKey}]]
  /\ keyStarted \in 0 .. MaxKeyCalls

(***************************************************************************)
(* Properties                                                              *)
(***************************************************************************)

(***************************************************************************)
(* However rotations and revocations of a key overlap, its lineage has at  *)
(* most one key that is not revoked: two rotations that both read the key  *)
(* as active leave one replacement, not two.                               *)
(***************************************************************************)
OneActiveKey == \A root \in Keys : Cardinality(ActiveIn(root)) <= 1

(***************************************************************************)
(* Once all keys of a lineage are revoked it stays so: a rotation or a     *)
(* request that read the key before the revocation cannot bring it, or a   *)
(* replacement of it, to life.                                             *)
(***************************************************************************)
RevocationIsFinal ==
  [][\A root \in Keys :
       (Lineage(root) # {} /\ ActiveIn(root) = {}) => ActiveIn(root)' = {}]_keyVars
=============================================================================
