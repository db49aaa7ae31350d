---------------------------- MODULE SecretsVault ----------------------------
(***************************************************************************)
(* The secrets manager (a vault) as the agbot uses it: the client with its *)
(* token, and the secrets part of the agbot's secure API, through which    *)
(* users create, read and remove secrets.  A secret is named by its path:  *)
(* <<name>> for the organization, <<"user", u, name>>, <<"node", n, name>> *)
(* or <<"user", u, "node", n, name>>; a name may have several parts.       *)
(***************************************************************************)
EXTENDS Integers, FiniteSets, Sequences

CONSTANTS SecretPaths,       \* the paths users write to
          MaxVaultWrites, MaxOutages

VARIABLES vault,        \* per path: the number of the write that gave it its value, 0 if absent
          wroteAt,      \* per path: the second of that write
          writes,       \* the writes and removals so far
          second,       \* the clock; several writes may share a second
          vaultUp, outages,
          agbotToken,   \* the agbot's token: "none", "valid", "expired"
          answer        \* the status code of the API request just answered, else 0

vaultVars == <<vault, wroteAt, writes, second, vaultUp, outages, agbotToken, answer>>

\* A step of the agbot that neither changes the vault nor answers a request.
VaultRests == answer' = 0 /\ UNCHANGED <<vault, wroteAt, writes, second, vaultUp, outages, agbotToken>>

VaultInit ==
  /\ vault = [p \in SecretPaths |-> 0] /\ wroteAt = [p \in SecretPaths |-> 0]
  /\ writes = 0 /\ second = 1
  /\ vaultUp = TRUE /\ outages = 0
  /\ agbotToken \in {"none", "valid"} /\ answer = 0

-----------------------------------------------------------------------------
(* The client of the vault. *)

\* WrapSecretsError: the status code that goes with an error.
WrapSecretsError(e) ==
  CASE e = "PermissionDenied" -> 403
    [] e = "Unauthenticated" -> 401
    [] e = "SecretsProviderUnavailable" -> 503
    [] e = "NoSecretFound" -> 404

\* invokeVaultWithRetry gives up after EX_MAX_RETRY transport errors; while the
\* vault is down that is what every call ends in.
invokeVaultWithRetry(ok) == IF vaultUp THEN ok ELSE "SecretsProviderUnavailable"

\* loginUser: the credentials of the caller are exchanged for a token.
loginUser(ok) == IF vaultUp /\ ok THEN "ok" ELSE "Unauthenticated"

\* IsReady says only that there was a login once.
IsReady == agbotToken # "none"

\* Login and Renew, called by secretsProviderMaintenance.  A refused renewal logs
\* in again; a failure leaves the old token.
Login ==
  /\ ~IsReady /\ vaultUp
  /\ agbotToken' = "valid"
  /\ answer' = 0 /\ UNCHANGED <<vault, wroteAt, writes, second, vaultUp, outages>>
Renew ==
  /\ IsReady /\ vaultUp /\ agbotToken = "expired"
  /\ agbotToken' = "valid"
  /\ answer' = 0 /\ UNCHANGED <<vault, wroteAt, writes, second, vaultUp, outages>>

\* The calls the agbot makes with its own token.  0 and FALSE: an error.
Readable(p) == vaultUp /\ agbotToken = "valid" /\ p \in SecretPaths /\ vault[p] # 0
GetSecretMetadata(p) == IF Readable(p) THEN wroteAt[p] ELSE 0
GetSecretDetails(p) == IF Readable(p) THEN vault[p] ELSE 0

\* The vault itself: outages, and the expiry of the agbot's token.
Outage ==
  /\ outages < MaxOutages /\ outages' = outages + 1
  /\ \/ vaultUp' = FALSE /\ UNCHANGED agbotToken
     \/ agbotToken = "valid" /\ agbotToken' = "expired" /\ UNCHANGED vaultUp
  /\ answer' = 0 /\ UNCHANGED <<vault, wroteAt, writes, second>>
Recovery ==
  /\ ~vaultUp /\ vaultUp' = TRUE
  /\ answer' = 0 /\ UNCHANGED <<vault, wroteAt, writes, second, outages, agbotToken>>

-----------------------------------------------------------------------------
(* The secrets part of the secure API. *)

\* The levels of a path; verifySecretNames and the routes tell them apart.
IsUser(p) == Len(p) > 1 /\ p[1] = "user"
IsNode(p) == \/ Len(p) > 1 /\ p[1] = "node"
             \/ Len(p) > 3 /\ p[1] = "user" /\ p[3] = "node"

\* The answers of createSecret, deleteSecret, listSecret and GetSecretDetails for a
\* caller.  deleteSecret first looks whether the secret is there.
createSecret(ok) == IF loginUser(ok) # "ok" THEN loginUser(ok) ELSE invokeVaultWithRetry("ok")
listSecret(p, ok) ==
  IF loginUser(ok) # "ok" THEN loginUser(ok)
  ELSE invokeVaultWithRetry(IF vault[p] = 0 THEN "NoSecretFound" ELSE "ok")
deleteSecret(p, ok) ==
  IF loginUser(ok) # "ok" THEN loginUser(ok)
  ELSE IF listSecret(p, ok) # "ok" THEN listSecret(p, ok) ELSE invokeVaultWithRetry("ok")

Code(e, good) == IF e = "ok" THEN good ELSE WrapSecretsError(e)

\* secretsSetup and vaultSecretPreCheck: 503 until the agbot has logged in.
Answered(e, good) == answer' = IF IsReady THEN Code(e, good) ELSE 503

\* The vault takes a new value or a removal, in the second of now or the next.
Written(p, done, there) ==
  IF done
  THEN /\ writes' = writes + 1 /\ second' \in {second, second + 1}
       /\ vault' = [vault EXCEPT ![p] = IF there THEN writes + 1 ELSE 0]
       /\ wroteAt' = [wroteAt EXCEPT ![p] = IF there THEN second' ELSE 0]
  ELSE UNCHANGED <<vault, wroteAt, writes, second>>

\* One request of a caller with good or bad credentials.  PUT is POST.
Request(method, p, ok) ==
  /\ UNCHANGED <<vaultUp, outages, agbotToken>>
  /\ \/ /\ method = "POST" /\ writes < MaxVaultWrites
        /\ Answered(createSecret(ok), 201)
        /\ Written(p, IsReady /\ createSecret(ok) = "ok", TRUE)
     \/ /\ method = "DELETE" /\ writes < MaxVaultWrites
        /\ Answered(deleteSecret(p, ok), 204)
        /\ Written(p, IsReady /\ deleteSecret(p, ok) = "ok", FALSE)
     \/ /\ method = "GET"
        /\ Answered(listSecret(p, ok), 200)
        /\ UNCHANGED <<vault, wroteAt, writes, second>>
     \/ /\ method = "LIST"
        /\ Answered(IF listSecret(p, ok) = "NoSecretFound" THEN "ok" ELSE listSecret(p, ok), 200)
        /\ UNCHANGED <<vault, wroteAt, writes, second>>

\* The handlers, one per level.  orgSecret refuses the path of a user.
orgSecret(m, p, ok) == ~IsUser(p) /\ ~IsNode(p) /\ Request(m, p, ok)
userSecret(m, p, ok) == IsUser(p) /\ ~IsNode(p) /\ Request(m, p, ok)
nodeSecret(m, p, ok) == ~IsUser(p) /\ IsNode(p) /\ Request(m, p, ok)
nodeUserSecret(m, p, ok) == IsUser(p) /\ IsNode(p) /\ Request(m, p, ok)

VaultNext ==
  \/ Login \/ Renew \/ Outage \/ Recovery
  \/ \E m \in {"POST", "DELETE", "GET", "LIST"}, p \in SecretPaths, ok \in BOOLEAN :
       orgSecret(m, p, ok) \/ userSecret(m, p, ok) \/ nodeSecret(m, p, ok) \/ nodeUserSecret(m, p, ok)

VaultSpec == VaultInit /\ [][VaultNext]_vaultVars

=============================================================================
