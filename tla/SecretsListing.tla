--------------------------- MODULE SecretsListing ---------------------------
(***************************************************************************)
(* The listing of secret names: the handlers of the secure API that list,  *)
(* and the walk of the vault's client over the directories of the vault.   *)
(* Every directory is a request of its own, with a login of its own, and   *)
(* between two of them the vault may change, stop answering or come back.  *)
(* The client goes depth first; the model leaves the order open.           *)
(***************************************************************************)
EXTENDS SecretsVault, SequencesExt

CONSTANT Refused   \* the sets of directories that some caller may not list

VARIABLE listing   \* the listing under way, or just answered

listingVars == <<vaultVars, listing>>

\* The secrets in the vault.
Exists == {p \in SecretPaths : vault[p] # 0}

\* A listing of the directory dir by a caller who may not list those in refused:
\* directories to go (todo), names found, directories given up (skipped).  For the
\* properties: the secrets there at some time (seen) and all the time (stayed)
\* since it began, and whether the vault was down meanwhile.
NoListing == [phase |-> "none", dir |-> <<>>, all |-> FALSE, login |-> TRUE, refused |-> {},
              todo |-> {}, names |-> {}, skipped |-> {}, seen |-> {}, stayed |-> {}, down |-> FALSE]

ListingInit == VaultInit /\ listing = NoListing

-----------------------------------------------------------------------------
\* The handlers and the lists of the plugin, one per level; none is served before
\* the agbot's login (secretsSetup).
listVaultSecret(dir, all, ok, refused) ==
  /\ listing.phase # "walking" /\ IsReady
  /\ listing' = [NoListing EXCEPT !.phase = "walking", !.dir = dir, !.all = all, !.login = ok,
                   !.refused = refused, !.todo = {dir}, !.seen = Exists, !.stayed = Exists, !.down = ~vaultUp]
  /\ VaultRests

orgSecrets(ok, f) == listVaultSecret(<<>>, FALSE, ok, f)
allSecrets(ok, f) == listVaultSecret(<<>>, TRUE, ok, f)
userSecrets(u, ok, f) == listVaultSecret(<<"user", u>>, FALSE, ok, f)
nodeSecrets(n, ok, f) == listVaultSecret(<<"node", n>>, FALSE, ok, f)
nodeUserSecrets(u, n, ok, f) == listVaultSecret(<<"user", u, "node", n>>, FALSE, ok, f)

\* The vault answers LIST with the entries of one directory; an entry that ends in
\* a slash is a directory.
Keys(dir) ==
  {[name |-> p[Len(dir) + 1], dir |-> Len(p) > Len(dir) + 1] :
      p \in {q \in Exists : IsStrictPrefix(dir, q)}}

\* listSecrets, one directory: the error, and the entries.  The user and node
\* directories of the organization are left out unless all secrets are asked for.
ListError(d) ==
  IF loginUser(listing.login) # "ok" THEN loginUser(listing.login)
  ELSE invokeVaultWithRetry(IF d \in listing.refused THEN "PermissionDenied"
                            ELSE IF Keys(d) = {} THEN "NoSecretFound" ELSE "ok")
Queue(d) == {k \in Keys(d) : d # <<>> \/ listing.all \/ ~(k.dir /\ k.name \in {"user", "node"})}

\* Mutant: a listing that does not look into the directories it finds.
gatherSecretNamesFlat(d, queue) ==
  [names |-> {Append(d, k.name) : k \in {q \in queue : ~q.dir}}, dirs |-> {}]
\* gatherSecretNames: the names among the entries, and the directories to list.
gatherSecretNames(d, queue) ==
  [names |-> {Append(d, k.name) : k \in {q \in queue : ~q.dir}},
   dirs |-> {Append(d, k.name) : k \in {q \in queue : q.dir}}]

listSecrets(d) ==
  /\ listing.phase = "walking" /\ d \in listing.todo /\ ListError(d) = "ok"
  /\ LET got == gatherSecretNames(d, Queue(d))
     IN  listing' = [listing EXCEPT !.todo = (@ \ {d}) \cup got.dirs, !.names = @ \cup got.names]
  /\ VaultRests

\* gatherSecretNames passes over a directory that cannot be listed, whatever the
\* error; the first directory's error is the answer, but for the empty list (404).
SkipDirectory(d) ==
  /\ listing.phase = "walking" /\ d \in listing.todo /\ d # listing.dir /\ ListError(d) # "ok"
  /\ listing' = [listing EXCEPT !.todo = @ \ {d}, !.skipped = @ \cup {d}]
  /\ VaultRests
ListingFails ==
  /\ listing.phase = "walking" /\ listing.dir \in listing.todo /\ ListError(listing.dir) # "ok"
  /\ LET none == ListError(listing.dir) = "NoSecretFound"
     IN  /\ listing' = [listing EXCEPT !.phase = IF none THEN "listed" ELSE "failed", !.todo = {}]
         /\ answer' = IF none THEN 200 ELSE WrapSecretsError(ListError(listing.dir))
  /\ UNCHANGED <<vault, wroteAt, writes, second, vaultUp, outages, agbotToken>>

\* The lists of a user or node name the secrets relative to the directory.
TrimPrefix(dir, ps) == {SubSeq(p, Len(dir) + 1, Len(p)) : p \in ps}
ListingEnds ==
  /\ listing.phase = "walking" /\ listing.todo = {}
  /\ listing' = [listing EXCEPT !.phase = "listed", !.names = TrimPrefix(listing.dir, @)]
  /\ answer' = 200
  /\ UNCHANGED <<vault, wroteAt, writes, second, vaultUp, outages, agbotToken>>

\* What a step of others means for the listing under way; one that is answered is
\* forgotten.
Watched == listing' = IF listing.phase # "walking" THEN NoListing
                      ELSE [listing EXCEPT !.seen = @ \cup Exists', !.stayed = @ \cap Exists',
                                           !.down = @ \/ ~vaultUp']

ListingNext ==
  \/ VaultNext /\ Watched
  \/ \E ok \in BOOLEAN, f \in Refused :
       \/ orgSecrets(ok, f) \/ allSecrets(ok, f)
       \/ \E p \in SecretPaths :
            \/ IsUser(p) /\ userSecrets(p[2], ok, f)
            \/ IsNode(p) /\ ~IsUser(p) /\ nodeSecrets(p[2], ok, f)
            \/ IsNode(p) /\ IsUser(p) /\ nodeUserSecrets(p[2], p[4], ok, f)
  \/ \E d \in listing.todo : listSecrets(d) \/ SkipDirectory(d)
  \/ ListingFails \/ ListingEnds

ListingSpec == ListingInit /\ [][ListingNext]_listingVars

-----------------------------------------------------------------------------
\* The secrets a listing is about.
Asked(p) == /\ IsStrictPrefix(listing.dir, p)
            /\ listing.dir = <<>> /\ ~listing.all => ~IsUser(p) /\ ~IsNode(p)

(* A listing that is answered with 200 names, completed with its directory, only
   secrets it was asked for that existed meanwhile, and misses none of those that
   existed all the time but under directories it skipped (vault.go:203, for any
   error, and without a word to the caller).  It skips none but those the caller
   may not list, unless the vault was down meanwhile: a directory without any
   secret left does not matter. *)
ListingIsExact == listing.phase = "listed" =>
  LET named == {listing.dir \o q : q \in listing.names}
      below(d) == {p \in listing.stayed : IsStrictPrefix(d, p)}
  IN  /\ \A p \in named : Asked(p) /\ p \in listing.seen
      /\ \A p \in listing.stayed : Asked(p) => p \in named \/ \E d \in listing.skipped : p \in below(d)
      /\ \A d \in listing.skipped : d \in listing.refused \/ listing.down \/ below(d) = {}
=============================================================================
