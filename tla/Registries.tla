------------------------------ MODULE Registries ------------------------------
(* The two registries the Admin UI edits while the server runs: custom         *)
(* providers, whose API keys are encrypted at rest when the environment gives  *)
(* a passphrase, and combos, the named chains of provider models.  Each is a   *)
(* JSON file that is replaced as a whole, and a list the process keeps of it.  *)
(*                                                                             *)
(* Sources: config/{custom_providers, combos}.py, core/secret_crypto.py, the   *)
(* routes of api/admin_routes.py.  The routes do not suspend, so each is one   *)
(* step.  Input they refuse changes nothing and is left out; so are types and  *)
(* URLs.  A list is a set of rows: its order is that of creation, and nothing  *)
(* depends on it.  An API key that itself begins with "enc:v1:" is left out.   *)
EXTENDS Naturals, FiniteSets, Sequences, SequencesExt

CONSTANTS
  Names,       \* display names
  Candidates,  \* by name, the ids it may get: custom_<slug>, custom_<slug>_2, ...
  ApiKeys,     \* what may be entered as a key
  NoKey,       \* the empty one among them
  Materials,   \* passphrases the environment may give
  NoMaterial,
  NodeLists,   \* sequences of [ref, enabled, priority]
  NoNodes,     \* what an unknown or disabled combo resolves to
  MaxWrites    \* bound on what is asked of the registries

VARIABLES
  material,    \* CLAUDEY_PROVIDER_ENCRYPTION_KEY of this process
  lastWrite,   \* the material with which the file of the providers was last written
  providers,   \* [file, cache], the rows of the custom providers
  combos,      \* [file, cache], the rows of the combos
  entered,     \* ghost: the providers that were created and not removed, as they were entered
  saved,       \* ghost: the combos whose last change was answered with success
  writes

registryVars == <<material, lastWrite, providers, combos, entered, saved, writes>>

Ids == UNION {ToSet(Candidates[n]) : n \in Names}

ASSUME RegistryConstants ==
  /\ Candidates \in [Names -> Seq(Ids)]
  /\ NoKey \in ApiKeys /\ NoMaterial \notin Materials
  /\ MaxWrites \in Nat

-----------------------------------------------------------------------------
\* A stored key: what was entered, under the envelopes it was put in.
Plain(text) == [text |-> text, seals |-> <<>>]
IsEncrypted(key) == key.seals # <<>>
Unreadable == [text |-> NoKey, seals |-> <<NoMaterial>>]

\* decrypt_secret: the tag tells a wrong passphrase.
Decrypt(key) ==
  IF Last(key.seals) = material THEN [key EXCEPT !.seals = Front(@)] ELSE Unreadable

\* effective_api_key: what a client of the provider is built with, or an error.
EffectiveKey(key) ==
  IF ~IsEncrypted(key) THEN key
  ELSE IF material = NoMaterial THEN Unreadable
  ELSE Decrypt(key)

\* Mistake: what is encrypted already is encrypted again.
SealsAgain(key) ==
  IF key.text = NoKey THEN key ELSE [key EXCEPT !.seals = Append(@, material)]

Encrypt(key) ==
  IF key.text = NoKey \/ IsEncrypted(key) THEN key
  ELSE [key EXCEPT !.seals = Append(@, material)]

EncryptForWrite(rows) ==
  IF material = NoMaterial THEN rows ELSE {[r EXCEPT !.key = Encrypt(@)] : r \in rows}

-----------------------------------------------------------------------------
IdsOf(rows) == {r.id : r \in rows}
Without(rows, id) == {r \in rows : r.id # id}
Upsert(rows, row) == Without(rows, row.id) \cup {row}

\* A file that does not parse reads as an empty one.
File(rows) == [intact |-> TRUE, rows |-> rows]
ReadRecords(file) == IF file.intact THEN file.rows ELSE {}

\* Mistake: the name alone makes the id.
FirstId(name, ids) == {Candidates[name][1]}

\* make_unique_provider_id and make_unique_combo_id: the first candidate that is free.
UniqueId(name, ids) ==
  LET free == {i \in DOMAIN Candidates[name] : Candidates[name][i] \notin ids}
  IN  {Candidates[name][i] : i \in {i \in free : \A j \in free : i <= j}}

RegistryInit ==
  /\ material \in Materials \cup {NoMaterial}
  /\ lastWrite = NoMaterial
  /\ providers = [file |-> File({}), cache |-> {}]
  /\ combos = [file |-> File({}), cache |-> {}]
  /\ entered = {}
  /\ saved = {}
  /\ writes = 0

Write == writes < MaxWrites /\ writes' = writes + 1

-----------------------------------------------------------------------------
\* Custom providers.
Entry(row) == [id |-> row.id, created |-> row.created, text |-> row.key.text]

\* The file first; the cache is what was written.  A write that fails leaves the old file.
PersistProviders(rows) ==
  /\ providers' = [file |-> File(EncryptForWrite(rows)), cache |-> EncryptForWrite(rows)]
  /\ lastWrite' = material

CreateProvider(name, text) ==
  /\ Write
  /\ \E id \in UniqueId(name, IdsOf(providers.cache)) :
       LET row == [id |-> id, created |-> writes, key |-> Plain(text)] IN
       \/ /\ PersistProviders(Upsert(providers.cache, row))
          /\ entered' = entered \cup {Entry(row)}
       \/ UNCHANGED <<providers, lastWrite, entered>>
  /\ UNCHANGED <<material, combos, saved>>

DeleteProvider(id) ==
  /\ Write /\ id \in IdsOf(providers.cache)
  /\ \/ PersistProviders(Without(providers.cache, id)) /\ entered' = Without(entered, id)
     \/ UNCHANGED <<providers, lastWrite, entered>>
  /\ UNCHANGED <<material, combos, saved>>

-----------------------------------------------------------------------------
\* Combos.
\* resolved_nodes: the enabled nodes by priority, those of one priority as they were listed.
ResolvedNodes(row) ==
  LET before(i, j) == \/ row.nodes[i].priority < row.nodes[j].priority
                      \/ row.nodes[i].priority = row.nodes[j].priority /\ i < j
      order == SetToSortSeq({i \in DOMAIN row.nodes : row.nodes[i].enabled}, before)
  IN  [k \in DOMAIN order |-> row.nodes[order[k]].ref]

FindCombo(rows, id) == {r \in rows : r.id = id}

ResolveCombo(rows, id) ==
  LET found == FindCombo(rows, id) IN
  IF \E r \in found : r.enabled THEN ResolvedNodes(CHOOSE r \in found : r.enabled) ELSE NoNodes

\* The cache first, then the file: a write that fails leaves the two apart, and the client is
\* told of the failure.
PersistCombos(rows, success, failure) ==
  /\ \/ combos' = [file |-> File(rows), cache |-> rows] /\ saved' = success
     \/ combos' = [combos EXCEPT !.cache = rows] /\ saved' = failure
  /\ UNCHANGED <<material, lastWrite, providers, entered>>

SaveRow(row) ==
  PersistCombos(Upsert(combos.cache, row), Upsert(saved, row), Without(saved, row.id))

CreateCombo(name, nodes, enabled) ==
  /\ Write
  /\ \E id \in UniqueId(name, IdsOf(combos.cache)) :
       SaveRow([id |-> id, nodes |-> nodes, enabled |-> enabled, created |-> writes])

UpdateCombo(id, nodes, enabled) ==
  /\ Write
  /\ \E old \in FindCombo(combos.cache, id) :
       SaveRow([id |-> id, nodes |-> nodes, enabled |-> enabled, created |-> old.created])

DeleteCombo(id) ==
  /\ Write /\ id \in IdsOf(combos.cache)
  /\ PersistCombos(Without(combos.cache, id), Without(saved, id), Without(saved, id))

-----------------------------------------------------------------------------
\* The process ends, between two requests, and the next reads both files: with the passphrase its
\* environment has.
RestartWith(m) ==
  /\ Write
  /\ material' = m
  /\ providers' = [providers EXCEPT !.cache = ReadRecords(providers.file)]
  /\ combos' = [combos EXCEPT !.cache = ReadRecords(combos.file)]
  /\ entered' = IF providers.file.intact THEN entered ELSE {}
  /\ saved' = IF combos.file.intact THEN saved ELSE {}
  /\ UNCHANGED lastWrite

\* A file is damaged, by hand or by the disk.
Damage ==
  /\ Write
  /\ \/ providers' = [providers EXCEPT !.file.intact = FALSE] /\ UNCHANGED combos
     \/ combos' = [combos EXCEPT !.file.intact = FALSE] /\ UNCHANGED providers
  /\ UNCHANGED <<material, lastWrite, entered, saved>>

RegistryNext ==
  \/ \E name \in Names :
       \/ \E text \in ApiKeys : CreateProvider(name, text)
       \/ \E nodes \in NodeLists, enabled \in BOOLEAN : CreateCombo(name, nodes, enabled)
  \/ \E id \in Ids :
       \/ DeleteProvider(id) \/ DeleteCombo(id)
       \/ \E nodes \in NodeLists, enabled \in BOOLEAN : UpdateCombo(id, nodes, enabled)
  \/ \E m \in Materials \cup {NoMaterial} : RestartWith(m)
  \/ Damage

RegistrySpec == RegistryInit /\ [][RegistryNext]_registryVars

-----------------------------------------------------------------------------
\* Every provider that was created and not removed is registered under an id of its own, and a
\* client of it is built with the key that was entered or, when the key was encrypted with another
\* passphrase, not at all: through restarts with other passphrases, failed writes, and rows that a
\* write encrypts in passing (custom_providers.py, upsert, _encrypt_for_write, effective_api_key).
ProvidersStand ==
  /\ {Entry(r) : r \in providers.cache} = entered
  /\ \A r, s \in providers.cache : r.id = s.id => r = s
  /\ \A r \in providers.cache :
       \/ EffectiveKey(r.key) = Plain(r.key.text)
       \/ EffectiveKey(r.key) = Unreadable /\ r.key.seals # <<material>>

\* Once a passphrase is in use no key lies in the file as it was entered (secret_crypto.py: "a
\* configured key transparently upgrades plaintext on the next write").
KeysAreSealed ==
  providers.file.intact /\ lastWrite # NoMaterial =>
    \A r \in providers.file.rows : r.key.text # NoKey => IsEncrypted(r.key)

\* A combo that was saved routes as it was saved, in this process and in the next, whatever
\* became of the changes of other combos (combos.py, upsert, remove).
CombosStand ==
  \A row \in saved :
    LET chain == IF row.enabled THEN ResolvedNodes(row) ELSE NoNodes IN
    /\ ResolveCombo(combos.cache, row.id) = chain
    /\ combos.file.intact => ResolveCombo(combos.file.rows, row.id) = chain

\* Both registries keep what they were given.
RegistriesAreSound == ProvidersStand /\ KeysAreSealed /\ CombosStand
===============================================================================
