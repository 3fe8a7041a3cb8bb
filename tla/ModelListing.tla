---------------------------- MODULE ModelListing ----------------------------
(***************************************************************************)
(* What models the process lists: the cache of the manager of provider      *)
(* runtimes, its discovery tasks, and the catalog file published for Codex. *)
(* Lists are asked for at the start, in the background, by Admin calls one  *)
(* at a time under the replace lock, and by provider tests, which take no   *)
(* lock.  What may be cached depends on the settings in force and on an     *)
(* account that somebody signs in to or that ends by itself.                *)
(*                                                                          *)
(* A step is the code a task runs between two suspensions.  The leases and  *)
(* the close of the manager are in ProviderGenerations, the account's own   *)
(* locks in AccountSession.                                                 *)
(***************************************************************************)
EXTENDS Naturals, Sequences, FiniteSets

CONSTANTS
  Supported,    \* providers of the catalog of this program
  Locals,       \* those on this machine
  Account,      \* the one that needs no settings but an account
  Custom,       \* providers somebody has registered
  Applied,      \* settings that may be in force
  Configured,   \* the supported providers that settings are complete for
  Routed,       \* the providers that settings route a tier to
  Lists, NoList,   \* what a provider may list; nothing was listed yet
  MaxModelCalls, MaxRevision  \* bounds

ASSUME ListingConstants ==
  /\ Locals \subseteq Supported /\ Account \in Supported \ Locals
  /\ Custom \cap Supported = {}
  /\ Configured \in [Applied -> SUBSET (Supported \ {Account})]
  /\ Routed \in [Applied -> SUBSET (Supported \cup Custom)]
  /\ NoList \notin Lists
  /\ {MaxModelCalls, MaxRevision} \subseteq Nat

VARIABLES
  inForce,    \* settings of the current generation
  session,    \* what the account's manager says: [connected, revision]
  noticed,    \* revision the application has acted on, 0 for none
  scope,      \* _available_provider_ids
  lists,      \* _model_infos_by_provider
  published,  \* the catalog file: by whom it was written, and what it says
  outdated,   \* the file is not what this process last meant to write
  discovery,  \* the background task: [at, asks, missing]
  admin,      \* the calls of the replace lock, its holder first
  testing,    \* provider tests that wait for a list: [about, with]
  modelCalls  \* Admin calls made

listingVars == <<inForce, session, noticed, scope, lists, published, outdated, discovery, admin,
                 testing, modelCalls>>

-----------------------------------------------------------------------------
(* The cache and the catalog. *)

\* model_cache_provider_ids_for_settings
UsableByNobody(s, connected) == Configured[s] \cup {Account}
Usable(s, connected) == Configured[s] \cup (IF connected THEN {Account} ELSE {})

\* model_list_provider_ids_for_settings: nobody asks a local one in vain.
WorthAsking(s) == Usable(s, session.connected) \ (Locals \ Routed[s])

Within(cache, ids) == [p \in Supported |-> IF p \in ids THEN cache[p] ELSE NoList]

\* cache_model_infos, for what was asked and answered
Cached(cache, ids, answers) ==
  [p \in Supported |->
     IF p \in DOMAIN answers \cap ids /\ answers[p] # NoList THEN answers[p] ELSE cache[p]]

\* build_models_list_response, as far as the Codex catalog shows it
Inventory(s, cache) ==
  [routed |-> Routed[s] \cap Supported,
   found  |-> [p \in Supported |-> IF cache[p] = NoList THEN {} ELSE cache[p]]]

Empty(inventory) == inventory.routed = {} /\ \A p \in Supported : inventory.found[p] = {}

\* _publish_model_catalog, which reads the cache as every reader does: what is
\* out of scope by now is dropped.  An empty catalog is not written, and a write
\* may fail.
PublishCatalog(s, cache) ==
  LET ids == Usable(s, session.connected)  all == Inventory(s, Within(cache, ids)) IN
  /\ scope' = ids
  /\ lists' = Within(cache, ids)
  /\ \/ /\ ~Empty(all)
        /\ published' = [by |-> "process", says |-> all]
        /\ outdated' = FALSE
     \/ /\ published' = published
        /\ outdated' = TRUE

\* What the providers asked for under settings s answer: only those that can be
\* constructed do.
Answers(s, asks) ==
  {answers \in [asks -> Lists \cup {NoList}] :
     \A p \in asks : answers[p] # NoList => p \in Configured[s] \cup {Account} \cup Custom}

-----------------------------------------------------------------------------
NothingAsked == [at |-> "none", asks |-> {}, missing |-> FALSE]

NobodysFile == Inventory(CHOOSE s \in Applied : TRUE, [p \in Supported |-> NoList])

ListingInit ==
  /\ inForce \in Applied
  /\ \E connected \in BOOLEAN : /\ session = [connected |-> connected, revision |-> 1]
                                /\ scope = Usable(inForce, connected)
  /\ noticed = 0
  /\ lists = [p \in Supported |-> NoList]
  /\ \E by \in {"nobody", "earlier"} : published = [by |-> by, says |-> NobodysFile]
  /\ outdated = TRUE
  /\ discovery = [at |-> "warming", asks |-> Routed[inForce], missing |-> TRUE]
  /\ admin = <<>>
  /\ testing = {}
  /\ modelCalls = 0

\* warm_referenced_model_cache: it ensures that there is a catalog, and the start
\* goes on with the first background refresh.
Warmed ==
  /\ discovery.at = "warming"
  /\ \E answers \in Answers(inForce, discovery.asks) :
       IF published.by = "nobody"
       THEN PublishCatalog(inForce, Cached(lists, scope, answers))
       ELSE /\ lists' = Cached(lists, scope, answers)
            /\ UNCHANGED <<scope, published, outdated>>
  /\ discovery' = [NothingAsked EXCEPT !.at = "created", !.missing = TRUE]
  /\ UNCHANGED <<inForce, session, noticed, admin, testing, modelCalls>>

\* _refresh_generation_in_background, from its first step to the last answer
Discover ==
  /\ discovery.at = "created"
  /\ discovery' = [discovery EXCEPT
       !.at = "asking",
       !.asks = {p \in WorthAsking(inForce) : discovery.missing => lists[p] = NoList}]
  /\ UNCHANGED <<inForce, session, noticed, scope, lists, published, outdated, admin, testing,
                 modelCalls>>

Discovered ==
  /\ discovery.at = "asking"
  /\ \E answers \in Answers(inForce, discovery.asks) :
       PublishCatalog(inForce, Cached(lists, scope, answers))
  /\ discovery' = NothingAsked
  /\ UNCHANGED <<inForce, session, noticed, admin, testing, modelCalls>>

-----------------------------------------------------------------------------
(* Calls under the replace lock. *)

Call(does, s, connected, revision) ==
  [does |-> does, with |-> s, connected |-> connected, revision |-> revision, asks |-> {},
   begun |-> FALSE]

\* No call comes before the start is over.
Comes == discovery.at # "warming" /\ modelCalls < MaxModelCalls /\ modelCalls' = modelCalls + 1

Queued(call) == admin' = Append(admin, call)

AskRefresh ==
  /\ Comes
  /\ Queued(Call("refresh", inForce, FALSE, 0))
  /\ UNCHANGED <<inForce, session, noticed, scope, lists, published, outdated, discovery, testing>>

\* apply_admin_config of a change that needs no restart
AskApply(s) ==
  /\ Comes
  /\ Queued(Call("apply", s, FALSE, 0))
  /\ UNCHANGED <<inForce, session, noticed, scope, lists, published, outdated, discovery, testing>>

\* connected_account_status: a revision it has not seen is acted on.
AskStatus ==
  /\ Comes
  /\ IF session.revision = noticed
     THEN /\ scope' = Usable(inForce, session.connected)
          /\ lists' = Within(lists, scope')
          /\ UNCHANGED admin
     ELSE /\ Queued(Call("changed", inForce, session.connected, session.revision))
          /\ UNCHANGED <<scope, lists>>
  /\ UNCHANGED <<inForce, session, noticed, published, outdated, discovery, testing>>

\* disconnect_connected_account
AskDisconnect ==
  /\ Comes
  /\ session.revision < MaxRevision
  /\ session' = [connected |-> FALSE, revision |-> session.revision + 1]
  /\ Queued(Call("changed", inForce, FALSE, session.revision + 1))
  /\ UNCHANGED <<inForce, noticed, scope, lists, published, outdated, discovery, testing>>

Holds(does) == admin # <<>> /\ Head(admin).does = does
Begun == Head(admin).begun
Begins(asks) == admin' = [admin EXCEPT ![1].begun = TRUE, ![1].asks = asks]
Leaves == admin' = Tail(admin)

\* _cancel_refresh: a discovery that has not ended is given up.
Cancelled == IF discovery.at \in {"created", "asking"} THEN NothingAsked ELSE discovery

RefreshBegins ==
  /\ Holds("refresh") /\ ~Begun
  /\ Begins(WorthAsking(inForce))
  /\ discovery' = Cancelled
  /\ UNCHANGED <<inForce, session, noticed, scope, lists, published, outdated, testing, modelCalls>>

RefreshEnds ==
  /\ Holds("refresh") /\ Begun
  /\ \E answers \in Answers(inForce, Head(admin).asks) :
       PublishCatalog(inForce, Cached(lists, scope, answers))
  /\ Leaves
  /\ UNCHANGED <<inForce, session, noticed, discovery, testing, modelCalls>>

\* replace: the new scope, a catalog of it, and a full refresh in the background
Replace ==
  /\ Holds("apply")
  /\ inForce' = Head(admin).with
  /\ PublishCatalog(inForce', lists)
  /\ discovery' = [NothingAsked EXCEPT !.at = "created"]
  /\ Leaves
  /\ UNCHANGED <<session, noticed, testing, modelCalls>>

\* The commit of the settings fails when the discovery under way is already
\* given up; nothing starts another one.
ReplaceFails ==
  /\ Holds("apply")
  /\ discovery' = Cancelled
  /\ Leaves
  /\ UNCHANGED <<inForce, session, noticed, scope, lists, published, outdated, testing,
                 modelCalls>>

EvictQuietly ==
  /\ Holds("changed") /\ ~Head(admin).connected
  /\ scope' = scope \ {Account}
  /\ lists' = [lists EXCEPT ![Account] = NoList]
  /\ noticed' = Head(admin).revision
  /\ Leaves
  /\ UNCHANGED <<inForce, session, published, outdated, discovery, testing, modelCalls>>

\* connected_provider_changed, and the revision its caller notes afterwards
Evict ==
  /\ Holds("changed") /\ ~Head(admin).connected
  /\ PublishCatalog(inForce, [lists EXCEPT ![Account] = NoList])
  /\ noticed' = Head(admin).revision
  /\ Leaves
  /\ UNCHANGED <<inForce, session, discovery, testing, modelCalls>>

AddBegins ==
  /\ Holds("changed") /\ Head(admin).connected /\ ~Begun
  /\ scope' = scope \cup {Account}
  /\ Begins({Account})
  /\ UNCHANGED <<inForce, session, noticed, lists, published, outdated, discovery, testing,
                 modelCalls>>

AddEnds ==
  /\ Holds("changed") /\ Begun
  /\ \E answers \in Answers(inForce, {Account}) :
       PublishCatalog(inForce, Cached(lists, scope, answers))
  /\ noticed' = Head(admin).revision
  /\ Leaves
  /\ UNCHANGED <<inForce, session, discovery, testing, modelCalls>>

-----------------------------------------------------------------------------
(* Without the lock. *)

\* test_provider: the list is cached after the lease was given back, whatever
\* has been applied since.
Test(p) ==
  /\ Comes
  /\ testing' = testing \cup {[about |-> p, with |-> inForce]}
  /\ UNCHANGED <<inForce, session, noticed, scope, lists, published, outdated, discovery, admin>>

Tested(t) ==
  /\ t \in testing
  /\ \E answers \in Answers(t.with, {t.about}) :
       IF answers[t.about] = NoList
       THEN UNCHANGED <<scope, lists, published, outdated>>
       ELSE PublishCatalog(inForce, Cached(lists, scope, answers))
  /\ testing' = testing \ {t}
  /\ UNCHANGED <<inForce, session, noticed, discovery, admin, modelCalls>>

\* GET /v1/models and the Admin status synchronize the scope and publish nothing.
ListModels ==
  /\ scope' = Usable(inForce, session.connected)
  /\ lists' = Within(lists, scope')
  /\ UNCHANGED <<inForce, session, noticed, published, outdated, discovery, admin, testing,
                 modelCalls>>

\* A sign-in is completed, or a refused refresh ends the session.
SessionChanges ==
  /\ session.revision < MaxRevision
  /\ session' = [connected |-> ~session.connected, revision |-> session.revision + 1]
  /\ UNCHANGED <<inForce, noticed, scope, lists, published, outdated, discovery, admin, testing,
                 modelCalls>>

\* A refused request finds the credentials that another process has signed in
\* with, and no new revision tells of it (auth.py, recover_unauthorized).
SessionReturns ==
  /\ ~session.connected
  /\ session' = [session EXCEPT !.connected = TRUE]
  /\ UNCHANGED <<inForce, noticed, scope, lists, published, outdated, discovery, admin, testing,
                 modelCalls>>

ListingNext ==
  \/ Warmed \/ Discover \/ Discovered
  \/ AskRefresh \/ AskStatus \/ AskDisconnect \/ \E s \in Applied : AskApply(s)
  \/ RefreshBegins \/ RefreshEnds \/ Replace \/ ReplaceFails \/ Evict \/ AddBegins \/ AddEnds
  \/ \E p \in Supported \cup Custom : Test(p)
  \/ \E t \in testing : Tested(t)
  \/ ListModels \/ SessionChanges \/ SessionReturns

ListingSpec == ListingInit /\ [][ListingNext]_listingVars

-----------------------------------------------------------------------------
(* Properties *)

\* Nothing is listed of a provider the settings in force are not complete for,
\* nor of an account whose end was acted on, although the answers of earlier
\* generations and sessions still come in (model_cache.py, cache_model_infos).
ListedIsUsable ==
  /\ \A p \in Supported \ {Account} : lists[p] # NoList => p \in Configured[inForce]
  /\ noticed = session.revision /\ ~session.connected => lists[Account] = NoList

\* Once a change of the account was acted on, the catalog file says what the
\* process lists at any moment, unless it could not be written, and although
\* the cache is filled and emptied by tasks that know nothing of one another
\* (provider_manager.py, _publish_model_catalog).
CatalogFollows ==
  ~outdated /\ noticed = session.revision =>
    published.says = Inventory(inForce, Within(lists, Usable(inForce, session.connected)))

\* What is listed, by the process and in the file, is what may be used now.
ModelsAreTrue == ListedIsUsable /\ CatalogFollows
=============================================================================
