---------------------------- MODULE MCSurroundings ----------------------------
(* Small instances of what surrounds the conversations and their answers: who  *)
(* owns what arrives in a chat, the account that calls are made with, how      *)
(* somebody signs in, the settings, the registries of providers and combos,    *)
(* the models that are listed, the supervision of the server, and what a       *)
(* provider's exception means.  A behaviour is about one of them, with those   *)
(* actors of the first two its scene names.                                    *)
EXTENDS ChatOwnership, AccountSession, AdminConfiguration, ServerSupervision, FailurePolicy,
        Registries, AccountLogin, ModelListing, TLC

CONSTANT Scenes \* pairs of a subject and its actors

VARIABLE scene

all == <<chatOwnershipVars, accountVars, configVars, serverVars, failureVars, registryVars,
         loginVars, listingVars, scene>>

Subject == scene[1]
Cast    == scene[2]

\* Prompt 1 answers note 11; 0 is the startup notice.
MCNote    == (11 :> 31) @@ (12 :> 32)
MCReplies == (1 :> 11) @@ (11 :> 0) @@ (12 :> 0)

\* Two processes share one home; only the first is operated.
MCHome       == (51 :> 1) @@ (52 :> 2)
MCOperations == (1 :> 2) @@ (2 :> 0)
MCPolls      == (1 :> 1) @@ (2 :> 0)

MCFields  == {"model", "port", "key", "token"}
MCDefault == [f \in MCFields |-> "d"]
Sources(process, explicit, repo) == [process |-> process, explicit |-> explicit, repo |-> repo]
MCExternals ==
  {Sources(NoFile, NoFile, repo) : repo \in {NoFile, ("model" :> "@combo:c") @@ ("key" :> "r")}}
    \cup {Sources("token" :> "p", NoFile, "port" :> "r"),
          Sources("key" :> "p", "port" :> "e",
                  ("key" :> "r") @@ ("port" :> "r") @@ ("token" :> "r"))}
MCUpdates ==
  {"model" :> "@combo:c", "model" :> "a", "token" :> "b", "port" :> "d",
   ("port" :> "b") @@ ("key" :> Mask), ("key" :> "b") @@ ("model" :> "a")}

MCPorts == <<1455, 1457>>

\* Exceptions whose parts say the same or different things.
Unheard ==
  [class : Classes \ {"execution"},
   status : {NoStatus, 400, 401, 403, 404, 429, 500, 503, 529},
   body : {Silent, [Silent EXCEPT !.number = 401], [Silent EXCEPT !.says = {"rate_limit"}]},
   nested : {Silent, [Silent EXCEPT !.number = 429],
             [number |-> 403, says |-> {"overload"}]},
   says : {{}, {"overload"}, {"internal"}}, hint : {"none", "context", "degraded"},
   kind : {"upstream"}, advice : {"final"}]
MCErrors ==
  {e \in Unheard : HasItsClass(e) /\ (e.hint # "none" => e.class \in {"bad_request", "internal"})}
    \cup {Failure("upstream", 502, "retry"), Failure("upstream", 502, "final"),
          Failure("authentication", 401, "final"), Failure("unavailable", 503, "retry")}
Common == Failure("upstream", 502, "final")

\* What a second provider named like the first is given is the slug of the other name.
MCCandidates ==
  ("a" :> <<"a", "a_2", "a_3", "a_4">>) @@ ("a 2" :> <<"a_2", "a_2_2", "a_2_3", "a_2_4">>)
Hop(ref, enabled, priority) == [ref |-> ref, enabled |-> enabled, priority |-> priority]
MCNodeLists ==
  {<<Hop("x", TRUE, 1), Hop("y", TRUE, 0), Hop("z", FALSE, 0), Hop("w", TRUE, 1)>>,
   <<Hop("x", FALSE, 0)>>}

MCComboWrites == 3

\* Two settings, one for a remote provider and one for a local one.
MCConfigured == ("s" :> {"remote"}) @@ ("t" :> {"local"})
MCRouted     == ("s" :> {"remote", "own"}) @@ ("t" :> {"own"})

AllScenes ==
  {<<"chat", cast>> : cast \in {{11, 12, 21}, {1, 11, 21}, {0, 1, 21}}}
    \cup {<<"account", cast>> : cast \in {{51, 52}, {1, 51}, {1, 52}}}
    \cup {<<about, {}>> : about \in {"config", "server", "failure", "providers", "combos", "login", "models"}}

Disconnects == {<<"account", {1}>>}

Awake ==
  {f \in Flows : flow[f] # "idle"} \cup {p \in Prompts : turn[p] # "idle"}
    \cup {c \in Commands : op[c].at # "idle"}
    \cup (IF notice.at = "idle" THEN {} ELSE {0})

\* What a behaviour is not about starts in one way only.
MCInit ==
  /\ scene \in Scenes
  /\ FailureInit
  /\ Subject # "failure" => first = Common /\ ~special
  /\ ChatOwnershipInit /\ AccountInit /\ ConfigInit /\ ServerInit /\ RegistryInit /\ LoginInit
  /\ ListingInit
  /\ Subject # "providers" => material = NoMaterial
  /\ Subject # "account" => file = None
  /\ inForce = "s"
  /\ Subject # "models" => ~session.connected /\ published.by = "nobody"
  /\ Subject # "config" => external = Sources(NoFile, NoFile, NoFile) /\ combo.file = Absent

ChatMoves ==
  /\ Subject = "chat" /\ ChatOwnershipNext /\ Awake' \subseteq Cast
  /\ UNCHANGED <<accountVars, configVars, serverVars, failureVars, registryVars, loginVars,
                 listingVars, scene>>

AccountMoves ==
  /\ Subject = "account" /\ AccountNext
  /\ \A c \in Calls \ Cast : call'[c].at = "new"
  /\ \A p \in Processes \ Cast : operator'[p].asked = 0 /\ catalog'[p].polls = 0
  /\ UNCHANGED <<chatOwnershipVars, configVars, serverVars, failureVars, registryVars, loginVars,
                 listingVars, scene>>

RegistryMoves ==
  /\ Subject \in {"providers", "combos"}
  /\ IF Subject = "providers"
     THEN UNCHANGED combos
     ELSE UNCHANGED <<material, providers>> /\ writes < MCComboWrites
  /\ RegistryNext
  /\ UNCHANGED <<chatOwnershipVars, accountVars, configVars, serverVars, failureVars, loginVars,
                 listingVars, scene>>

MCNext ==
  \/ ChatMoves \/ AccountMoves \/ RegistryMoves
  \/ /\ Subject = "config" /\ ConfigNext
     /\ UNCHANGED <<chatOwnershipVars, accountVars, serverVars, failureVars, registryVars, loginVars,
                    listingVars, scene>>
  \/ /\ Subject = "server" /\ ServerNext
     /\ UNCHANGED <<chatOwnershipVars, accountVars, configVars, failureVars, registryVars, loginVars,
                    listingVars, scene>>
  \/ /\ Subject = "failure" /\ FailureStep
     /\ UNCHANGED <<chatOwnershipVars, accountVars, configVars, serverVars, registryVars, loginVars,
                    listingVars, scene>>
  \/ /\ Subject = "login" /\ LoginNext
     /\ UNCHANGED <<chatOwnershipVars, accountVars, configVars, serverVars, failureVars,
                    registryVars, listingVars, scene>>
  \/ /\ Subject = "models" /\ ListingNext
     /\ UNCHANGED <<chatOwnershipVars, accountVars, configVars, serverVars, failureVars,
                    registryVars, loginVars, scene>>

MCSafety == MCInit /\ [][MCNext]_all
MCSpec   == MCSafety /\ ChatFairness /\ ServerFairness /\ LoginFairness

\* Commands, runs and sign-ins end, whatever they wait for (see the modules).
EverythingEnds == EveryCommandEnds /\ StopEndsTheRun /\ EveryLoginEnds

\* Credentials and what is listed of them are not lost to another task, and a
\* sign-in is decided by its own tab and leaves nothing behind.
AccountsAreSound == AccountIsSound /\ LoginIsSound
===============================================================================
