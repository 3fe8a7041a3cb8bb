------------------------- MODULE AdminConfiguration -------------------------
(***************************************************************************)
(* What the Admin UI saves and what the server runs with: dotenv files in  *)
(* precedence order, the managed file it rewrites, the settings snapshot   *)
(* of the current provider generation, the fields that need a restart, and *)
(* the registries of custom providers and combos, kept as a file and as an *)
(* in-process cache, that tier settings and requests refer to.             *)
(***************************************************************************)
EXTENDS Naturals, FiniteSets

CONSTANTS Fields,       \* settings the manifest lists
          Secret,       \* fields shown masked
          NeedsRestart, \* restart_required, session_sensitive, the voice key in use
          DotenvFirst,  \* fields a dotenv file gives even when the process sets them
          Tier,         \* the field that names the model chain
          Default,      \* the template's values
          Externals,    \* possible [process, explicit, repo] sources, partial functions
          Updates,      \* partial functions the UI may submit
          MaxChanges    \* bound on the changes asked for

\* The auth token is the one field of the first kind (manifest.py).
ASSUME ConfigurationAssumption == DotenvFirst \subseteq NeedsRestart

Mask == "********"
ComboRef == "@combo:c"
Absent == "absent"
NoFile == [f \in {} |-> Absent]

VARIABLES
  external,   \* sources the UI may not write
  managed,    \* the managed dotenv file
  settings,   \* settings snapshot of the current generation
  effect,     \* values that were in force when this process's server was built
  up,         \* whether a server runs
  restartDue, \* a restart was promised to the user
  update,     \* the apply holding the config lock: nothing, or prepared
  combo,      \* the combo c: [file, cache]
  provider,   \* the custom provider p: [file, cache], its url
  instance,   \* the client the current generation built for p
  changes     \* changes asked for so far

configVars == <<external, managed, settings, effect, up, restartDue, update,
                combo, provider, instance, changes>>

-----------------------------------------------------------------------------
(* Sources and precedence: sources.py, values.py, env_files.py *)

Defines(s, f) == f \in DOMAIN s

\* load_value_state(): the value the Admin UI holds for f, and whether it is locked.
IsLocked(f) == Defines(external.process, f) \/ Defines(external.explicit, f)

DotenvDefines(m, f) == \/ Defines(external.explicit, f)
                       \/ Defines(m, f)
                       \/ Defines(external.repo, f)

DotenvValue(m, f) == IF Defines(external.explicit, f) THEN external.explicit[f]
                     ELSE IF Defines(m, f) THEN m[f]
                     ELSE IF Defines(external.repo, f) THEN external.repo[f]
                     ELSE Default[f]

StateValue(m, f) == IF Defines(external.process, f) THEN external.process[f]
                    ELSE DotenvValue(m, f)

\* Settings(): as the state above, but dotenv files win for the auth token.
SettingsFrom(m) == [f \in Fields |->
  IF f \in DotenvFirst /\ DotenvDefines(m, f) THEN DotenvValue(m, f) ELSE StateValue(m, f)]

\* parse_chain_refs(): a combo must be known, enabled and have an enabled node.
Routable(value) == value = ComboRef => combo.cache = "enabled"

\* target_values_with_updates(): the template, then the managed file or, for the
\* first write, what the sources it replaces say, then what was submitted.
Submitted(u, f) == /\ Defines(u, f)
                   /\ ~IsLocked(f)
                   /\ ~(f \in Secret /\ u[f] = Mask)

DropsSourcesBelow(u) == [f \in Fields |->
  IF Submitted(u, f) THEN u[f] ELSE IF Defines(managed, f) THEN managed[f] ELSE Default[f]]

Target(u) == [f \in Fields |->
  IF Submitted(u, f) THEN u[f]
  ELSE IF managed # NoFile THEN (IF Defines(managed, f) THEN managed[f] ELSE Default[f])
  ELSE IF IsLocked(f) THEN Default[f]
  ELSE StateValue(managed, f)]

\* prepare_admin_update(): locked sources are put over the target, but the
\* files the auth token is read from are still the old ones.
PutsOnlyTheTarget(u) == Target(u)

Prospective(u) == [f \in Fields |->
  IF f \in DotenvFirst /\ DotenvDefines(managed, f) THEN DotenvValue(managed, f)
  ELSE IF IsLocked(f) THEN StateValue(managed, f)
  ELSE Target(u)[f]]

Pending(u) == {f \in NeedsRestart : Submitted(u, f) /\ u[f] # StateValue(managed, f)}

-----------------------------------------------------------------------------
ConfigInit ==
  /\ external \in Externals
  /\ managed = NoFile
  /\ settings = SettingsFrom(NoFile)
  /\ effect = settings
  /\ combo \in {[file |-> c, cache |-> c] : c \in {Absent, "enabled"}}
  /\ settings[Tier] = ComboRef => combo.file = "enabled"
  /\ up = TRUE
  /\ restartDue = FALSE
  /\ update = NoFile
  /\ provider = [file |-> Absent, cache |-> Absent]
  /\ instance = Absent
  /\ changes = 0

Asks == /\ up
        /\ changes < MaxChanges
        /\ changes' = changes + 1

(* Applying a configuration: apply_admin_config() under the config lock *)

\* An update that needs a restart is written at once; the route then asks for
\* the restart.  A failed write leaves the old file.
ApplyWithRestart(u) ==
  /\ Asks
  /\ update = NoFile
  /\ Routable(Prospective(u)[Tier])
  /\ Pending(u) # {}
  /\ \/ managed' = Target(u) /\ restartDue' = TRUE
     \/ UNCHANGED <<managed, restartDue>>
  /\ UNCHANGED <<external, settings, effect, up, update, combo, provider, instance>>

\* Any other update replaces the generation, which may first have to wait.
PrepareUpdate(u) ==
  /\ Asks
  /\ update = NoFile
  /\ Routable(Prospective(u)[Tier])
  /\ Pending(u) = {}
  /\ update' = [target |-> Target(u), settings |-> Prospective(u)]
  /\ UNCHANGED <<external, managed, settings, effect, up, restartDue, combo, provider, instance>>

CommitUpdate ==
  /\ update # NoFile
  /\ managed' = update.target
  /\ settings' = update.settings
  /\ instance' = Absent
  /\ update' = NoFile
  /\ UNCHANGED <<external, effect, up, restartDue, combo, provider, changes>>

\* The new runtime cannot be built, or the file not written: nothing changes.
UpdateFails ==
  /\ update # NoFile
  /\ update' = NoFile
  /\ UNCHANGED <<external, managed, settings, effect, up, restartDue, combo, provider,
                 instance, changes>>

\* The supervisor loads the settings again.  Settings() refuses a tier whose
\* combo is gone, and then there is no server any more.
RestartServer ==
  /\ up /\ restartDue
  /\ restartDue' = FALSE
  /\ update' = NoFile
  /\ settings' = SettingsFrom(managed)
  /\ effect' = settings'
  /\ instance' = Absent
  /\ up' = Routable(settings'[Tier])
  /\ UNCHANGED <<external, managed, combo, provider, changes>>

\* The user restarts the server, or the machine does: the caches are read again.
NewProcess ==
  /\ Asks
  /\ restartDue' = FALSE
  /\ update' = NoFile
  /\ settings' = SettingsFrom(managed)
  /\ effect' = settings'
  /\ instance' = Absent
  /\ combo' = [combo EXCEPT !.cache = combo.file]
  /\ provider' = [provider EXCEPT !.cache = provider.file]
  /\ up' = (settings'[Tier] = ComboRef => combo.file = "enabled")
  /\ UNCHANGED <<external, managed>>

-----------------------------------------------------------------------------
(* Registries: combos.py and custom_providers.py *)

\* A combo is created, replaced or removed: the cache first, then the file.
SaveCombo(c) ==
  /\ Asks
  /\ c # combo.cache
  /\ \/ combo' = [file |-> c, cache |-> c]
     \/ combo' = [combo EXCEPT !.cache = c]
  /\ UNCHANGED <<external, managed, settings, effect, up, restartDue, update, provider, instance>>

\* A provider is created or removed: the file first, then the cache is read
\* back from it.  A failed write changes neither.
SaveProvider(url) ==
  /\ Asks
  /\ (url = Absent) # (provider.cache = Absent)
  /\ \/ provider' = [file |-> url, cache |-> url]
     \/ UNCHANGED provider
  /\ UNCHANGED <<external, managed, settings, effect, up, restartDue, update, combo, instance>>

\* A request for the tier resolves its chain and, through the combo, the
\* provider; the generation keeps the client it built.
UseProvider ==
  /\ up
  /\ settings[Tier] = ComboRef
  /\ Routable(ComboRef)
  /\ instance = Absent
  /\ provider.cache # Absent
  /\ instance' = provider.cache
  /\ UNCHANGED <<external, managed, settings, effect, up, restartDue, update, combo, provider,
                 changes>>

-----------------------------------------------------------------------------
ConfigNext ==
  \/ \E u \in Updates : ApplyWithRestart(u) \/ PrepareUpdate(u)
  \/ CommitUpdate \/ UpdateFails \/ RestartServer \/ NewProcess
  \/ \E c \in {Absent, "enabled", "disabled"} : SaveCombo(c)
  \/ \E url \in {Absent, "old", "new"} : SaveProvider(url)
  \/ UseProvider

ConfigSpec == ConfigInit /\ [][ConfigNext]_configVars

-----------------------------------------------------------------------------
(* Properties *)

\* The auth token is set apart when the shell exports it: the managed file then
\* takes over with a value nobody chose.
Steady(f) == ~(f \in DotenvFirst /\ Defines(external.process, f))

\* Saving changes what was submitted and may be changed, and nothing else: the
\* first write of the managed file, which takes the place of the sources below
\* it, leaves every other value in force.
AppliesOnlyWhatWasAsked ==
  [][managed' # managed =>
       \E u \in Updates : \A f \in Fields :
         Steady(f) => StateValue(managed', f) =
           (IF Submitted(u, f) THEN u[f] ELSE StateValue(managed, f))]_configVars

\* Unless a restart is due, the server runs with what is saved: its snapshot is
\* the one the files give, and no restart-only field differs from the value
\* the process was built with.  The registry of custom providers "that routing
\* and the Admin UI share in-process" (custom_providers.py) is the file's.
NothingSavedIsForgotten ==
  /\ provider.cache = provider.file
  /\ up /\ ~restartDue =>
       \A f \in Fields : Steady(f) => /\ settings[f] = SettingsFrom(managed)[f]
                                      /\ f \in NeedsRestart => effect[f] = settings[f]
=============================================================================
