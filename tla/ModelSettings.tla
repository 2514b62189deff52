---------------------------- MODULE ModelSettings ----------------------------
(***************************************************************************)
(* Which model a prompt gets: config.json of the user and of the project,  *)
(* written by /oss:models (cli/models.ts), merged by config/model-config.ts*)
(* and cached by services/model-router.ts, with model-registry.ts and      *)
(* model-executor.ts; and settings.json, of which every SettingsService    *)
(* (services/settings.ts) keeps a copy.  One prompt stands for all.        *)
(***************************************************************************)
EXTENDS Naturals, FiniteSets

CONSTANTS
  Command,   \* processes that run /oss:models
  Service,   \* processes that hold a SettingsService
  MaxChange  \* bound on the changes of the files

VARIABLES
  subject,   \* what is at work: the commands, the router or the settings
  user, project, \* the two config.json, {} where there is none or no JSON
  command,   \* each command: a stage, its job and the copy it works on
  cache, loaded, pending, \* of the router: answers, merged config, resolutions under way
  read,                   \* of its ModelConfig: the user's config and the project's
  since,     \* history: the configs there were since the cache was invalidated
  caught,    \* history: it was invalidated with a resolution under way
  answer,    \* the last resolution, with the model it gave, {} in other states
  given,     \* history: the keys that were stored
  lost,      \* history: commands overlapped, or a file could not be read
  settings, copy, \* settings.json, and the copy of each service
  wanted,    \* history: what was last set and saved, by field
  stale,     \* history: a service saved a copy older than the file
  changes

files == <<user, project, command, given, lost>>
router == <<cache, loaded, pending, read, since, caught>>
service == <<settings, copy, wanted, stale>>
vars == <<subject, files, router, answer, service, changes>>

ModelId == {"claude", "ollama/llama3.2", "bare"}
None == "none"
Empty == [agent |-> None, default |-> None, keys |-> {}]
Or(x, y) == IF x # None THEN x ELSE y
Read(file) == IF file = {} THEN Empty ELSE CHOOSE c \in file : TRUE
Request == {[cli |-> None, frontmatter |-> None], [cli |-> None, frontmatter |-> "openrouter/other"],
            [cli |-> "ollama/llama3.2", frontmatter |-> None]}
Key == {"openrouter", "gemini"}
NoSettings == [style |-> "visual", telegram |-> "off", model |-> None]

Init ==
  /\ subject \in {"commands", "router", "settings"}
  /\ user = {} /\ project = {}
  /\ command = [c \in Command |-> [stage |-> "idle", job |-> None, copy |-> Empty]]
  /\ cache = [r \in Request |-> None] /\ loaded = {} /\ pending = {} /\ read = <<Empty, Empty>>
  /\ since = {<<Read(user), Read(project)>>}
  /\ caught = FALSE /\ answer = {} /\ given = {} /\ lost = FALSE
  /\ settings = {} /\ copy = [s \in Service |-> {}] /\ wanted = NoSettings /\ stale = FALSE
  /\ changes = 0

-----------------------------------------------------------------------------
(* Model identifiers.                                                      *)

\* parseProvider, detectProvider.
ProviderOf(m) ==
  CASE m = "claude" -> "claude" [] m = "ollama/llama3.2" -> "ollama"
    [] m = "openrouter/other" -> "openrouter" [] OTHER -> None
IsValidModelId(m) == ProviderOf(m) # None

\* execute: Claude itself, the provider, or Claude again when it fails.
Execute(m, fails, fallback) ==
  IF ProviderOf(m) = "claude" THEN "claude"
  ELSE IF ~fails THEN Or(ProviderOf(m), "unknown")
  ELSE IF fallback THEN "claude" ELSE "error"

-----------------------------------------------------------------------------
(* /oss:models set and keys set: load, change, write all of it.            *)

Job == [field : {"agent"}, value : ModelId] \cup [field : {"keys"}, value : Key \cup {"acme"}]
Accepted(j) == IF j.field = "agent" THEN IsValidModelId(j.value) ELSE j.value \in Key

LoadConfig(c, j) ==
  /\ command[c].stage = "idle" /\ Accepted(j) /\ changes < MaxChange
  /\ command' = [command EXCEPT ![c] = [stage |-> "save", job |-> j, copy |-> Read(user)]]
  /\ lost' = (lost \/ (user = {} /\ given # {}) \/ \E d \in Command : command[d].stage = "save")
  /\ changes' = changes + 1
  /\ UNCHANGED <<user, project, given, router, service>>

Changed(config, j) ==
  IF j.field = "agent" THEN [config EXCEPT !.agent = j.value] ELSE [config EXCEPT !.keys = @ \cup {j.value}]

\* Mutant: only what was changed is written.
SaveOnly(c) ==
  LET j == command[c].job
  IN /\ command[c].stage = "save"
     /\ user' = {Changed(Empty, j)}
     /\ given' = IF j.field = "keys" THEN given \cup {j.value} ELSE given
     /\ command' = [command EXCEPT ![c].stage = "idle"]
     /\ UNCHANGED <<project, lost, router, service, changes>>

SaveConfig(c) ==
  LET j == command[c].job
      next == Changed(command[c].copy, j)
  IN /\ command[c].stage = "save"
     /\ user' = {next}
     /\ given' = IF j.field = "keys" THEN given \cup {j.value} ELSE given
     /\ command' = [command EXCEPT ![c].stage = "idle"]
     /\ UNCHANGED <<project, lost, router, service, changes>>

\* The file is removed, or cannot be read while it is written by hand.
Spoil ==
  /\ changes < MaxChange /\ changes' = changes + 1
  /\ user' = {} /\ lost' = (lost \/ user # {})
  /\ UNCHANGED <<project, command, given, router, service>>

\* A file changes under the router: the user's by a command, the project's by hand.
Edit ==
  /\ changes < MaxChange /\ changes' = changes + 1
  /\ \/ \E c \in {{}} \cup {{[Empty EXCEPT !.agent = m]} : m \in {m \in ModelId : IsValidModelId(m)}} :
          user' = c /\ UNCHANGED project
     \/ \E m \in {None, "bare"} :
          project' = {[Empty EXCEPT !.agent = m, !.default = "claude"]} /\ UNCHANGED user
  /\ since' = since \cup {<<Read(user'), Read(project')>>}
  /\ UNCHANGED <<command, given, lost, cache, loaded, pending, read, caught, service>>

-----------------------------------------------------------------------------
(* ModelRouter.                                                            *)

\* getMergedConfig: the project's settings over the user's, and the order of
\* resolveModel.  pair is the two configs.
Resolved(pair, r) ==
  LET mapped == Or(pair[2].agent, pair[1].agent)
      default == Or(pair[2].default, pair[1].default)
  IN Or(r.cli, Or(mapped, Or(r.frontmatter, Or(default, "claude"))))

Answer(r, m) == answer' = {[request |-> r, model |-> m]}

\* resolveModel: the cache, an override, or a config already merged; else getMergedConfig
\* reads the user's config, after an await the project's, and after another one merges
\* what its ModelConfig has read last, for this resolution or for one that overlaps it.
Resolve(r) ==
  /\ \/ cache[r] # None /\ Answer(r, cache[r]) /\ UNCHANGED <<cache, pending, read>>
     \/ /\ cache[r] = None /\ (r.cli # None \/ loaded # {})
        /\ \E pair \in IF loaded = {} THEN {<<Empty, Empty>>} ELSE loaded :
             /\ Answer(r, Resolved(pair, r))
             /\ cache' = [cache EXCEPT ![r] = Resolved(pair, r)]
        /\ UNCHANGED <<pending, read>>
     \/ /\ cache[r] = None /\ r.cli = None /\ loaded = {}
        /\ pending' = pending \cup {[request |-> r, stage |-> "project"]}
        /\ read' = <<Read(user), read[2]>>
        /\ answer' = {} /\ UNCHANGED cache
  /\ UNCHANGED <<files, loaded, since, caught, service, changes>>

ReadProject(p) ==
  /\ p \in pending /\ p.stage = "project"
  /\ pending' = (pending \ {p}) \cup {[p EXCEPT !.stage = "merge"]}
  /\ read' = <<read[1], Read(project)>>
  /\ answer' = {}
  /\ UNCHANGED <<files, cache, loaded, since, caught, service, changes>>

Merge(p) ==
  /\ p \in pending /\ p.stage = "merge" /\ pending' = pending \ {p}
  /\ loaded' = {read}
  /\ cache' = [cache EXCEPT ![p.request] = Resolved(read, p.request)]
  /\ Answer(p.request, Resolved(read, p.request))
  /\ UNCHANGED <<files, read, since, caught, service, changes>>

\* Mutant: only the merged config is dropped.
InvalidateConfig ==
  /\ loaded' = {} /\ since' = {<<Read(user), Read(project)>>}
  /\ caught' = (caught \/ pending # {})
  /\ UNCHANGED <<files, cache, pending, read, service, changes>>

InvalidateCache ==
  /\ cache' = [r \in Request |-> None] /\ loaded' = {}
  /\ since' = {<<Read(user), Read(project)>>}
  /\ caught' = (caught \/ pending # {})
  /\ UNCHANGED <<files, pending, read, service, changes>>

-----------------------------------------------------------------------------
(* SettingsService.                                                        *)

\* loadSettings and its kin; validateAndMerge takes the default for a style that
\* is none.
Valid(s) == IF s.style \in {"visual", "audio", "sound", "none"} THEN s ELSE [s EXCEPT !.style = "visual"]
New(s) ==
  /\ copy' = [copy EXCEPT ![s] = {Valid(c) : c \in IF settings = {} THEN {NoSettings} ELSE settings}]
  /\ UNCHANGED <<settings, wanted, stale, changes>>

Field == [field : {"telegram"}, value : {"on", "off"}] \cup [field : {"model"}, value : ModelId]
           \cup [field : {"style"}, value : {"audio", "loud"}]

\* Mutant: a style is saved unchecked.
SetUnchecked(s, f) ==
  /\ copy[s] # {} /\ changes < MaxChange /\ changes' = changes + 1
  /\ \E old \in copy[s] :
       LET next == [old EXCEPT ![f.field] = f.value]
       IN copy' = [copy EXCEPT ![s] = {next}] /\ settings' = {next} /\ wanted' = [wanted EXCEPT ![f.field] = f.value]
  /\ stale' = (stale \/ (settings # {} /\ copy[s] # settings))

\* A setter and save: setTelegram and setModelForPrompt save themselves.
SetField(s, f) ==
  /\ copy[s] # {} /\ changes < MaxChange /\ changes' = changes + 1
  /\ \E old \in copy[s] :
       LET next == IF f.value = "loud" THEN old ELSE [old EXCEPT ![f.field] = f.value]
       IN /\ copy' = [copy EXCEPT ![s] = {next}] /\ settings' = {next}
          /\ wanted' = IF f.value = "loud" THEN wanted ELSE [wanted EXCEPT ![f.field] = f.value]
  /\ stale' = (stale \/ (settings # {} /\ copy[s] # settings))

Next ==
  \/ /\ subject = "commands"
     /\ (\E c \in Command : (\E j \in Job : LoadConfig(c, j)) \/ SaveConfig(c)) \/ Spoil
     /\ UNCHANGED <<subject, answer>>
  \/ /\ subject = "router"
     /\ \/ (Edit \/ InvalidateCache) /\ answer' = {}
        \/ (\E r \in Request : Resolve(r)) \/ (\E p \in pending : ReadProject(p) \/ Merge(p))
     /\ UNCHANGED subject
  \/ /\ subject = "settings"
     /\ \E s \in Service : New(s) \/ \E f \in Field : SetField(s, f)
     /\ UNCHANGED <<subject, files, router, answer>>

Spec == Init /\ [][Next]_vars

-----------------------------------------------------------------------------
(* Properties.                                                             *)

\* What the router answers follows, with the project's mapping before the user's, from
\* the user's config and the project's as each of them was at some time since the cache
\* was invalidated, if no resolution was under way then; and what no provider runs was
\* written by hand.
ResolvedSince ==
  ~caught => \A a \in answer :
    /\ \E u, p \in since : a.model = Resolved(<<u[1], p[2]>>, a.request)
    /\ Execute(a.model, FALSE, FALSE) = "unknown" => \E pair \in since : pair[2].agent = a.model

\* What the header of the router says: the user's mapping comes before the project's.
\* The code lets the project's take its place.
UserBeforeProject ==
  ~caught => \A a \in answer :
    a.request.cli = None =>
      \E u \in since : u[1].agent \in {None, a.model}

\* Every key that was stored is there, unless commands overlapped or the file
\* could not be read.
KeysKept == ~lost => given \subseteq Read(user).keys

\* What was set and saved last, of each field, is what a service that starts now
\* finds, unless a service has saved a copy older than the file.
SettingsKept == ~stale => \A c \in settings : Valid(c) = wanted /\ c = Valid(c)
=============================================================================
