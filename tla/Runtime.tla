------------------------------- MODULE Runtime -------------------------------
(* The stand-alone runtime (src/app/runtime, src/app/runtime_main.py):       *)
(* processes that are launched with one bundle.  They share the directory    *)
(* the bundle is extracted to, the configuration file in it included, and    *)
(* each runs hooks, at its start and when it is asked to.                    *)
(*                                                                           *)
(* The bundle holds a configuration, and no --config is given.  A directory  *)
(* that is absent is one without parts.  A configuration is known by the     *)
(* number of the update that gave it its settings, prompts and API key.      *)
EXTENDS Naturals, FiniteSets, Sequences

CONSTANTS
    Procs,                    \* processes that may be up at once
    Callers,                  \* requests for a run of the hooks, per process
    Scripts,                  \* hooks.scripts: how many there are
    StopOnFailure,            \* hooks.stop_on_failure
    Nothing,                  \* no configuration, no key
    Default, Bad,             \* the settings of an empty file; settings the schema refuses
    MaxLaunches, MaxUpdates,  \* bounds on events
    MaxHookRuns, MaxDeaths

Parts == {"knowledge", "config", "marker"}
Updates == 1..MaxUpdates
\* 0 stands for what was packed.
Configs == [base : {0, Default, Bad} \cup Updates, prompt : {0} \cup Updates,
            key : {0, Nothing} \cup Updates]
PackedConfig == [base |-> 0, prompt |-> 0, key |-> 0]
Defaults == [base |-> Default, prompt |-> 0, key |-> Nothing]
Runs == {"startup"} \cup Callers

ASSUME RuntimeAssumption ==
    /\ Scripts \in Nat \ {0} /\ StopOnFailure \in BOOLEAN
    /\ MaxLaunches \in Nat /\ MaxUpdates \in Nat /\ MaxHookRuns \in Nat /\ MaxDeaths \in Nat
    /\ "startup" \notin Callers
    /\ Nothing \notin Configs

VARIABLES
    dir,         \* the parts that are in the extraction directory
    configFile,  \* runtime-config.yaml in it
    pc,          \* where each process is
    todo,        \* the parts it still has to remove
    mem,         \* _settings: the configuration it has loaded
    at,          \* the hook each run of the hooks has come to, 0 when there is none
    last,        \* _last_results
    mixed,       \* history: runs of the hooks overlapped since the list was reset
    raced,       \* history: two processes have extracted the bundle at once
    saved,       \* history: the configuration the accepted updates add up to
    dirty,       \* history: an update was refused or cut short since the last whole one
    launches, updates, hookRuns, deaths

diskVars == <<dir, configFile>>
procVars == <<pc, todo, mem>>
hookVars == <<at, last, mixed, hookRuns>>
savedVars == <<saved, dirty, updates>>
runtimeVars == <<diskVars, procVars, hookVars, savedVars, raced, launches, deaths>>

Extracting == {"unpack", "look", "remove", "place"}
Serving(p) == pc[p] = "serving"
NoRuns == [r \in Runs |-> 0]

RuntimeInit ==
    /\ dir = {} /\ configFile = Nothing
    /\ pc = [p \in Procs |-> "down"]
    /\ todo = [p \in Procs |-> {}]
    /\ mem = [p \in Procs |-> Nothing]
    /\ at = [p \in Procs |-> NoRuns]
    /\ last = [p \in Procs |-> <<>>]
    /\ mixed = [p \in Procs |-> FALSE]
    /\ raced = FALSE /\ saved = PackedConfig /\ dirty = FALSE
    /\ launches = 0 /\ updates = 0 /\ hookRuns = 0 /\ deaths = 0

-----------------------------------------------------------------------------
(* prepare_runtime_bundle.                                                   *)

MovesTo(p, l) == pc' = [pc EXCEPT ![p] = l]
ExtractFrame == UNCHANGED <<mem, hookVars, savedVars, launches, deaths>>

Begins(p, l) ==
    /\ pc[p] = "down" /\ launches < MaxLaunches
    /\ launches' = launches + 1
    /\ MovesTo(p, l)
    /\ raced' = (raced \/ (l = "unpack" /\ \E q \in Procs : pc[q] \in Extracting))
    /\ UNCHANGED <<diskVars, todo, mem, hookVars, savedVars, deaths>>

\* Mutant of Launch: a directory with the marker is extracted again.
LaunchUnmarked(p) == Begins(p, "unpack")

\* A directory with the marker is used as it is.
Launch(p) == Begins(p, IF "marker" \in dir THEN "choose" ELSE "unpack")

\* The archive is extracted to a directory of the process's own.
Unpack(p) ==
    /\ pc[p] = "unpack"
    /\ MovesTo(p, "look")
    /\ UNCHANGED <<diskVars, todo, raced>> /\ ExtractFrame

\* An unsafe or broken archive, one without data/knowledge, a full disk, ...
ExtractFails(p) ==
    /\ pc[p] \in Extracting
    /\ MovesTo(p, "down") /\ todo' = [todo EXCEPT ![p] = {}]
    /\ UNCHANGED <<diskVars, raced>> /\ ExtractFrame

FindOld(p) ==
    /\ pc[p] = "look"
    /\ MovesTo(p, IF dir = {} THEN "place" ELSE "remove")
    /\ todo' = [todo EXCEPT ![p] = dir]
    /\ UNCHANGED <<diskVars, raced>> /\ ExtractFrame

Removed(part) ==
    /\ dir' = dir \ {part}
    /\ configFile' = IF part = "config" THEN Nothing ELSE configFile

\* rmtree removes what it has listed, then the directory; it raises when a part
\* is gone already or another one has come.
RemoveOld(p) ==
    /\ pc[p] = "remove"
    /\ \/ \E part \in todo[p] :
            IF part \in dir
            THEN /\ Removed(part)
                 /\ todo' = [todo EXCEPT ![p] = @ \ {part}]
                 /\ UNCHANGED pc
            ELSE /\ MovesTo(p, "down") /\ todo' = [todo EXCEPT ![p] = {}]
                 /\ UNCHANGED diskVars
       \/ /\ todo[p] = {}
          /\ MovesTo(p, IF dir = {} THEN "place" ELSE "down")
          /\ UNCHANGED <<diskVars, todo>>
    /\ UNCHANGED raced /\ ExtractFrame

\* A directory is not replaced while there is something in it.
Place(p) ==
    /\ pc[p] = "place"
    /\ IF dir = {}
       THEN /\ dir' = Parts /\ configFile' = PackedConfig
            /\ MovesTo(p, "choose")
       ELSE MovesTo(p, "down") /\ UNCHANGED diskVars
    /\ UNCHANGED <<todo, raced>> /\ ExtractFrame

ChooseConfig(p) ==
    /\ pc[p] = "choose"
    /\ MovesTo(p, IF "config" \in dir THEN "load" ELSE "down")
    /\ UNCHANGED <<diskVars, todo, raced>> /\ ExtractFrame

-----------------------------------------------------------------------------
(* The configuration.                                                        *)

Valid(config) == config.base # Bad

\* ensure_config_file writes the defaults where it finds no file.
LoadConfig(p) ==
    /\ pc[p] = "load"
    /\ LET found == IF "config" \in dir THEN configFile ELSE Defaults IN
          /\ dir' = dir \cup {"config"} /\ configFile' = found
          /\ IF Valid(found)
             THEN MovesTo(p, "loaded") /\ mem' = [mem EXCEPT ![p] = found]
             ELSE MovesTo(p, "down") /\ UNCHANGED mem
    /\ UNCHANGED <<todo, raced, hookVars, savedVars, launches, deaths>>

\* The update is written, and then loaded: a refused one is in the file.
WriteAndLoad(p, config) ==
    /\ updates' = updates + 1
    /\ dir' = dir \cup {"config"} /\ configFile' = config
    /\ mem' = IF Valid(config) THEN [mem EXCEPT ![p] = config] ELSE mem
    /\ UNCHANGED <<pc, todo, raced, hookVars, launches, deaths>>

\* The whole configuration, as YAML or JSON: what the client was shown, with its
\* changes.  A key that is redacted or empty is the one in memory.
PutConfig(p) ==
    /\ Serving(p) /\ updates < MaxUpdates /\ dir # {}
    /\ \E base \in {Bad, updates + 1}, key \in {mem[p].key, updates + 1} :
          LET config == [base |-> base, prompt |-> mem[p].prompt, key |-> key] IN
          /\ WriteAndLoad(p, config)
          /\ saved' = IF Valid(config) THEN config ELSE saved
          /\ dirty' = ~Valid(config)

\* Mutant of PutPrompt: the rest is taken from memory.
PutPromptOfMemory(p) ==
    /\ Serving(p) /\ updates < MaxUpdates /\ "config" \in dir
    /\ WriteAndLoad(p, [mem[p] EXCEPT !.prompt = updates + 1])
    /\ saved' = [saved EXCEPT !.prompt = updates + 1]
    /\ UNCHANGED dirty

\* The prompts are set in what the file holds.
PutPrompt(p) ==
    /\ Serving(p) /\ updates < MaxUpdates /\ "config" \in dir
    /\ WriteAndLoad(p, [configFile EXCEPT !.prompt = updates + 1])
    /\ saved' = [saved EXCEPT !.prompt = updates + 1]
    /\ UNCHANGED dirty

-----------------------------------------------------------------------------
(* The hooks.  A run goes through the scripts; between a script's start and  *)
(* its result are awaits: the command, its timeout, the URL it is to serve.  *)

NoHooks(p) == at[p] = NoRuns

\* Mutant of StartRun: the results of the run before are kept.
StartRunOver(p, r) ==
    /\ at' = [at EXCEPT ![p][r] = 1]
    /\ mixed' = [mixed EXCEPT ![p] = ~NoHooks(p)]
    /\ UNCHANGED last

\* run_startup_hooks makes a new list, which every run appends to from then on.
StartRun(p, r) ==
    /\ at' = [at EXCEPT ![p][r] = 1]
    /\ last' = [last EXCEPT ![p] = <<>>]
    /\ mixed' = [mixed EXCEPT ![p] = ~NoHooks(p)]

HookFrame == UNCHANGED <<diskVars, todo, mem, savedVars, raced, launches, deaths>>

\* lifespan, before the server serves.
StartupHooks(p) ==
    /\ pc[p] = "loaded"
    /\ StartRun(p, "startup")
    /\ MovesTo(p, "starting")
    /\ UNCHANGED hookRuns /\ HookFrame

PostHooksRun(p, c) ==
    /\ Serving(p) /\ at[p][c] = 0 /\ hookRuns < MaxHookRuns
    /\ hookRuns' = hookRuns + 1
    /\ StartRun(p, c)
    /\ UNCHANGED pc /\ HookFrame

\* A script is not ok when it has no command for the platform, when its command
\* fails or is late, or when its URL does not answer in time.
HookEnds(p, r) ==
    /\ at[p][r] > 0
    /\ \E ok \in BOOLEAN :
          LET raises == StopOnFailure /\ ~ok
              ends == raises \/ at[p][r] = Scripts
          IN /\ last' = [last EXCEPT ![p] =
                           Append(@, [run |-> r, script |-> at[p][r], ok |-> ok])]
             /\ at' = [at EXCEPT ![p][r] = IF ends THEN 0 ELSE @ + 1]
             /\ IF r = "startup" /\ ends
                THEN MovesTo(p, IF raises THEN "exit" ELSE "serving")
                ELSE UNCHANGED pc
    /\ UNCHANGED <<mixed, hookRuns>> /\ HookFrame

-----------------------------------------------------------------------------
Gone(p) ==
    /\ MovesTo(p, "down")
    /\ todo' = [todo EXCEPT ![p] = {}]
    /\ mem' = [mem EXCEPT ![p] = Nothing]
    /\ at' = [at EXCEPT ![p] = NoRuns]
    /\ last' = [last EXCEPT ![p] = <<>>]
    /\ mixed' = [mixed EXCEPT ![p] = FALSE]
    /\ UNCHANGED <<raced, hookRuns, saved, launches>>

\* A start-up hook that failed has raised out of lifespan.
Exit(p) ==
    /\ pc[p] = "exit" /\ Gone(p)
    /\ UNCHANGED <<diskVars, dirty, updates, deaths>>

\* A process that dies inside an update leaves the file empty.
Die(p) ==
    /\ pc[p] # "down" /\ deaths < MaxDeaths
    /\ deaths' = deaths + 1
    /\ Gone(p)
    /\ \/ UNCHANGED <<diskVars, dirty, updates>>
       \/ /\ Serving(p) /\ updates < MaxUpdates /\ "config" \in dir
          /\ configFile' = Defaults /\ dirty' = TRUE /\ updates' = updates + 1
          /\ UNCHANGED dir

RuntimeNext ==
    \E p \in Procs :
        \/ Launch(p) \/ Unpack(p) \/ FindOld(p) \/ RemoveOld(p) \/ Place(p)
        \/ ExtractFails(p) \/ ChooseConfig(p) \/ LoadConfig(p)
        \/ StartupHooks(p) \/ (\E r \in Runs : HookEnds(p, r)) \/ Exit(p) \/ Die(p)
        \/ PutConfig(p) \/ PutPrompt(p)
        \/ \E c \in Callers : PostHooksRun(p, c)

RuntimeSpec == RuntimeInit /\ [][RuntimeNext]_runtimeVars

-----------------------------------------------------------------------------
(* Properties.                                                               *)

Results == [run : Runs, script : 1..Scripts, ok : BOOLEAN]
RuntimeTypeOK ==
    /\ dir \subseteq Parts /\ configFile \in Configs \cup {Nothing}
    /\ "config" \in dir <=> configFile # Nothing
    /\ pc \in [Procs -> Extracting \cup {"down", "choose", "load", "loaded", "starting",
                                         "serving", "exit"}]
    /\ todo \in [Procs -> SUBSET Parts] /\ mem \in [Procs -> Configs \cup {Nothing}]
    /\ at \in [Procs -> [Runs -> 0..Scripts]]
    /\ last \in [Procs -> Seq(Results)]
    /\ mixed \in [Procs -> BOOLEAN] /\ raced \in BOOLEAN
    /\ saved \in Configs /\ dirty \in BOOLEAN
    /\ launches \in 0..MaxLaunches /\ updates \in 0..MaxUpdates
    /\ hookRuns \in 0..MaxHookRuns /\ deaths \in 0..MaxDeaths

\* What /status and a run's answer report: the results of one run, script by script
\* up to the one it is at, and none after a failure that stops it (hooks.py:156-209).
\* Runs that overlap share one list.
HooksInOrder ==
    \A p \in Procs : ~mixed[p] =>
        /\ \A i \in DOMAIN last[p] : last[p][i].script = i
        /\ \A r \in Runs : at[p][r] > 0 =>
              /\ at[p][r] = Len(last[p]) + 1
              /\ \A i \in DOMAIN last[p] :
                    last[p][i].run = r /\ (StopOnFailure => last[p][i].ok)

\* Where a process is when it has a configuration, and when a run of hooks is on.
ProcessesFit ==
    \A p \in Procs :
        /\ pc[p] \in {"loaded", "starting", "serving"} => mem[p] \in Configs
        /\ at[p]["startup"] > 0 => pc[p] = "starting"
        /\ ~mixed[p] => \A r, s \in Runs : at[p][r] > 0 /\ at[p][s] > 0 => r = s

\* As long as no two have extracted at once: one extracts, into an absent directory,
\* or there is the whole bundle and its file holds what was accepted.
BundleWhole ==
    ~raced =>
        /\ \A p \in Procs :
              /\ pc[p] \in Extracting =>
                    /\ dir = {} /\ pc[p] # "remove"
                    /\ \A q \in Procs : pc[q] \in Extracting => q = p
              /\ pc[p] \notin Extracting \cup {"down"} => dir = Parts
        /\ dir \in {{}, Parts}
        /\ dir = {} => ~dirty /\ saved = PackedConfig
        /\ dir # {} => dirty \/ configFile = saved

\* Results of a hook run are its own and in the order of the commands (hooks.py:33,
\* 160), and what keeps the bundle whole, inductively.
RuntimeInv == RuntimeTypeOK /\ HooksInOrder /\ ProcessesFit /\ BundleWhole

\* A process that serves finds the bundle in its directory, whoever launches, fails
\* and dies beside it (bundle.py:139-156), unless two have extracted at once.
ServesWhole ==
    raced \/ \A p \in Procs :
        pc[p] \in {"load", "loaded", "starting", "serving"} => dir = Parts

\* Accepted updates of the configuration in the bundle's directory outlive the
\* process that accepted them; they are undone neither by a later launch nor, when
\* only prompts are set, by what another process has in memory
\* (bundle.py:139, router.py:300-321).  Not so once an update was refused or cut.
UpdatesStay ==
    raced \/ dirty \/ dir = {} \/ configFile = saved
=============================================================================
